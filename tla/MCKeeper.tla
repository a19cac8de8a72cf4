------------------------------ MODULE MCKeeper ------------------------------
(***************************************************************************)
(* Checks the Keeper operators against reference definitions over every    *)
(* small input: every sequence of up to MaxCompositions compositions, each *)
(* with a repository and an optional user-provided name, all inject_container_name lists with up to              *)
(* MaxInjections pairs in all, with and without a user-set value at the   *)
(* injected key, and every order in which the containers finish starting.  *)
(* The state is the input; Next leaves it unchanged.                       *)
(***************************************************************************)
EXTENDS Keeper, FiniteSets

CONSTANTS
  Repositories,      \* image repositories a composition may use
  UserNames,         \* names with_container_name may set
  UnknownHandle,     \* a handle no composition carries
  EnvKeys,           \* env keys an injection may target
  MaxCompositions,
  MaxInjections

DeclaredHandles == Repositories \cup UserNames
ASSUME UnknownHandle \notin DeclaredHandles

VARIABLES comps, inject, preset, completion

vars == <<comps, inject, preset, completion>>

\* String::replace("/", "_") on the names of this instance.
ReplaceSlash == [n \in DeclaredHandles |-> IF n = "pg/db" THEN "pg_db" ELSE n]
ASSUME DeclaredHandles \subseteq {"pg/db", "pg_db"}

CompositionChoices ==
  [repository : Repositories,
   user_name : {<<>>} \cup {<<n>> : n \in UserNames}]

AllHandles == DeclaredHandles \cup {UnknownHandle}
UserValue  == <<"user", 0>>
InjectLists == UNION {[1..n -> AllHandles \X EnvKeys] : n \in 0..MaxInjections}
Presets     == {<<>>} \cup {(k :> UserValue) : k \in EnvKeys}

Init ==
  /\ comps \in UNION {[1..n -> CompositionChoices] : n \in 0..MaxCompositions}
  /\ inject \in {f \in [1..Len(comps) -> InjectLists] :
                 FoldFunction(LAMBDA l, n : Len(l) + n, 0, f) <= MaxInjections}
  /\ preset \in [1..Len(comps) -> Presets]
  /\ completion \in {p \in [1..Len(comps) -> 1..Len(comps)] : IsInjective(p)}

Next == UNCHANGED vars

Spec == Init /\ [][Next]_vars

\* The Keeper<Composition> of run_impl, before and after name resolution.
Compositions == [c \in 1..Len(comps) |->
                  [repository |-> comps[c].repository,
                   user_name |-> comps[c].user_name, name |-> <<>>,
                   env |-> preset[c], inject |-> inject[c]]]
Validated == ValidateCompositionHandlers([c \in 1..Len(comps) |->
                                            Handle(Compositions[c])],
                                         Compositions)
Resolved  == ResolveInjectContainerNameEnv(
               ResolveFinalContainerName(Validated, ReplaceSlash))

\* Reference definitions, written from the declaration list directly.
Occurrences(h) ==
  {i \in 1..Len(comps) : \/ comps[i].user_name = <<h>>
                         \/ comps[i].user_name = <<>> /\ comps[i].repository = h}
Unique(h)      == Cardinality(Occurrences(h)) = 1
TheIndex(h)    == CHOOSE i \in Occurrences(h) : TRUE
LastPairAt(c, k) ==
  LET js == {j \in DOMAIN inject[c] : inject[c][j][2] = k}
  IN  IF js = {} THEN 0 ELSE CHOOSE j \in js : \A i \in js : i <= j

TypeOK ==
  /\ DOMAIN Validated.lookup_handlers \subseteq DeclaredHandles
  /\ Validated.lookup_collisions \subseteq DeclaredHandles
  /\ Range(Validated.lookup_handlers) \subseteq 1..Len(Validated.kept)
  /\ Len(Validated.kept) = Len(comps)

(***************************************************************************)
(* Handle resolution (validate_composition_handlers then try_handle): a    *)
(* handle declared once resolves to the entity at its declaration index, a *)
(* handle declared twice or more always fails with a collision although    *)
(* every entity stays in kept, and an undeclared handle is not found.      *)
(***************************************************************************)
HandleResolution ==
  \A h \in AllHandles :
    TryHandle(Validated, h) =
      CASE Occurrences(h) = {} -> [status |-> "not_found", value |-> 0]
        [] Unique(h)           -> [status |-> "ok",
                                   value |-> Compositions[TheIndex(h)]]
        [] OTHER               -> [status |-> "collision", value |-> 0]

(***************************************************************************)
(* Name injection (resolve_final_container_name then                       *)
(* resolve_inject_container_name_env): it succeeds exactly when every      *)
(* injected handle of every composition is declared once; then each        *)
(* requesting composition's env holds, at each injected key, the finalized *)
(* name of the composition the LAST pair for that key names, keeps its     *)
(* other values, and gains no other keys; otherwise it fails naming the    *)
(* first composition (in declaration order) with an unresolvable pair.     *)
(***************************************************************************)
InjectionResolvesToFinalNames ==
  LET Bad(c) == \E j \in DOMAIN inject[c] : ~Unique(inject[c][j][1])
      env(c) == Resolved.keeper.kept[c].env
  IN  /\ Resolved.ok <=> ~\E c \in 1..Len(comps) : Bad(c)
      /\ ~Resolved.ok =>
           Resolved.error[1] = CHOOSE c \in 1..Len(comps) :
                                 Bad(c) /\ \A d \in 1..c-1 : ~Bad(d)
      /\ Resolved.ok =>
           \A c \in 1..Len(comps) :
             /\ DOMAIN env(c) = DOMAIN preset[c]
                                \cup {inject[c][j][2] : j \in DOMAIN inject[c]}
             /\ \A k \in DOMAIN env(c) :
                  env(c)[k] =
                    IF LastPairAt(c, k) = 0 THEN preset[c][k]
                    ELSE LET h == inject[c][LastPairAt(c, k)][1]
                         IN  <<ReplaceSlash[h], TheIndex(h)>>

(***************************************************************************)
(* Order restoration (sort_running_containers_into_insertion_order):       *)
(* whatever order the containers finished starting in, the sorted vector   *)
(* is the declaration order.                                               *)
(***************************************************************************)
SortRestoresInsertionOrder ==
  SortRunningContainersIntoInsertionOrder(completion,
                                          [i \in 1..Len(comps) |-> i])
    = [i \in 1..Len(comps) |-> i]
=============================================================================

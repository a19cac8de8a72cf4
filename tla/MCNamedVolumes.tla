---------------------------- MODULE MCNamedVolumes ----------------------------
(***************************************************************************)
(* Checks Runner::resolve_named_volumes (Keeper!ResolveNamedVolumes) over  *)
(* every assignment of named volumes to up to MaxCompositions compositions *)
(* with at most MaxVolumeRefs references in all, repeated names within a   *)
(* composition and across compositions included.  The state is the input.  *)
(***************************************************************************)
EXTENDS Keeper, FiniteSets

CONSTANTS
  VolumeNames,       \* bare volume names a composition may declare
  RunId,             \* the Runner's id, the suffix of every named volume
  MaxCompositions,
  MaxVolumeRefs

VARIABLE vols

VolumeLists == UNION {[1..n -> VolumeNames] : n \in 0..MaxVolumeRefs}

Init ==
  vols \in {f \in UNION {[1..n -> VolumeLists] : n \in 0..MaxCompositions} :
              FoldFunction(LAMBDA l, n : Len(l) + n, 0, f) <= MaxVolumeRefs}

Next == UNCHANGED vols

Spec == Init /\ [][Next]_vols

Resolved == ResolveNamedVolumes(vols, RunId)

(***************************************************************************)
(* Named volume identity (resolve_named_volumes, spec section 8): every    *)
(* reference to a bare name, in whichever composition and however often,  *)
(* resolves to the one suffixed name NAME-ID, and the named volumes        *)
(* handed to teardown are exactly the suffixed names of the referenced     *)
(* bare names, each once.                                                  *)
(***************************************************************************)
VolumeNamesResolveConsistently ==
  LET used == UNION {ToSet(vols[c]) : c \in DOMAIN vols}
  IN  /\ \A c \in DOMAIN vols : \A j \in DOMAIN vols[c] :
           Resolved.final_named_volume_names[c][j] = <<vols[c][j], RunId>>
      /\ Resolved.named_volumes = {<<v, RunId>> : v \in used}
=============================================================================

--------------------------- MODULE MCDockerTestRun ---------------------------
(***************************************************************************)
(* Three compositions "db", "cache" and "app", the end-to-end example of   *)
(* the spec: "app" injects db's container name as DB_HOST, or, in the      *)
(* second configuration, a handle nobody declares.  Every start policy    *)
(* assignment, prune strategy, network mode and log policy the cfg allows  *)
(* is an initial configuration.                                            *)
(***************************************************************************)
EXTENDS DockerTestRun

MCHandleOf == <<"db", "cache", "app">>

MCInjectChoices ==
  { <<<<>>, <<>>, <<<<"db", "DB_HOST">>>>>>,
    <<<<>>, <<>>, <<<<"queue", "QUEUE_HOST">>>>>> }
=============================================================================

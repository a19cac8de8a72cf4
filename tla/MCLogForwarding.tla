--------------------------- MODULE MCLogForwarding ---------------------------
(***************************************************************************)
(* Two cleanup containers, every LogOptions value and both test outcomes. *)
(***************************************************************************)
EXTENDS LogForwarding

MCOptions ==
  [source : {"StdErr", "StdOut", "Both"},
   action : {"Forward", "ForwardToStdErr", "ForwardToStdOut", "ForwardToFile"},
   policy : {"Always", "OnError"}]
=============================================================================

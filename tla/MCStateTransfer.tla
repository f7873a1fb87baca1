--------------------------- MODULE MCStateTransfer ---------------------------
(*****************************************************************************)
(* The destination of state transfer, checked on three instances in one run: *)
(* `instance` is chosen at the start and never changes.  Two of them change   *)
(* constants of the cfg that no property mentions.                           *)
(*                                                                           *)
(*   Crashes      one crash while the newest checkpoint is fetched           *)
(*   Checkpoints  the sources go on while an older checkpoint is fetched     *)
(*   Primary      summaries are discarded, the primary is avoided            *)
(*****************************************************************************)
EXTENDS StateTransfer

CONSTANTS s1, s2, s3

VARIABLE instance

Checkpoints == INSTANCE StateTransfer WITH MaxCrashes <- 0

Primary == INSTANCE StateTransfer WITH
  PrimaryAware <- TRUE, Faulty <- {}, MaxCrashes <- 0, MaxClears <- 1

MCInit ==
  /\ Init
  /\ \/ instance \in {"Crashes", "Primary"} /\ newest = MaxCp
     \/ instance = "Checkpoints" /\ newest = 1

MCNext ==
  /\ UNCHANGED instance
  /\ \/ instance = "Crashes" /\ Next
     \/ instance = "Checkpoints" /\ Checkpoints!Next
     \/ instance = "Primary" /\ Primary!Next

MCSpec == MCInit /\ [][MCNext]_<<vars, instance>>
==============================================================================

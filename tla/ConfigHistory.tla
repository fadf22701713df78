---------------------------- MODULE ConfigHistory ---------------------------
(***************************************************************************)
(* What the configuration registry promises its users, without requests,   *)
(* drafts, locks or transactions: the published configurations form one    *)
(* growing history, and a publish replaces, in the same step, the          *)
(* definitions that run by those of the new configuration.                 *)
(***************************************************************************)
EXTENDS Sequences

CONSTANTS
  Configs,       \* configurations that may be published
  ManagedKeys,   \* keys of the runtime workflows that publishes manage
  None           \* the definition of a workflow that does not run

VARIABLES
  history,       \* the published configurations, in order
  running        \* the definition each managed workflow runs

Deployment(config) ==
  [k \in ManagedKeys |-> IF k \in DOMAIN config.workflows THEN config.workflows[k] ELSE None]

Init ==
  /\ history = <<>>
  /\ running = [k \in ManagedKeys |-> None]

Publish(config) ==
  /\ history' = Append(history, config)
  /\ running' = Deployment(config)

Next == \E config \in Configs : Publish(config)

Spec == Init /\ [][Next]_<<history, running>>
=============================================================================

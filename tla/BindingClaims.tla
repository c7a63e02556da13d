---------------------------- MODULE BindingClaims ----------------------------
(***************************************************************************)
(* What the repository's tests say of a bound directory and the code does  *)
(* not do: each of these is refuted by a run.                              *)
(***************************************************************************)
EXTENDS Binding

\* tests/e2e/tests/data_loss_regressions.rs:3-4: no save ends up "silently
\* emptied or overwritten".  NoLossOutsideWindow without the exception: the
\* materializer reads the file, decides, and writes over a save made meanwhile.
NoUncapturedOverwrite ==
  [][\A p \in Path : mat' # mat /\ disk'[p] # disk[p] => disk[p] \in Opt(Recoverable)]_vars

\* tests/e2e/tests/crash_recovery.rs:1: "write, drop the Vault, reopen, expect
\* state preserved".  When the user leaves the disk alone, the scan after a
\* restart writes no content that the saved document already had and has moved
\* on from.
RestartKeepsNewerText ==
  [][phase = "scan" /\ ing.pc = "write" /\ files' # files
       => ing.bytes \notin held.text]_vars
=============================================================================

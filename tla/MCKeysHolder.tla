----------------------------- MODULE MCKeysHolder -----------------------------
(***************************************************************************)
(* KeysHolder for TLC: a main machine and a backup that both hold two      *)
(* keys, two goroutines adding them, and five identities.                  *)
(***************************************************************************)
EXTENDS KeysHolder, TLC

CONSTANTS main, backup, k1, k2, c1, c2, i1, i2, i3, i4, i5

MCMachines == {main, backup}
MCIsMainMachine(m) == m = main
MCKeys == {k1, k2}
MCCallers == {c1, c2}
MCPids == {i1, i2, i3, i4, i5}

\* Keys, callers and identities are interchangeable.
MCSymmetry == Permutations(MCKeys) \cup Permutations(MCCallers) \cup Permutations(MCPids)

=============================================================================

----------------------------- MODULE AtomicVault -----------------------------
(***************************************************************************)
(* What vault-write promises about the files only it writes: a payload is  *)
(* applied to all of its files at once or not at all, and only to a vault  *)
(* that still has the contents the payload names (vault-write.py:56-58).   *)
(***************************************************************************)
EXTENDS VaultPayload

CONSTANT Requests    \* the payloads callers may submit

VARIABLE vault       \* what each path holds, committed transactions included

Init == vault \in [Path -> Content \cup {Absent}]

\* Only the paths of this vault are compared and written; a payload may name
\* others as well.
Commit(r) ==
  LET here == Planned(vault, [p \in Path \cap DOMAIN r |-> r[p]]) IN
  /\ \A p \in DOMAIN here : Matches(vault[p], here[p].old)
  /\ vault' = [p \in Path |-> IF p \in DOMAIN here THEN here[p].new ELSE vault[p]]

Next == \E r \in Requests : Commit(r)

Spec == Init /\ [][Next]_vault
=============================================================================

---------------------------- MODULE MCVaultWrite ----------------------------
(* Small instances of VaultWrite for TLC.                                  *)
EXTENDS VaultWrite, TLC

CONSTANTS page, other, log, x, y, l0, l1

\* Two contents of one source page, and two states of the log.
Sources == (x :> "url") @@ (y :> "url") @@ (l0 :> None) @@ (l1 :> None)

From(c, d) == [old |-> c, new |-> d, preserve |-> FALSE]
Close(c, d) == [old |-> c, new |-> d, preserve |-> TRUE]

\* A move, an update with a log entry, a create, a delete, and the close of a
\* plan that is left out when the plan has changed.
Payloads ==
  { (page :> From(x, Absent)) @@ (other :> From(Absent, x)),
    (page :> From(x, y)) @@ (log :> From(Present, l1)),
    other :> From(Absent, y),
    (other :> From(x, Absent)) @@ (log :> From(Present, l0)),
    (page :> Close(x, y)) @@ (log :> From(Present, l1)) }

Vault == (page :> x) @@ (other :> Absent) @@ (log :> l0)

WriterSymmetry == Permutations(Writer)
=============================================================================

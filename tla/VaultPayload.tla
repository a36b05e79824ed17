---------------------------- MODULE VaultPayload ----------------------------
(***************************************************************************)
(* A vault-write payload, as a function from the paths it touches to what  *)
(* it expects and what it puts there (vault_write_pages.py,                *)
(* vault_write_mutations.py).  A move is two entries.                      *)
(***************************************************************************)
CONSTANTS
  Path,      \* files a payload may touch
  Content,   \* file contents, told apart by their SHA-256
  Absent,    \* the content of a missing file
  Present    \* expectation of a file rendered from whatever it holds

ASSUME ContentAssumption == Absent \notin Content /\ Present \notin Content \cup {Absent}

\* preserve marks a plan_close that is left out when its file has changed.
Entry ==
  [old : Content \cup {Absent, Present}, new : Content \cup {Absent}, preserve : BOOLEAN]

Payload == UNION {[P -> Entry] : P \in SUBSET Path}

\* A delete names the content it deletes.
WellFormed(r) == \A p \in DOMAIN r : r[p].new = Absent => r[p].old \in Content

Matches(found, expected) == IF expected = Present THEN found # Absent ELSE found = expected

LeftOut(found, e) == e.preserve /\ found \notin {Absent, e.old}

\* The payload as planned against the files f, less the preserved conflicts.
Planned(f, r) == [p \in {q \in DOMAIN r : ~ LeftOut(f[q], r[q])} |-> r[p]]
=============================================================================

----------------------- MODULE FinalizationLedgerProofs -----------------------
(***************************************************************************)
(* Theorems about FinalizationLedger, for any attempts, HEADs, ceilings and*)
(* any derivation of retry identities.  Each call's effect on the file is  *)
(* first stated index by index (the ...Shape lemmas); the invariants then  *)
(* need no fact about sequences but those.                                 *)
(***************************************************************************)
EXTENDS FinalizationLedger, TLAPS

-----------------------------------------------------------------------------
\* The empty string is none of the others.
LEMMA UnsetIsOther ==
  /\ Unset \notin Product
  /\ Unset # "approved" /\ Unset # "changes-requested"
  /\ Unset # "finalization-budget-exhausted"
  /\ Unset \in Disposition
  BY Zenon DEF Unset, Product, Disposition

-----------------------------------------------------------------------------
(* The calls' effect on the file.                                          *)

\* A sequence with an element more, index by index.
LEMMA AppendShape ==
  ASSUME NEW S, NEW s \in Seq(S), NEW e \in S
  PROVE  /\ Append(s, e) \in Seq(S)
         /\ Len(Append(s, e)) = Len(s) + 1
         /\ \A i \in 1..Len(s) : Append(s, e)[i] = s[i]
         /\ Append(s, e)[Len(s) + 1] = e
         /\ DOMAIN s = 1..Len(s) /\ DOMAIN Append(s, e) = 1..(Len(s) + 1)
  OBVIOUS

\* A sequence without its last element, index by index.
LEMMA ButLastShape ==
  ASSUME NEW S, NEW s \in Seq(S), s # <<>>
  PROVE  /\ Len(s) \in Nat \ {0}
         /\ ButLast(s) \in Seq(S)
         /\ Len(ButLast(s)) = Len(s) - 1
         /\ \A i \in 1..(Len(s) - 1) : ButLast(s)[i] = s[i]
         /\ DOMAIN s = 1..Len(s) /\ DOMAIN ButLast(s) = 1..(Len(s) - 1)
  BY SMTT(30) DEF ButLast

\* What a ledger is made of.
LEMMA LedgerParts ==
  ASSUME NEW l \in Ledger
  PROVE  /\ l.cycles \in Seq(Cycle) /\ l.attempts \in Seq(Receipt)
         /\ l.disposition \in Disposition
         /\ Len(l.cycles) \in Nat /\ Len(l.attempts) \in Nat
         /\ DOMAIN l.cycles = 1..Len(l.cycles) /\ DOMAIN l.attempts = 1..Len(l.attempts)
         /\ \A i \in 1..Len(l.cycles) : l.cycles[i] \in Cycle
         /\ \A i \in 1..Len(l.attempts) : l.attempts[i] \in Receipt
         /\ l.cycles # <<>> <=> Len(l.cycles) > 0
         /\ l.attempts # <<>> <=> Len(l.attempts) > 0
  <1>1. l.cycles \in Seq(Cycle) /\ l.attempts \in Seq(Receipt) /\ l.disposition \in Disposition
    BY DEF Ledger
  <1>2. QED BY <1>1

\* Opened adds one undecided cycle and clears the disposition.
LEMMA OpenedShape ==
  ASSUME NEW l \in Ledger, NEW q \in Request
  PROVE  LET m == Opened(l, q)
         IN /\ m \in Ledger
            /\ Len(m.cycles) = Len(l.cycles) + 1
            /\ \A i \in 1..Len(l.cycles) : m.cycles[i] = l.cycles[i]
            /\ m.cycles[Len(l.cycles) + 1] = [attempt |-> q.attempt, head |-> q.head, result |-> Unset]
            /\ m.attempts = l.attempts /\ m.disposition = Unset
  <1> DEFINE e == [attempt |-> q.attempt, head |-> q.head, result |-> Unset]
             m == Opened(l, q)
  <1>1. e \in Cycle BY DEF Cycle, Request, Product
  <1>2. l.cycles \in Seq(Cycle) BY LedgerParts
  <1>3. m = [l EXCEPT !.cycles = Append(l.cycles, e), !.disposition = Unset] BY DEF Opened
  <1> HIDE DEF e
  <1>4. Append(l.cycles, e) \in Seq(Cycle) BY <1>1, <1>2
  <1> DEFINE s == Append(l.cycles, e)
  <1>a. s = Append(l.cycles, e) OBVIOUS
  <1> HIDE DEF s
  <1>b. m = [l EXCEPT !.cycles = s, !.disposition = Unset] /\ s \in Seq(Cycle) BY <1>3, <1>4, <1>a
  <1> HIDE DEF m
  <1>c. m.cycles = s /\ m.attempts = l.attempts /\ m.disposition = Unset /\ m \in Ledger
    BY <1>b DEF Ledger, Disposition
  <1>5. /\ m.cycles = Append(l.cycles, e) /\ m.attempts = l.attempts /\ m.disposition = Unset
        /\ m \in Ledger
    BY <1>a, <1>c
  <1>6. /\ Len(m.cycles) = Len(l.cycles) + 1
        /\ \A i \in 1..Len(l.cycles) : m.cycles[i] = l.cycles[i]
        /\ m.cycles[Len(l.cycles) + 1] = e
    <2>1. /\ Len(Append(l.cycles, e)) = Len(l.cycles) + 1
          /\ \A i \in 1..Len(l.cycles) : Append(l.cycles, e)[i] = l.cycles[i]
          /\ Append(l.cycles, e)[Len(l.cycles) + 1] = e
      BY <1>1, <1>2, AppendShape
    <2>2. QED BY <1>5, <2>1
  <1>7. QED BY <1>5, <1>6 DEF e, m

\* Recovered does the same and takes the latest receipt away.
LEMMA RecoveredShape ==
  ASSUME NEW l \in Ledger, NEW q \in Request, l.attempts # <<>>
  PROVE  LET m == Recovered(l, q)
         IN /\ m \in Ledger
            /\ Len(m.cycles) = Len(l.cycles) + 1
            /\ \A i \in 1..Len(l.cycles) : m.cycles[i] = l.cycles[i]
            /\ m.cycles[Len(l.cycles) + 1] = [attempt |-> q.attempt, head |-> q.head, result |-> Unset]
            /\ Len(m.attempts) = Len(l.attempts) - 1
            /\ \A i \in 1..(Len(l.attempts) - 1) : m.attempts[i] = l.attempts[i]
            /\ m.attempts = ButLast(l.attempts) /\ m.disposition = Unset
  <1> DEFINE o == Opened(l, q)
             m == Recovered(l, q)
  <1>1. /\ o \in Ledger /\ o.attempts = l.attempts /\ o.disposition = Unset
        /\ Len(o.cycles) = Len(l.cycles) + 1
        /\ \A i \in 1..Len(l.cycles) : o.cycles[i] = l.cycles[i]
        /\ o.cycles[Len(l.cycles) + 1] = [attempt |-> q.attempt, head |-> q.head, result |-> Unset]
    BY OpenedShape
  <1>2. m = [o EXCEPT !.attempts = ButLast(o.attempts)] BY DEF Recovered
  <1> HIDE DEF o
  <1>3. l.attempts \in Seq(Receipt) BY LedgerParts
  <1>4. ButLast(l.attempts) \in Seq(Receipt) BY <1>3, ButLastShape
  <1> DEFINE s == ButLast(l.attempts)
  <1>a. s = ButLast(l.attempts) OBVIOUS
  <1> HIDE DEF s
  <1>b. m = [o EXCEPT !.attempts = s] /\ s \in Seq(Receipt) BY <1>1, <1>2, <1>4, <1>a
  <1> HIDE DEF m
  <1>c. m.cycles = o.cycles /\ m.disposition = o.disposition /\ m.attempts = s /\ m \in Ledger
    BY <1>1, <1>b DEF Ledger
  <1>5. /\ m.cycles = o.cycles /\ m.disposition = Unset /\ m.attempts = ButLast(l.attempts)
        /\ m \in Ledger
    BY <1>1, <1>a, <1>c
  <1>6. /\ Len(m.attempts) = Len(l.attempts) - 1
        /\ \A i \in 1..(Len(l.attempts) - 1) : m.attempts[i] = l.attempts[i]
    BY <1>3, <1>5, ButLastShape
  <1>7. QED BY <1>1, <1>5, <1>6 DEF m

\* Released turns the active cycle into a receipt.
LEMMA ReleasedShape ==
  ASSUME NEW l \in Ledger, l.cycles # <<>>, Len(l.cycles) <= MaxCycles,
         NEW a \in Attempt, NEW result \in Mechanism
  PROVE  LET m == Released(l, a, result)
         IN /\ m \in Ledger
            /\ Len(m.cycles) = Len(l.cycles) - 1
            /\ \A i \in 1..(Len(l.cycles) - 1) : m.cycles[i] = l.cycles[i]
            /\ m.cycles = ButLast(l.cycles)
            /\ Len(m.attempts) = Len(l.attempts) + 1
            /\ \A i \in 1..Len(l.attempts) : m.attempts[i] = l.attempts[i]
            /\ m.attempts[Len(l.attempts) + 1] =
                 [attempt |-> a, cycle |-> Len(l.cycles), classification |-> result]
            /\ m.disposition = l.disposition
  <1> DEFINE e == [attempt |-> a, cycle |-> Len(l.cycles), classification |-> result]
             m == Released(l, a, result)
  <1>1. /\ l.cycles \in Seq(Cycle) /\ l.attempts \in Seq(Receipt) /\ l.disposition \in Disposition
        /\ Len(l.cycles) \in Nat
    BY LedgerParts
  <1>2. Len(l.cycles) \in 1..MaxCycles BY <1>1, ButLastShape, LedgerAssumption
  <1>3. e \in Receipt BY <1>2 DEF Receipt
  <1>4. m = [l EXCEPT !.cycles = ButLast(l.cycles), !.attempts = Append(l.attempts, e)]
    BY DEF Released
  <1> HIDE DEF e
  <1>5. ButLast(l.cycles) \in Seq(Cycle) BY <1>1, ButLastShape
  <1>6. Append(l.attempts, e) \in Seq(Receipt) BY <1>1, <1>3
  <1>7. /\ m.cycles = ButLast(l.cycles) /\ m.attempts = Append(l.attempts, e)
        /\ m.disposition = l.disposition /\ m \in Ledger
    BY <1>4, <1>5, <1>6 DEF Ledger
  <1>8. /\ Len(m.cycles) = Len(l.cycles) - 1
        /\ \A i \in 1..(Len(l.cycles) - 1) : m.cycles[i] = l.cycles[i]
    BY <1>1, <1>7, ButLastShape
  <1>9. /\ Len(m.attempts) = Len(l.attempts) + 1
        /\ \A i \in 1..Len(l.attempts) : m.attempts[i] = l.attempts[i]
        /\ m.attempts[Len(l.attempts) + 1] = e
    BY <1>1, <1>3, <1>7, AppendShape
  <1>10. QED BY <1>7, <1>8, <1>9 DEF e

\* Decided gives the last cycle its result and nothing else.
LEMMA DecidedShape ==
  ASSUME NEW l \in Ledger, l.cycles # <<>>, NEW result \in Product
  PROVE  LET m == Decided(l, result)
             n == Len(l.cycles)
         IN /\ m \in Ledger
            /\ Len(m.cycles) = n
            /\ \A i \in 1..n : i # n => m.cycles[i] = l.cycles[i]
            /\ m.cycles[n] = [attempt |-> l.cycles[n].attempt, head |-> l.cycles[n].head,
                              result |-> result]
            /\ m.attempts = l.attempts
            /\ m.disposition = IF result = "approved" THEN "approved"
                               ELSE IF n = MaxCycles THEN "finalization-budget-exhausted"
                                    ELSE l.disposition
  <1> DEFINE n == Len(l.cycles)
             e == [attempt |-> l.cycles[n].attempt, head |-> l.cycles[n].head, result |-> result]
             c == [l.cycles EXCEPT ![n] = e]
             d == IF result = "approved" THEN "approved"
                  ELSE IF n = MaxCycles THEN "finalization-budget-exhausted" ELSE l.disposition
             m == Decided(l, result)
  <1>1. /\ l.cycles \in Seq(Cycle) /\ l.disposition \in Disposition /\ n \in Nat /\ n > 0
        /\ DOMAIN l.cycles = 1..n
    BY LedgerParts
  <1>2. l.cycles[n] \in Cycle BY <1>1, LedgerParts
  <1>3. e \in Cycle BY <1>2 DEF Cycle
  <1>4. [l.cycles[n] EXCEPT !.result = result] = e
    <2> DEFINE x == l.cycles[n]
    <2>1. x = [attempt |-> x.attempt, head |-> x.head, result |-> x.result] BY <1>2 DEF Cycle
    <2> HIDE DEF x
    <2>2. \A u, v, w : [[attempt |-> u, head |-> v, result |-> w] EXCEPT !.result = result] =
                       [attempt |-> u, head |-> v, result |-> result]
      OBVIOUS
    <2>3. QED BY <2>1, <2>2 DEF x
  <1>5. m = [l EXCEPT !.cycles = c, !.disposition = d]
    <2>1. m = [l EXCEPT !.cycles = [l.cycles EXCEPT ![n] = [l.cycles[n] EXCEPT !.result = result]],
                        !.disposition = d]
      BY DEF Decided
    <2>2. QED BY <2>1, <1>4
  <1>6. d \in Disposition BY <1>1 DEF Disposition
  <1> HIDE DEF c, e, d
  <1>7. c \in Seq(Cycle) /\ Len(c) = n /\ c[n] = e /\ \A i \in 1..n : i # n => c[i] = l.cycles[i]
    <2>1. c \in [1..n -> Cycle] /\ c[n] = e /\ \A i \in 1..n : i # n => c[i] = l.cycles[i]
      BY <1>1, <1>3 DEF c
    <2>2. QED BY <1>1, <2>1
  <1>8. /\ m.cycles = c /\ m.attempts = l.attempts /\ m.disposition = d /\ m \in Ledger
    BY <1>5, <1>6, <1>7 DEF Ledger
  <1>9. QED BY <1>7, <1>8 DEF e, d, m

-----------------------------------------------------------------------------
(* The invariant of the file, one call at a time: first about its n cycles *)
(* c, its k receipts r and its disposition d, then about ledgers.          *)

Bound(a, p, number) == \E h \in HeadSha : a = BoundId(p, h, number)

Well(n, k, c, r, d) ==
  /\ n <= MaxCycles /\ k <= MaxReceipts
  /\ \A i \in 1..n : c[i].result = Unset => i = n
  /\ \A i, j \in 1..n : c[i].attempt = c[j].attempt => i = j
  /\ \A i, j \in 1..k : r[i].attempt = r[j].attempt => i = j
  /\ \A i \in 1..n, j \in 1..k : c[i].attempt # r[j].attempt
  /\ d = "approved" => n > 0 /\ c[n].result = "approved"
  /\ d = "finalization-budget-exhausted" => n = MaxCycles /\ c[n].result = "changes-requested"
  /\ n = MaxCycles /\ ~(n > 0 /\ c[n].result = Unset) => d # Unset
  /\ n > 0 /\ c[n].result = "approved" /\ d # "approved" => k > 0 /\ r[k].cycle = n + 1
  /\ \A i \in 1..k : i > 1 /\ r[i].cycle = r[i - 1].cycle =>
       Bound(r[i].attempt, r[i - 1].attempt, r[i].cycle)
  /\ n > 0 /\ c[n].result = Unset /\ k > 0 /\ r[k].cycle = n => Bound(c[n].attempt, r[k].attempt, n)

Good(l) == l \in Ledger /\ Well(Len(l.cycles), Len(l.attempts), l.cycles, l.attempts, l.disposition)

\* A further undecided cycle, of an attempt that is new to the file.
LEMMA WellOpened ==
  ASSUME NEW n \in Nat, NEW k \in Nat, NEW c, NEW r, NEW d, NEW c2, NEW a,
         Well(n, k, c, r, d),
         \A i \in 1..n : c2[i] = c[i], c2[n + 1].attempt = a, c2[n + 1].result = Unset,
         n < MaxCycles, ~(n > 0 /\ c[n].result = Unset),
         \A i \in 1..n : c[i].attempt # a, \A j \in 1..k : r[j].attempt # a,
         k > 0 /\ r[k].cycle = n + 1 => Bound(a, r[k].attempt, n + 1)
  PROVE  Well(n + 1, k, c2, r, Unset)
  <1>1. MaxCycles \in Nat BY Zenon, LedgerAssumption
  <1>2. n + 1 <= MaxCycles /\ k <= MaxReceipts BY <1>1 DEF Well
  <1>3. \A i \in 1..(n + 1) : c2[i].result = Unset => i = n + 1
    <2>1. \A i \in 1..n : c[i].result = Unset => i = n BY DEF Well
    <2>2. QED BY <2>1
  <1>4. \A i, j \in 1..(n + 1) : c2[i].attempt = c2[j].attempt => i = j
    <2>1. \A i, j \in 1..n : c[i].attempt = c[j].attempt => i = j BY DEF Well
    <2>2. QED BY <2>1
  <1>5. \A i \in 1..(n + 1), j \in 1..k : c2[i].attempt # r[j].attempt
    <2>1. \A i \in 1..n, j \in 1..k : c[i].attempt # r[j].attempt BY DEF Well
    <2>2. QED BY <2>1
  <1>6. Well(n, k, c, r, d) /\ c2[n + 1].result = Unset /\ c2[n + 1].attempt = a OBVIOUS
  <1>7. QED BY <1>2, <1>3, <1>4, <1>5, <1>6, UnsetIsOther DEF Well

\* The same for the attempt of the latest receipt, which is taken away.
LEMMA WellRecovered ==
  ASSUME NEW n \in Nat, NEW k \in Nat, NEW c, NEW r, NEW d, NEW c2, NEW r2, NEW a,
         Well(n, k, c, r, d),
         \A i \in 1..n : c2[i] = c[i], c2[n + 1].attempt = a, c2[n + 1].result = Unset,
         \A j \in 1..(k - 1) : r2[j] = r[j], k > 0, r[k].attempt = a, r[k].cycle = n + 1,
         n < MaxCycles, ~(n > 0 /\ c[n].result = Unset)
  PROVE  Well(n + 1, k - 1, c2, r2, Unset)
  <1>1. MaxCycles \in Nat /\ MaxReceipts \in Nat BY Zenon, LedgerAssumption
  <1>2. n + 1 <= MaxCycles /\ k - 1 <= MaxReceipts BY <1>1 DEF Well
  <1>3. \A i \in 1..(n + 1) : c2[i].result = Unset => i = n + 1
    <2>1. \A i \in 1..n : c[i].result = Unset => i = n BY DEF Well
    <2>2. QED BY <2>1
  <1>4. /\ \A i, j \in 1..n : c[i].attempt = c[j].attempt => i = j
        /\ \A i, j \in 1..k : r[i].attempt = r[j].attempt => i = j
        /\ \A i \in 1..n, j \in 1..k : c[i].attempt # r[j].attempt
    BY DEF Well
  <1>5. \A i, j \in 1..(n + 1) : c2[i].attempt = c2[j].attempt => i = j BY <1>4
  <1>6. \A i, j \in 1..(k - 1) : r2[i].attempt = r2[j].attempt => i = j BY <1>4
  <1>7. \A i \in 1..(n + 1), j \in 1..(k - 1) : c2[i].attempt # r2[j].attempt BY <1>4
  <1>8. \A i \in 1..k : i > 1 /\ r[i].cycle = r[i - 1].cycle =>
          Bound(r[i].attempt, r[i - 1].attempt, r[i].cycle)
    BY DEF Well
  <1>9. \A i \in 1..(k - 1) : i > 1 /\ r2[i].cycle = r2[i - 1].cycle =>
          Bound(r2[i].attempt, r2[i - 1].attempt, r2[i].cycle)
    BY <1>8
  <1>10. k - 1 > 0 /\ r2[k - 1].cycle = n + 1 => Bound(a, r2[k - 1].attempt, n + 1)
    BY <1>8
  <1>11. QED BY <1>2, <1>3, <1>5, <1>6, <1>7, <1>9, <1>10, UnsetIsOther DEF Well

\* The active cycle becomes a receipt.
LEMMA WellReleased ==
  ASSUME NEW n \in Nat, NEW k \in Nat, NEW c, NEW r, NEW d, NEW c2, NEW r2,
         Well(n, k, c, r, d), n > 0, c[n].result = Unset, k < MaxReceipts,
         \A i \in 1..(n - 1) : c2[i] = c[i], \A j \in 1..k : r2[j] = r[j],
         r2[k + 1].attempt = c[n].attempt, r2[k + 1].cycle = n
  PROVE  Well(n - 1, k + 1, c2, r2, d)
  <1>1. MaxCycles \in Nat /\ MaxReceipts \in Nat BY Zenon, LedgerAssumption
  <1>2. n - 1 < MaxCycles /\ k + 1 <= MaxReceipts BY <1>1 DEF Well
  <1>3. /\ \A i \in 1..n : c[i].result = Unset => i = n
        /\ \A i, j \in 1..n : c[i].attempt = c[j].attempt => i = j
        /\ \A i, j \in 1..k : r[i].attempt = r[j].attempt => i = j
        /\ \A i \in 1..n, j \in 1..k : c[i].attempt # r[j].attempt
    BY DEF Well
  <1>4. /\ \A i \in 1..(n - 1) : c2[i].result # Unset
        /\ \A i, j \in 1..(n - 1) : c2[i].attempt = c2[j].attempt => i = j
    BY <1>3
  <1>5. \A i, j \in 1..(k + 1) : r2[i].attempt = r2[j].attempt => i = j BY <1>3
  <1>6. \A i \in 1..(n - 1), j \in 1..(k + 1) : c2[i].attempt # r2[j].attempt BY <1>3
  <1>7. d # "approved" /\ d # "finalization-budget-exhausted" BY UnsetIsOther DEF Well
  <1>8. /\ \A i \in 1..k : i > 1 /\ r[i].cycle = r[i - 1].cycle =>
             Bound(r[i].attempt, r[i - 1].attempt, r[i].cycle)
        /\ k > 0 /\ r[k].cycle = n => Bound(c[n].attempt, r[k].attempt, n)
    BY DEF Well
  <1>9. \A i \in 1..(k + 1) : i > 1 /\ r2[i].cycle = r2[i - 1].cycle =>
          Bound(r2[i].attempt, r2[i - 1].attempt, r2[i].cycle)
    BY <1>8
  <1>10. QED BY <1>1, <1>2, <1>4, <1>5, <1>6, <1>7, <1>9 DEF Well

\* The active cycle gets its verdict.
LEMMA WellDecided ==
  ASSUME NEW n \in Nat, NEW k \in Nat, NEW c, NEW r, NEW d, NEW c2, NEW result \in Product,
         NEW d2, Well(n, k, c, r, d), n > 0, c[n].result = Unset,
         \A i \in 1..n : i # n => c2[i] = c[i],
         c2[n].attempt = c[n].attempt, c2[n].result = result,
         d2 = IF result = "approved" THEN "approved"
              ELSE IF n = MaxCycles THEN "finalization-budget-exhausted" ELSE d
  PROVE  Well(n, k, c2, r, d2)
  <1>1. /\ \A i \in 1..n : c[i].result = Unset => i = n
        /\ \A i, j \in 1..n : c[i].attempt = c[j].attempt => i = j
        /\ \A i \in 1..n, j \in 1..k : c[i].attempt # r[j].attempt
        /\ d # "approved" /\ d # "finalization-budget-exhausted"
    BY UnsetIsOther DEF Well
  <1>2. \A i \in 1..n : c2[i].result # Unset BY <1>1, UnsetIsOther
  <1>3. \A i \in 1..n : c2[i].attempt = c[i].attempt OBVIOUS
  <1>4. /\ \A i, j \in 1..n : c2[i].attempt = c2[j].attempt => i = j
        /\ \A i \in 1..n, j \in 1..k : c2[i].attempt # r[j].attempt
    BY <1>1, <1>3
  <1>5. /\ d2 = "approved" => result = "approved"
        /\ d2 = "finalization-budget-exhausted" => n = MaxCycles /\ result = "changes-requested"
        /\ n = MaxCycles => d2 # Unset
        /\ result = "approved" => d2 = "approved"
    BY <1>1, UnsetIsOther DEF Product
  <1>6. QED BY <1>2, <1>4, <1>5 DEF Well

-----------------------------------------------------------------------------
(* The same about ledgers.                                                 *)

\* What the conditions of the calls say, index by index.
LEMMA Conditions ==
  ASSUME NEW l \in Ledger
  PROVE  LET n == Len(l.cycles)
             k == Len(l.attempts)
         IN /\ Active(l) <=> n > 0 /\ l.cycles[n].result = Unset
            /\ \A a : InCycles(l, a) <=> \E i \in 1..n : l.cycles[i].attempt = a
            /\ \A a : InReceipts(l, a) <=> \E i \in 1..k : l.attempts[i].attempt = a
            /\ \A a : IsLastReceipt(l, a) <=> k > 0 /\ l.attempts[k].attempt = a
            /\ \A a : a \in Identities(l) <=> InCycles(l, a) \/ InReceipts(l, a)
  <1>1. /\ DOMAIN l.cycles = 1..Len(l.cycles) /\ DOMAIN l.attempts = 1..Len(l.attempts)
        /\ l.cycles # <<>> <=> Len(l.cycles) > 0
        /\ l.attempts # <<>> <=> Len(l.attempts) > 0
    BY LedgerParts
  <1>2. \A a : a \in Identities(l) <=> InCycles(l, a) \/ InReceipts(l, a)
    BY DEF Identities, InCycles, InReceipts
  <1>3. QED BY <1>1, <1>2 DEF Active, LastOf, InCycles, InReceipts, IsLastReceipt

\* A reservation that is admitted keeps the file good and adds its attempt.
LEMMA OpenedGood ==
  ASSUME NEW l, Good(l), NEW q \in Request, Reservable(l, q)
  PROVE  /\ Good(Opened(l, q))
         /\ ~InCycles(l, q.attempt) /\ ~InReceipts(l, q.attempt)
         /\ \A a : a \in Identities(Opened(l, q)) <=> a \in Identities(l) \/ a = q.attempt
  <1> DEFINE m == Opened(l, q)
             n == Len(l.cycles)
             k == Len(l.attempts)
             a == q.attempt
  <1>1. /\ l \in Ledger /\ n \in Nat /\ k \in Nat
        /\ Well(n, k, l.cycles, l.attempts, l.disposition)
    BY LedgerParts DEF Good
  <1>2. /\ m \in Ledger /\ Len(m.cycles) = n + 1 /\ m.attempts = l.attempts
        /\ \A i \in 1..n : m.cycles[i] = l.cycles[i]
        /\ m.cycles[n + 1] = [attempt |-> a, head |-> q.head, result |-> Unset]
        /\ m.disposition = Unset
    BY <1>1, OpenedShape
  <1>3. /\ ~InCycles(l, a) /\ ~InReceipts(l, a) /\ ~Active(l) /\ n < MaxCycles
        /\ BoundRetry(l, q)
        /\ l.attempts # <<>> /\ l.attempts[k].cycle = n + 1 => q.predecessor # NoAttempt
    BY DEF Reservable, NextNumber, LastOf
  <1>4. /\ Active(l) <=> n > 0 /\ l.cycles[n].result = Unset
        /\ InCycles(l, a) <=> \E i \in 1..n : l.cycles[i].attempt = a
        /\ InReceipts(l, a) <=> \E i \in 1..k : l.attempts[i].attempt = a
        /\ IsLastReceipt(l, q.predecessor) <=> k > 0 /\ l.attempts[k].attempt = q.predecessor
    BY <1>1, Conditions
  <1>5. k > 0 /\ l.attempts[k].cycle = n + 1 => Bound(a, l.attempts[k].attempt, n + 1)
    <2> SUFFICES ASSUME k > 0, l.attempts[k].cycle = n + 1
                 PROVE  Bound(a, l.attempts[k].attempt, n + 1)
      OBVIOUS
    <2>1. l.attempts # <<>> BY <1>1, LedgerParts
    <2>2. /\ IsLastReceipt(l, q.predecessor)
          /\ a = BoundId(q.predecessor, q.head, l.attempts[k].cycle)
      BY <1>3, <2>1 DEF BoundRetry, LastOf
    <2>3. q.predecessor = l.attempts[k].attempt BY <1>4, <2>2
    <2>4. q.head \in HeadSha BY DEF Request
    <2>5. QED BY <2>2, <2>3, <2>4 DEF Bound
  <1>6. m.cycles[n + 1].attempt = a /\ m.cycles[n + 1].result = Unset BY <1>2
  <1>7. Well(n + 1, k, m.cycles, l.attempts, Unset)
    <2>1. /\ ~(n > 0 /\ l.cycles[n].result = Unset)
          /\ \A i \in 1..n : l.cycles[i].attempt # a
          /\ \A j \in 1..k : l.attempts[j].attempt # a
      BY <1>3, <1>4
    <2> DEFINE c == l.cycles
               r == l.attempts
               d == l.disposition
               c2 == m.cycles
    <2>2. /\ n \in Nat /\ k \in Nat /\ Well(n, k, c, r, d) /\ n < MaxCycles
          /\ ~(n > 0 /\ c[n].result = Unset)
          /\ \A i \in 1..n : c2[i] = c[i]
          /\ c2[n + 1].attempt = a /\ c2[n + 1].result = Unset
          /\ \A i \in 1..n : c[i].attempt # a
          /\ \A j \in 1..k : r[j].attempt # a
          /\ k > 0 /\ r[k].cycle = n + 1 => Bound(a, r[k].attempt, n + 1)
      BY <1>1, <1>2, <1>3, <1>5, <1>6, <2>1
    <2> HIDE DEF a, m, n, k, c, r, d, c2
    <2>3. Well(n + 1, k, c2, r, Unset) BY <2>2, WellOpened
    <2>4. QED BY <2>3 DEF c2, r
  <1>8. Good(m) BY <1>2, <1>7 DEF Good
  <1>9. \A x : x \in Identities(m) <=> x \in Identities(l) \/ x = a
    <2> TAKE x
    <2>1. /\ x \in Identities(l) <=> \/ \E i \in 1..n : l.cycles[i].attempt = x
                                     \/ \E i \in 1..k : l.attempts[i].attempt = x
          /\ x \in Identities(m) <=> \/ \E i \in 1..(n + 1) : m.cycles[i].attempt = x
                                     \/ \E i \in 1..k : l.attempts[i].attempt = x
      BY SMTT(30), <1>1, <1>2, Conditions
    <2>2. QED BY SMTT(30), <1>1, <1>2, <1>6, <2>1
  <1>10. QED BY <1>3, <1>8, <1>9

\* The interrupted attempt takes its cycle back from the latest receipt.
LEMMA RecoveredGood ==
  ASSUME NEW l, Good(l), NEW q \in Request, Recoverable(l, q)
  PROVE  /\ Good(Recovered(l, q))
         /\ l.attempts # <<>> /\ IsLastReceipt(l, q.attempt) /\ ~Active(l)
         /\ Len(l.cycles) < MaxCycles
         /\ \A a : a \in Identities(Recovered(l, q)) <=> a \in Identities(l)
  <1> DEFINE m == Recovered(l, q)
             n == Len(l.cycles)
             k == Len(l.attempts)
             a == q.attempt
  <1>1. /\ l \in Ledger /\ n \in Nat /\ k \in Nat
        /\ Well(n, k, l.cycles, l.attempts, l.disposition)
    BY LedgerParts DEF Good
  <1>2. /\ IsLastReceipt(l, a) /\ l.attempts # <<>> /\ ~Active(l) /\ l.attempts[k].cycle = n + 1
    BY DEF Recoverable, NextNumber, LastOf, IsLastReceipt
  <1>3. /\ m \in Ledger /\ Len(m.cycles) = n + 1 /\ Len(m.attempts) = k - 1
        /\ \A i \in 1..n : m.cycles[i] = l.cycles[i]
        /\ \A i \in 1..(k - 1) : m.attempts[i] = l.attempts[i]
        /\ m.cycles[n + 1] = [attempt |-> a, head |-> q.head, result |-> Unset]
        /\ m.disposition = Unset
    BY <1>1, <1>2, RecoveredShape
  <1>4. /\ Active(l) <=> n > 0 /\ l.cycles[n].result = Unset
        /\ IsLastReceipt(l, a) <=> k > 0 /\ l.attempts[k].attempt = a
    BY <1>1, Conditions
  <1>5. n < MaxCycles
    <2>1. MaxCycles \in Nat BY Zenon, LedgerAssumption
    <2>2. l.attempts[k] \in Receipt BY <1>1, <1>2, <1>4, LedgerParts
    <2>3. l.attempts[k].cycle \in 1..MaxCycles BY <2>2 DEF Receipt
    <2>4. QED BY <1>1, <1>2, <2>1, <2>3
  <1>6. m.cycles[n + 1].attempt = a /\ m.cycles[n + 1].result = Unset BY <1>3
  <1>7. Well(n + 1, k - 1, m.cycles, m.attempts, Unset)
    <2> DEFINE c == l.cycles
               r == l.attempts
               d == l.disposition
               c2 == m.cycles
               r2 == m.attempts
    <2>1. /\ n \in Nat /\ k \in Nat /\ Well(n, k, c, r, d) /\ n < MaxCycles
          /\ ~(n > 0 /\ c[n].result = Unset)
          /\ \A i \in 1..n : c2[i] = c[i]
          /\ c2[n + 1].attempt = a /\ c2[n + 1].result = Unset
          /\ \A j \in 1..(k - 1) : r2[j] = r[j]
          /\ k > 0 /\ r[k].attempt = a /\ r[k].cycle = n + 1
      BY <1>1, <1>2, <1>3, <1>4, <1>5, <1>6
    <2> HIDE DEF a, m, n, k, c, r, d, c2, r2
    <2>2. Well(n + 1, k - 1, c2, r2, Unset) BY <2>1, WellRecovered
    <2>3. QED BY <2>2 DEF c2, r2
  <1>8. Good(m) BY <1>3, <1>7 DEF Good
  <1>9. \A x : x \in Identities(m) <=> x \in Identities(l)
    <2> TAKE x
    <2>1. /\ x \in Identities(l) <=> \/ \E i \in 1..n : l.cycles[i].attempt = x
                                     \/ \E i \in 1..k : l.attempts[i].attempt = x
          /\ x \in Identities(m) <=> \/ \E i \in 1..(n + 1) : m.cycles[i].attempt = x
                                     \/ \E i \in 1..(k - 1) : m.attempts[i].attempt = x
      BY <1>1, <1>3, Conditions
    <2> DEFINE c == l.cycles
               r == l.attempts
               c2 == m.cycles
               r2 == m.attempts
    <2>2. /\ n \in Nat /\ k \in Nat /\ k > 0 /\ r[k].attempt = a /\ c2[n + 1].attempt = a
          /\ \A i \in 1..n : c2[i].attempt = c[i].attempt
          /\ \A i \in 1..(k - 1) : r2[i].attempt = r[i].attempt
      BY <1>1, <1>2, <1>3, <1>4, <1>6
    <2>3. /\ x \in Identities(l) <=> \/ \E i \in 1..n : c[i].attempt = x
                                     \/ \E i \in 1..k : r[i].attempt = x
          /\ x \in Identities(m) <=> \/ \E i \in 1..(n + 1) : c2[i].attempt = x
                                     \/ \E i \in 1..(k - 1) : r2[i].attempt = x
      BY <2>1
    <2> HIDE DEF a, m, n, k, c, r, c2, r2
    <2>4. ASSUME x \in Identities(m) PROVE x \in Identities(l) BY <2>2, <2>3, <2>4
    <2>5. ASSUME x \in Identities(l) PROVE x \in Identities(m) BY <2>2, <2>3, <2>5
    <2>6. QED BY <2>4, <2>5
  <1>10. QED BY <1>2, <1>5, <1>8, <1>9

\* A mechanism outcome moves its attempt from the cycle to a receipt.
LEMMA ReleasedGood ==
  ASSUME NEW l, Good(l), NEW a \in Attempt, NEW result \in Mechanism, Releasable(l, a)
  PROVE  /\ Good(Released(l, a, result))
         /\ l.cycles # <<>> /\ Len(l.cycles) <= MaxCycles
         /\ ~Active(Released(l, a, result))
         /\ \A x : x \in Identities(Released(l, a, result)) <=> x \in Identities(l)
  <1> DEFINE m == Released(l, a, result)
             n == Len(l.cycles)
             k == Len(l.attempts)
             c == l.cycles
             r == l.attempts
             d == l.disposition
             c2 == m.cycles
             r2 == m.attempts
  <1>1. l \in Ledger /\ n \in Nat /\ k \in Nat /\ Well(n, k, c, r, d)
    BY LedgerParts DEF Good
  <1>2. Active(l) /\ c # <<>> /\ c[n].attempt = a /\ k < MaxReceipts
    BY DEF Releasable, Active, LastOf
  <1>3. n > 0 /\ c[n].result = Unset BY <1>1, <1>2, Conditions
  <1>4. n <= MaxCycles BY <1>1 DEF Well
  <1>5. /\ m \in Ledger /\ Len(c2) = n - 1 /\ Len(r2) = k + 1 /\ m.disposition = d
        /\ \A i \in 1..(n - 1) : c2[i] = c[i]
        /\ \A j \in 1..k : r2[j] = r[j]
        /\ r2[k + 1] = [attempt |-> a, cycle |-> n, classification |-> result]
    BY <1>1, <1>2, <1>4, ReleasedShape
  <1>6. r2[k + 1].attempt = c[n].attempt /\ r2[k + 1].cycle = n BY <1>2, <1>5
  <1>7. /\ \A x : x \in Identities(l) <=> \/ \E i \in 1..n : c[i].attempt = x
                                          \/ \E i \in 1..k : r[i].attempt = x
        /\ \A x : x \in Identities(m) <=> \/ \E i \in 1..(n - 1) : c2[i].attempt = x
                                          \/ \E i \in 1..(k + 1) : r2[i].attempt = x
        /\ Active(m) <=> n - 1 > 0 /\ c2[n - 1].result = Unset
    <2> HIDE DEF m
    <2>0. l \in Ledger BY <1>1
    <2>1. ASSUME NEW x
          PROVE  x \in Identities(l) <=> \/ \E i \in 1..n : c[i].attempt = x
                                         \/ \E i \in 1..k : r[i].attempt = x
      <3>1. /\ x \in Identities(l) <=> InCycles(l, x) \/ InReceipts(l, x)
            /\ InCycles(l, x) <=> \E i \in 1..n : c[i].attempt = x
            /\ InReceipts(l, x) <=> \E i \in 1..k : r[i].attempt = x
        BY <2>0, Conditions
      <3>2. QED BY <3>1
    <2>2. /\ \A x : x \in Identities(m) <=> \/ \E i \in 1..Len(c2) : c2[i].attempt = x
                                          \/ \E i \in 1..Len(r2) : r2[i].attempt = x
          /\ Active(m) <=> Len(c2) > 0 /\ c2[Len(c2)].result = Unset
      BY <1>5, Conditions
    <2>3. Len(c2) = n - 1 /\ Len(r2) = k + 1 BY <1>5
    <2>4. QED BY <2>1, <2>2, <2>3
  <1>8. Good(m)
    <2> HIDE DEF m, n, k, c, r, d, c2, r2
    <2>1. Well(n - 1, k + 1, c2, r2, d) BY <1>1, <1>2, <1>3, <1>5, <1>6, WellReleased
    <2>2. QED BY <1>5, <2>1 DEF Good, c2, r2
  <1>9. ~Active(m)
    <2>1. \A i \in 1..n : c[i].result = Unset => i = n BY <1>1 DEF Well
    <2> HIDE DEF m, n, k, c, r, d, c2, r2
    <2>2. QED BY <1>1, <1>5, <1>7, <2>1
  <1>10. \A x : x \in Identities(m) <=> x \in Identities(l)
    <2> TAKE x
    <2> HIDE DEF m, n, k, c, r, d, c2, r2
    <2>1. ASSUME x \in Identities(m) PROVE x \in Identities(l)
      BY <1>1, <1>3, <1>5, <1>6, <1>7, <2>1
    <2>2. ASSUME x \in Identities(l) PROVE x \in Identities(m)
      BY <1>1, <1>3, <1>5, <1>6, <1>7, <2>2
    <2>3. QED BY <2>1, <2>2
  <1>11. QED BY <1>2, <1>4, <1>8, <1>9, <1>10

\* A product outcome decides the active cycle and moves no attempt.
LEMMA DecidedGood ==
  ASSUME NEW l, Good(l), NEW a \in Attempt, NEW result \in Product, Decidable(l, a)
  PROVE  /\ Good(Decided(l, result))
         /\ l.cycles # <<>> /\ ~Active(Decided(l, result))
         /\ \A x : x \in Identities(Decided(l, result)) <=> x \in Identities(l)
  <1> DEFINE m == Decided(l, result)
             n == Len(l.cycles)
             k == Len(l.attempts)
             c == l.cycles
             r == l.attempts
             d == l.disposition
             c2 == m.cycles
             d2 == m.disposition
  <1>1. l \in Ledger /\ n \in Nat /\ k \in Nat /\ Well(n, k, c, r, d)
    BY LedgerParts DEF Good
  <1>2. Active(l) /\ c # <<>> BY DEF Decidable, Active
  <1>3. n > 0 /\ c[n].result = Unset BY <1>1, <1>2, Conditions
  <1>4. /\ m \in Ledger /\ Len(c2) = n /\ m.attempts = r
        /\ \A i \in 1..n : i # n => c2[i] = c[i]
        /\ c2[n] = [attempt |-> c[n].attempt, head |-> c[n].head, result |-> result]
        /\ d2 = IF result = "approved" THEN "approved"
                ELSE IF n = MaxCycles THEN "finalization-budget-exhausted" ELSE d
    BY <1>1, <1>2, DecidedShape
  <1>5. c2[n].attempt = c[n].attempt /\ c2[n].result = result BY <1>4
  <1>6. /\ \A x : x \in Identities(l) <=> \/ \E i \in 1..n : c[i].attempt = x
                                          \/ \E i \in 1..k : r[i].attempt = x
        /\ \A x : x \in Identities(m) <=> \/ \E i \in 1..n : c2[i].attempt = x
                                          \/ \E i \in 1..k : r[i].attempt = x
        /\ Active(m) <=> n > 0 /\ c2[n].result = Unset
    BY SMTT(30), <1>1, <1>4, Conditions
  <1>7. Good(m)
    <2> HIDE DEF m, n, k, c, r, d, c2, d2
    <2>1. Well(n, k, c2, r, d2) BY <1>1, <1>3, <1>4, <1>5, WellDecided
    <2>2. QED BY <1>4, <2>1 DEF Good, k, r, c2, d2
  <1>8. ~Active(m) BY <1>5, <1>6, UnsetIsOther
  <1>9. \A x : x \in Identities(m) <=> x \in Identities(l)
    <2>1. \A i \in 1..n : c2[i].attempt = c[i].attempt BY <1>4, <1>5
    <2> HIDE DEF m, n, k, c, r, d, c2, d2
    <2>2. QED BY <1>6, <2>1
  <1>10. QED BY <1>2, <1>7, <1>8, <1>9

-----------------------------------------------------------------------------
(* The specification.                                                      *)

IInv == Good(ledger) /\ granted \subseteq Attempt /\ AccountedFor

\* The invariant of the proof is the conjunction of the properties.
LEMMA InvariantParts ==
  IInv <=> /\ LedgerTypeOK /\ Readable /\ AccountedFor /\ SpentHasDisposition
           /\ ApprovalReopenedByAttempt /\ RetriesFormChain
  <1>1. ASSUME ledger \in Ledger
        PROVE  Good(ledger) <=> Readable /\ SpentHasDisposition /\ ApprovalReopenedByAttempt
                                 /\ RetriesFormChain
    <2> DEFINE l == ledger
               n == Len(ledger.cycles)
               k == Len(ledger.attempts)
    <2>1. /\ DOMAIN l.cycles = 1..n /\ DOMAIN l.attempts = 1..k
          /\ (l.cycles # <<>> <=> n > 0) /\ (l.attempts # <<>> <=> k > 0)
          /\ (Active(l) <=> n > 0 /\ l.cycles[n].result = Unset)
      BY <1>1, LedgerParts, Conditions
    <2>2. QED
      BY <1>1, <2>1
      DEF Good, Well, Bound, Readable, Valid, SpentHasDisposition, ApprovalReopenedByAttempt,
          RetriesFormChain, Chained, LastOf, NextNumber
  <1>2. IInv => ledger \in Ledger BY DEF IInv, Good
  <1>3. LedgerTypeOK <=> ledger \in Ledger /\ granted \subseteq Attempt BY DEF LedgerTypeOK
  <1>4. QED BY <1>1, <1>2, <1>3 DEF IInv

\* The empty file is good.
LEMMA InitGood == LedgerInit => IInv
  <1> SUFFICES ASSUME LedgerInit PROVE IInv OBVIOUS
  <1>1. ledger = [cycles |-> <<>>, attempts |-> <<>>, disposition |-> Unset] /\ granted = {}
    BY DEF LedgerInit, Empty
  <1>2. ledger \in Ledger BY <1>1, UnsetIsOther DEF Ledger
  <1>3. MaxCycles \in Nat \ {0} /\ MaxReceipts \in Nat BY Zenon, LedgerAssumption
  <1>4. /\ Len(ledger.cycles) = 0 /\ Len(ledger.attempts) = 0 /\ ledger.disposition = Unset
    BY <1>1
  <1>5. Good(ledger) BY <1>2, <1>3, <1>4, UnsetIsOther DEF Good, Well
  <1>6. AccountedFor BY <1>1 DEF AccountedFor, Identities
  <1>7. QED BY <1>1, <1>5, <1>6 DEF IInv

\* Two sets of attempts with the same members are the same set.
LEMMA SameMembers ==
  ASSUME NEW g, NEW s, \A a : a \in g <=> a \in s
  PROVE  g = s
  BY Zenon

\* A new reservation.
LEMMA ReserveStep ==
  ASSUME IInv, NEW q \in Request, Reserve(q)
  PROVE  /\ IInv' /\ Active(ledger') /\ ~Active(ledger) /\ q.attempt \notin granted
         /\ Len(ledger.cycles) < MaxCycles
  <1> PICK l, m : l = ledger /\ m = ledger' OBVIOUS
  <1>1. Good(l) /\ granted = Identities(l) /\ granted \subseteq Attempt BY DEF IInv, AccountedFor
  <1>2. Reservable(l, q) /\ m = Opened(l, q) /\ granted' = granted \cup {q.attempt}
    BY DEF Reserve
  <1>3. /\ Good(m) /\ ~InCycles(l, q.attempt) /\ ~InReceipts(l, q.attempt)
        /\ \A a : a \in Identities(m) <=> a \in Identities(l) \/ a = q.attempt
    BY <1>1, <1>2, OpenedGood
  <1>4. granted' = Identities(m)
    <2>1. \A a : a \in granted' <=> a \in Identities(m) BY <1>1, <1>2, <1>3
    <2>2. QED BY <2>1, SameMembers
  <1>5. granted' \subseteq Attempt BY <1>1, <1>2 DEF Request
  <1>6. q.attempt \notin granted
    <2>1. l \in Ledger BY <1>1 DEF Good
    <2>2. QED BY <1>1, <1>3, <2>1, Conditions
  <1>7. Active(m)
    <2>1. l \in Ledger /\ m \in Ledger BY <1>1, <1>3 DEF Good
    <2>2. /\ Len(m.cycles) = Len(l.cycles) + 1 /\ Len(l.cycles) \in Nat
          /\ m.cycles[Len(l.cycles) + 1] = [attempt |-> q.attempt, head |-> q.head, result |-> Unset]
      BY <1>2, <2>1, OpenedShape, LedgerParts
    <2>3. QED BY <2>1, <2>2, Conditions
  <1>8. ~Active(l) /\ Len(l.cycles) < MaxCycles BY <1>2 DEF Reservable
  <1>9. QED BY <1>3, <1>4, <1>5, <1>6, <1>7, <1>8 DEF IInv, AccountedFor

\* A recovery.
LEMMA RecoverStep ==
  ASSUME IInv, NEW q \in Request, RecoverAttention(q)
  PROVE  /\ IInv' /\ Active(ledger') /\ ~Active(ledger)
         /\ IsLastReceipt(ledger, q.attempt) /\ ledger'.attempts = ButLast(ledger.attempts)
         /\ Len(ledger.cycles) < MaxCycles
  <1> PICK l, m : l = ledger /\ m = ledger' OBVIOUS
  <1>1. Good(l) /\ granted = Identities(l) /\ granted \subseteq Attempt BY DEF IInv, AccountedFor
  <1>2. Recoverable(l, q) /\ m = Recovered(l, q) /\ granted' = granted BY DEF RecoverAttention
  <1>3. /\ Good(m) /\ l.attempts # <<>> /\ IsLastReceipt(l, q.attempt) /\ ~Active(l)
        /\ Len(l.cycles) < MaxCycles
        /\ \A a : a \in Identities(m) <=> a \in Identities(l)
    BY <1>1, <1>2, RecoveredGood
  <1>4. granted' = Identities(m)
    <2>1. \A a : a \in granted' <=> a \in Identities(m) BY <1>1, <1>2, <1>3
    <2>2. QED BY <2>1, SameMembers
  <1>5. l \in Ledger /\ m \in Ledger BY <1>1, <1>3 DEF Good
  <1>6. /\ Len(m.cycles) = Len(l.cycles) + 1 /\ Len(l.cycles) \in Nat
        /\ m.cycles[Len(l.cycles) + 1] = [attempt |-> q.attempt, head |-> q.head, result |-> Unset]
        /\ m.attempts = ButLast(l.attempts)
    BY <1>2, <1>3, <1>5, RecoveredShape, LedgerParts
  <1>7. Active(m) BY <1>5, <1>6, Conditions
  <1>8. QED BY <1>1, <1>2, <1>3, <1>4, <1>6, <1>7 DEF IInv, AccountedFor

\* A mechanism outcome.
LEMMA MechanismStep ==
  ASSUME IInv, NEW a \in Attempt, NEW result \in Mechanism, RecordMechanism(a, result)
  PROVE  IInv' /\ ~Active(ledger') /\ Active(ledger)
  <1> PICK l, m : l = ledger /\ m = ledger' OBVIOUS
  <1>1. Good(l) /\ granted = Identities(l) /\ granted \subseteq Attempt BY DEF IInv, AccountedFor
  <1>2. Releasable(l, a) /\ m = Released(l, a, result) /\ granted' = granted
    BY DEF RecordMechanism
  <1>3. Good(m) /\ ~Active(m) /\ \A x : x \in Identities(m) <=> x \in Identities(l)
    BY <1>1, <1>2, ReleasedGood
  <1>4. granted' = Identities(m)
    <2>1. \A x : x \in granted' <=> x \in Identities(m) BY <1>1, <1>2, <1>3
    <2>2. QED BY <2>1, SameMembers
  <1>5. Active(l) BY <1>2 DEF Releasable
  <1>6. QED BY <1>1, <1>2, <1>3, <1>4, <1>5 DEF IInv, AccountedFor

\* A verdict.
LEMMA ProductStep ==
  ASSUME IInv, NEW a \in Attempt, NEW result \in Product, RecordProduct(a, result)
  PROVE  IInv' /\ ~Active(ledger') /\ Active(ledger)
  <1> PICK l, m : l = ledger /\ m = ledger' OBVIOUS
  <1>1. Good(l) /\ granted = Identities(l) /\ granted \subseteq Attempt BY DEF IInv, AccountedFor
  <1>2. Decidable(l, a) /\ m = Decided(l, result) /\ granted' = granted BY DEF RecordProduct
  <1>3. Good(m) /\ ~Active(m) /\ \A x : x \in Identities(m) <=> x \in Identities(l)
    BY <1>1, <1>2, DecidedGood
  <1>4. granted' = Identities(m)
    <2>1. \A x : x \in granted' <=> x \in Identities(m) BY <1>1, <1>2, <1>3
    <2>2. QED BY <2>1, SameMembers
  <1>5. Active(l) BY <1>2 DEF Decidable
  <1>6. QED BY <1>1, <1>2, <1>3, <1>4, <1>5 DEF IInv, AccountedFor

\* A call for any request: what the file is exposed to whoever the callers are.
AnyCall ==
  \/ \E q \in Request : Reserve(q) \/ RecoverAttention(q)
  \/ \E a \in Attempt, result \in Mechanism : RecordMechanism(a, result)
  \/ \E a \in Attempt, result \in Product : RecordProduct(a, result)

\* A ledger that is only ever called.
AnyCalls == LedgerInit /\ [][AnyCall]_ledgerVars

\* The requests of the specification are among them.
LEMMA CallsAreAny == LedgerNext => AnyCall
  <1>1. \A q \in Requests : q \in Request BY Zenon, LedgerAssumption
  <1>2. QED BY <1>1 DEF LedgerNext, AnyCall

\* The specification is that of a ledger that is only called.
LEMMA OnlyCalled == LedgerSpec => AnyCalls
  BY CallsAreAny, PTL DEF LedgerSpec, AnyCalls

\* Every step is one of the four, or changes nothing.
LEMMA StepKeeps == IInv /\ [AnyCall]_ledgerVars => IInv'
  <1> SUFFICES ASSUME IInv, [AnyCall]_ledgerVars PROVE IInv' OBVIOUS
  <1>1. CASE \E q \in Request : Reserve(q) \/ RecoverAttention(q)
    BY <1>1, ReserveStep, RecoverStep
  <1>2. CASE \E a \in Attempt, result \in Mechanism : RecordMechanism(a, result)
    BY <1>2, MechanismStep
  <1>3. CASE \E a \in Attempt, result \in Product : RecordProduct(a, result)
    BY <1>3, ProductStep
  <1>4. CASE UNCHANGED ledgerVars
    BY <1>4 DEF ledgerVars, IInv, Good, Well, AccountedFor, Identities
  <1>5. QED BY <1>1, <1>2, <1>3, <1>4 DEF AnyCall

\* The invariant holds whatever is asked, and of the specification.
LEMMA CallsInvariance == AnyCalls => []IInv
  BY InitGood, StepKeeps, PTL DEF AnyCalls

\* The invariant, and with it the safety properties of the ledger.
THEOREM Invariance == LedgerSpec => []IInv
  BY CallsInvariance, OnlyCalled

\* Every state of the file has the stated type.
THEOREM TypeCorrect == LedgerSpec => []LedgerTypeOK
  <1>1. IInv => LedgerTypeOK BY InvariantParts
  <1>2. QED BY <1>1, Invariance, PTL

\* The file is one that _validate accepts, in every state.
THEOREM AlwaysReadable == LedgerSpec => []Readable
  <1>1. IInv => Readable BY InvariantParts
  <1>2. QED BY <1>1, Invariance, PTL

\* No authorized attempt is ever lost from the file, and no other is in it.
THEOREM AlwaysAccountedFor == LedgerSpec => []AccountedFor
  <1>1. IInv => AccountedFor BY InvariantParts
  <1>2. QED BY <1>1, Invariance, PTL

\* A spent budget always carries a disposition.
THEOREM SpentSays == LedgerSpec => []SpentHasDisposition
  <1>1. IInv => SpentHasDisposition BY InvariantParts
  <1>2. QED BY <1>1, Invariance, PTL

\* Only an admitted attempt ends the standing of an approval.
THEOREM ApprovalStands == LedgerSpec => []ApprovalReopenedByAttempt
  <1>1. IInv => ApprovalReopenedByAttempt BY InvariantParts
  <1>2. QED BY <1>1, Invariance, PTL

\* The attempts of one cycle are always a chain of bound identities.
THEOREM RetriesChain == LedgerSpec => []RetriesFormChain
  <1>1. IInv => RetriesFormChain BY InvariantParts
  <1>2. QED BY <1>1, Invariance, PTL

-----------------------------------------------------------------------------
(* The file before and after one call, index by index.                     *)

\* What either kind of reservation does to the cycles.
LEMMA Longer ==
  ASSUME IInv, NEW q \in Request, Reserve(q) \/ RecoverAttention(q)
  PROVE  /\ ledger \in Ledger /\ ledger' \in Ledger
         /\ Len(ledger'.cycles) = Len(ledger.cycles) + 1
         /\ \A i \in 1..Len(ledger.cycles) : ledger'.cycles[i] = ledger.cycles[i]
         /\ ledger'.cycles[Len(ledger.cycles) + 1] =
              [attempt |-> q.attempt, head |-> q.head, result |-> Unset]
         /\ LastOf(ledger'.cycles).attempt = q.attempt
  <1> PICK l, m : l = ledger /\ m = ledger' OBVIOUS
  <1>1. l \in Ledger BY DEF IInv, Good
  <1>2. m = Opened(l, q) \/ (Recoverable(l, q) /\ m = Recovered(l, q))
    <2>1. CASE Reserve(q) BY <2>1 DEF Reserve
    <2>2. CASE RecoverAttention(q) BY <2>2 DEF RecoverAttention
    <2>3. QED BY <2>1, <2>2
  <1>3. /\ m \in Ledger /\ Len(m.cycles) = Len(l.cycles) + 1
        /\ \A i \in 1..Len(l.cycles) : m.cycles[i] = l.cycles[i]
        /\ m.cycles[Len(l.cycles) + 1] = [attempt |-> q.attempt, head |-> q.head, result |-> Unset]
    <2>1. CASE m = Opened(l, q) BY <1>1, <2>1, OpenedShape
    <2>2. CASE Recoverable(l, q) /\ m = Recovered(l, q)
      <3>1. l.attempts # <<>> BY <2>2 DEF Recoverable, IsLastReceipt
      <3>2. QED BY <1>1, <2>2, <3>1, RecoveredShape
    <2>3. QED BY <1>2, <2>1, <2>2
  <1>4. LastOf(m.cycles).attempt = q.attempt BY <1>3 DEF LastOf
  <1>5. QED BY <1>1, <1>3, <1>4

\* What a mechanism outcome does to them.
LEMMA Shorter ==
  ASSUME IInv, NEW a \in Attempt, NEW result \in Mechanism, RecordMechanism(a, result)
  PROVE  /\ ledger \in Ledger /\ ledger' \in Ledger
         /\ Len(ledger.cycles) \in Nat \ {0}
         /\ Len(ledger'.cycles) = Len(ledger.cycles) - 1
         /\ \A i \in 1..(Len(ledger.cycles) - 1) : ledger'.cycles[i] = ledger.cycles[i]
         /\ ledger.cycles[Len(ledger.cycles)].result = Unset
  <1> PICK l, m : l = ledger /\ m = ledger' OBVIOUS
  <1>1. l \in Ledger BY DEF IInv, Good
  <1>2. Releasable(l, a) /\ m = Released(l, a, result) BY DEF RecordMechanism
  <1>3. Active(l) /\ l.cycles # <<>> BY <1>2 DEF Releasable, Active
  <1>4. Len(l.cycles) \in Nat \ {0} /\ l.cycles[Len(l.cycles)].result = Unset
    BY <1>1, <1>3, Conditions, LedgerParts
  <1>5. m \in Ledger BY MechanismStep DEF IInv, Good
  <1>6. /\ Len(m.cycles) = Len(l.cycles) - 1
        /\ \A i \in 1..(Len(l.cycles) - 1) : m.cycles[i] = l.cycles[i]
    <2>1. m.cycles = ButLast(l.cycles) BY <1>1, <1>2 DEF Released, Ledger
    <2>2. l.cycles \in Seq(Cycle) BY <1>1, LedgerParts
    <2>3. QED BY <1>3, <2>1, <2>2, ButLastShape
  <1>7. QED BY <1>1, <1>4, <1>5, <1>6

\* What a verdict does to them.
LEMMA SameLength ==
  ASSUME IInv, NEW a \in Attempt, NEW result \in Product, RecordProduct(a, result)
  PROVE  /\ ledger \in Ledger /\ ledger' \in Ledger
         /\ Len(ledger.cycles) \in Nat \ {0}
         /\ Len(ledger'.cycles) = Len(ledger.cycles)
         /\ \A i \in 1..(Len(ledger.cycles) - 1) : ledger'.cycles[i] = ledger.cycles[i]
         /\ ledger.cycles[Len(ledger.cycles)].result = Unset
         /\ ledger'.cycles[Len(ledger.cycles)].attempt = LastOf(ledger.cycles).attempt
         /\ ledger'.cycles[Len(ledger.cycles)].result = result
  <1> PICK l, m : l = ledger /\ m = ledger' OBVIOUS
  <1>1. l \in Ledger BY DEF IInv, Good
  <1>2. Decidable(l, a) /\ m = Decided(l, result) BY DEF RecordProduct
  <1>3. Active(l) /\ l.cycles # <<>> BY <1>2 DEF Decidable, Active
  <1>4. Len(l.cycles) \in Nat \ {0} /\ l.cycles[Len(l.cycles)].result = Unset
    BY <1>1, <1>3, Conditions, LedgerParts
  <1> DEFINE n == Len(l.cycles)
  <1>5. /\ m \in Ledger /\ Len(m.cycles) = n
        /\ \A i \in 1..n : i # n => m.cycles[i] = l.cycles[i]
        /\ m.cycles[n] = [attempt |-> l.cycles[n].attempt, head |-> l.cycles[n].head,
                          result |-> result]
    BY <1>1, <1>2, <1>3, DecidedShape
  <1>6. m.cycles[n].attempt = LastOf(l.cycles).attempt /\ m.cycles[n].result = result
    BY <1>5 DEF LastOf
  <1>7. QED BY <1>1, <1>4, <1>5, <1>6

AuthorizedStep ==
  Len(ledger'.cycles) > Len(ledger.cycles) /\ LastOf(ledger'.cycles).attempt \in granted =>
    /\ IsLastReceipt(ledger, LastOf(ledger'.cycles).attempt)
    /\ ledger'.attempts = ButLast(ledger.attempts)

VerdictsStep ==
  \A i \in DOMAIN ledger.cycles : ledger.cycles[i].result # Unset =>
    i \in DOMAIN ledger'.cycles /\ ledger'.cycles[i] = ledger.cycles[i]

\* Every call keeps to both.
LEMMA StepsKeepTo ==
  IInv /\ [AnyCall]_ledgerVars => [AuthorizedStep /\ VerdictsStep]_ledgerVars
  <1> SUFFICES ASSUME IInv, AnyCall PROVE AuthorizedStep /\ VerdictsStep OBVIOUS
  <1>2. ASSUME NEW q \in Request, Reserve(q) \/ RecoverAttention(q)
        PROVE  AuthorizedStep /\ VerdictsStep
    <2>1. /\ ledger \in Ledger /\ ledger' \in Ledger
          /\ Len(ledger'.cycles) = Len(ledger.cycles) + 1
          /\ \A i \in 1..Len(ledger.cycles) : ledger'.cycles[i] = ledger.cycles[i]
          /\ LastOf(ledger'.cycles).attempt = q.attempt
      BY <1>2, Longer
    <2>2. q.attempt \in granted => /\ IsLastReceipt(ledger, q.attempt)
                                   /\ ledger'.attempts = ButLast(ledger.attempts)
      BY <1>2, ReserveStep, RecoverStep
    <2>3. AuthorizedStep BY <2>1, <2>2 DEF AuthorizedStep
    <2>4. /\ DOMAIN ledger.cycles = 1..Len(ledger.cycles) /\ Len(ledger.cycles) \in Nat
          /\ DOMAIN ledger'.cycles = 1..Len(ledger'.cycles)
      BY <2>1, LedgerParts
    <2>5. VerdictsStep BY <2>1, <2>4 DEF VerdictsStep
    <2>6. QED BY <2>3, <2>5
  <1>3. ASSUME NEW a \in Attempt, NEW result \in Mechanism, RecordMechanism(a, result)
        PROVE  AuthorizedStep /\ VerdictsStep
    <2>1. /\ ledger \in Ledger /\ ledger' \in Ledger
          /\ Len(ledger.cycles) \in Nat \ {0}
          /\ Len(ledger'.cycles) = Len(ledger.cycles) - 1
          /\ \A i \in 1..(Len(ledger.cycles) - 1) : ledger'.cycles[i] = ledger.cycles[i]
          /\ ledger.cycles[Len(ledger.cycles)].result = Unset
      BY <1>3, Shorter
    <2>2. AuthorizedStep BY <2>1 DEF AuthorizedStep
    <2>3. /\ DOMAIN ledger.cycles = 1..Len(ledger.cycles)
          /\ DOMAIN ledger'.cycles = 1..Len(ledger'.cycles)
      BY <2>1, LedgerParts
    <2>4. VerdictsStep BY <2>1, <2>3 DEF VerdictsStep
    <2>5. QED BY <2>2, <2>4
  <1>4. ASSUME NEW a \in Attempt, NEW result \in Product, RecordProduct(a, result)
        PROVE  AuthorizedStep /\ VerdictsStep
    <2>1. /\ ledger \in Ledger /\ ledger' \in Ledger
          /\ Len(ledger.cycles) \in Nat \ {0}
          /\ Len(ledger'.cycles) = Len(ledger.cycles)
          /\ \A i \in 1..(Len(ledger.cycles) - 1) : ledger'.cycles[i] = ledger.cycles[i]
          /\ ledger.cycles[Len(ledger.cycles)].result = Unset
      BY <1>4, SameLength
    <2>2. AuthorizedStep BY <2>1 DEF AuthorizedStep
    <2>3. /\ DOMAIN ledger.cycles = 1..Len(ledger.cycles)
          /\ DOMAIN ledger'.cycles = 1..Len(ledger'.cycles)
      BY <2>1, LedgerParts
    <2>4. VerdictsStep BY <2>1, <2>3 DEF VerdictsStep
    <2>5. QED BY <2>2, <2>4
  <1>5. QED BY <1>2, <1>3, <1>4 DEF AnyCall

\* A ledger that is only called keeps to both for ever.
LEMMA CallsKeepTo == AnyCalls => AuthorizedOnce /\ VerdictsStand
  <1>1. /\ IInv /\ [AnyCall]_ledgerVars => [AuthorizedStep]_ledgerVars
        /\ IInv /\ [AnyCall]_ledgerVars => [VerdictsStep]_ledgerVars
    BY StepsKeepTo
  <1>2. AnyCalls => [][AuthorizedStep]_ledgerVars
    BY <1>1, CallsInvariance, PTL DEF AnyCalls
  <1>3. AnyCalls => [][VerdictsStep]_ledgerVars
    BY <1>1, CallsInvariance, PTL DEF AnyCalls
  <1>4. QED BY <1>2, <1>3 DEF AuthorizedOnce, AuthorizedStep, VerdictsStand, VerdictsStep

\* No attempt is authorized a second time: it can only take its own receipt back.
THEOREM AttemptsAuthorizedOnce == LedgerSpec => AuthorizedOnce
  BY CallsKeepTo, OnlyCalled

\* A verdict once decided stands for ever.
THEOREM VerdictsAreFinal == LedgerSpec => VerdictsStand
  BY CallsKeepTo, OnlyCalled

-----------------------------------------------------------------------------
(* The ledger implements the abstract budget.                              *)

\* The verdicts of a ledger and who holds its cycle, index by index.
LEMMA VerdictsAre ==
  ASSUME NEW l \in Ledger
  PROVE  LET v == IF Active(l) THEN Len(l.cycles) - 1 ELSE Len(l.cycles)
         IN /\ v \in Nat
            /\ Verdicts(l) = [i \in 1..v |-> [attempt |-> l.cycles[i].attempt,
                                              result |-> l.cycles[i].result]]
            /\ Len(Verdicts(l)) = v
            /\ Active(l) => /\ Holder(l) = l.cycles[Len(l.cycles)].attempt
                            /\ Holder(l) \in Attempt /\ Holder(l) # NoAttempt
            /\ ~Active(l) => Holder(l) = NoAttempt
  <1> DEFINE n == Len(l.cycles)
             v == IF Active(l) THEN n - 1 ELSE n
             s == Standing(l)
  <1>1. /\ l.cycles \in Seq(Cycle) /\ n \in Nat /\ DOMAIN l.cycles = 1..n
        /\ \A i \in 1..n : l.cycles[i] \in Cycle
    BY LedgerParts
  <1>2. Active(l) => n > 0 /\ l.cycles # <<>> BY Conditions, LedgerParts
  <1>3. v \in Nat BY <1>1, <1>2
  <1>4. DOMAIN s = 1..v /\ \A i \in 1..v : s[i] = l.cycles[i]
    <2>1. CASE Active(l) BY <1>1, <1>2, <2>1, ButLastShape DEF Standing
    <2>2. CASE ~Active(l) BY <1>1, <2>2 DEF Standing
    <2>3. QED BY <2>1, <2>2
  <1>5. Verdicts(l) = [i \in 1..v |-> [attempt |-> s[i].attempt, result |-> s[i].result]]
    BY <1>4 DEF Verdicts
  <1> HIDE DEF s, v
  <1>6. Verdicts(l) = [i \in 1..v |-> [attempt |-> l.cycles[i].attempt,
                                       result |-> l.cycles[i].result]]
    BY <1>4, <1>5
  <1>7. Len(Verdicts(l)) = v BY <1>3, <1>6
  <1>8. Active(l) => /\ Holder(l) = l.cycles[n].attempt
                    /\ Holder(l) \in Attempt /\ Holder(l) # NoAttempt
    <2> SUFFICES ASSUME Active(l)
                 PROVE  /\ Holder(l) = l.cycles[n].attempt
                        /\ Holder(l) \in Attempt /\ Holder(l) # NoAttempt
      OBVIOUS
    <2>1. Holder(l) = l.cycles[n].attempt BY DEF Holder, LastOf
    <2>2. l.cycles[n] \in Cycle BY <1>1, <1>2
    <2>3. l.cycles[n].attempt \in Attempt BY <2>2 DEF Cycle
    <2>4. NoAttempt \notin Attempt BY Zenon, LedgerAssumption
    <2>5. QED BY <2>1, <2>3, <2>4
  <1>9. ~Active(l) => Holder(l) = NoAttempt BY DEF Holder
  <1>10. QED BY <1>3, <1>6, <1>7, <1>8, <1>9 DEF v

\* A reservation, new or recovered, changes who holds the cycle and no verdict.
LEMMA HolderComes ==
  ASSUME IInv, NEW q \in Request, Reserve(q) \/ RecoverAttention(q)
  PROVE  /\ Verdicts(ledger') = Verdicts(ledger) /\ Len(Verdicts(ledger)) < MaxCycles
         /\ Holder(ledger) = NoAttempt /\ Holder(ledger') = q.attempt
  <1> PICK l, m : l = ledger /\ m = ledger' OBVIOUS
  <1>1. /\ l \in Ledger /\ m \in Ledger /\ Len(m.cycles) = Len(l.cycles) + 1
        /\ \A i \in 1..Len(l.cycles) : m.cycles[i] = l.cycles[i]
        /\ m.cycles[Len(l.cycles) + 1] = [attempt |-> q.attempt, head |-> q.head, result |-> Unset]
    BY Longer
  <1>2. ~Active(l) /\ Active(m) /\ Len(l.cycles) < MaxCycles BY ReserveStep, RecoverStep
  <1> DEFINE n == Len(l.cycles)
  <1>3. n \in Nat /\ Len(m.cycles) - 1 = n BY <1>1, LedgerParts
  <1>4. /\ Verdicts(l) = [i \in 1..n |-> [attempt |-> l.cycles[i].attempt,
                                          result |-> l.cycles[i].result]]
        /\ Len(Verdicts(l)) = n /\ Holder(l) = NoAttempt
    BY <1>1, <1>2, VerdictsAre
  <1>5. /\ Verdicts(m) = [i \in 1..n |-> [attempt |-> m.cycles[i].attempt,
                                          result |-> m.cycles[i].result]]
        /\ Holder(m) = m.cycles[n + 1].attempt
    BY <1>1, <1>2, <1>3, VerdictsAre
  <1>6. Verdicts(m) = Verdicts(l) BY <1>1, <1>4, <1>5
  <1>7. Holder(m) = q.attempt BY <1>1, <1>5
  <1>8. QED BY <1>2, <1>4, <1>6, <1>7

\* A mechanism outcome lets go of the cycle and changes no verdict.
LEMMA HolderGoes ==
  ASSUME IInv, NEW a \in Attempt, NEW result \in Mechanism, RecordMechanism(a, result)
  PROVE  /\ Verdicts(ledger') = Verdicts(ledger)
         /\ Holder(ledger) # NoAttempt /\ Holder(ledger') = NoAttempt
  <1> PICK l, m : l = ledger /\ m = ledger' OBVIOUS
  <1> DEFINE n == Len(l.cycles) - 1
  <1>1. /\ l \in Ledger /\ m \in Ledger /\ Len(m.cycles) = n
        /\ \A i \in 1..n : m.cycles[i] = l.cycles[i]
    BY Shorter
  <1>2. Active(l) /\ ~Active(m) BY MechanismStep
  <1>3. /\ Verdicts(l) = [i \in 1..n |-> [attempt |-> l.cycles[i].attempt,
                                          result |-> l.cycles[i].result]]
        /\ Holder(l) # NoAttempt
    BY <1>1, <1>2, VerdictsAre
  <1>4. /\ Verdicts(m) = [i \in 1..n |-> [attempt |-> m.cycles[i].attempt,
                                          result |-> m.cycles[i].result]]
        /\ Holder(m) = NoAttempt
    BY <1>1, <1>2, VerdictsAre
  <1>5. Verdicts(m) = Verdicts(l) BY <1>1, <1>3, <1>4
  <1>6. QED BY <1>3, <1>4, <1>5

\* A verdict is appended, as the holder's.
LEMMA HolderDecides ==
  ASSUME IInv, NEW a \in Attempt, NEW result \in Product, RecordProduct(a, result)
  PROVE  /\ Verdicts(ledger') = Append(Verdicts(ledger),
                                       [attempt |-> Holder(ledger), result |-> result])
         /\ Holder(ledger) # NoAttempt /\ Holder(ledger') = NoAttempt
  <1> PICK l, m : l = ledger /\ m = ledger' OBVIOUS
  <1> DEFINE n == Len(l.cycles)
             e == [attempt |-> Holder(l), result |-> result]
             V == [i \in 1..(n - 1) |-> [attempt |-> l.cycles[i].attempt,
                                         result |-> l.cycles[i].result]]
             W == [i \in 1..n |-> [attempt |-> m.cycles[i].attempt,
                                   result |-> m.cycles[i].result]]
  <1>1. /\ l \in Ledger /\ m \in Ledger /\ n \in Nat \ {0} /\ Len(m.cycles) = n
        /\ \A i \in 1..(n - 1) : m.cycles[i] = l.cycles[i]
        /\ m.cycles[n].attempt = LastOf(l.cycles).attempt /\ m.cycles[n].result = result
    BY SameLength
  <1>2. Active(l) /\ ~Active(m) BY ProductStep
  <1>3. /\ Verdicts(l) = V /\ Holder(l) # NoAttempt /\ Holder(l) = l.cycles[n].attempt
    BY <1>1, <1>2, VerdictsAre
  <1>4. /\ Verdicts(m) = W /\ Holder(m) = NoAttempt
    BY <1>1, <1>2, VerdictsAre
  <1>5. W[n] = e BY <1>1, <1>3 DEF LastOf
  <1>6. \A i \in 1..(n - 1) : W[i] = V[i] BY <1>1
  <1>7. W = Append(V, e)
    <2> DEFINE S == {V[i] : i \in 1..(n - 1)} \cup {e}
               A == Append(V, e)
    <2>1. V = [i \in 1..(n - 1) |-> V[i]] /\ W = [i \in 1..n |-> W[i]] OBVIOUS
    <2> HIDE DEF V, W, e
    <2>2. V \in Seq(S) /\ Len(V) = n - 1 /\ e \in S BY <1>1, <2>1
    <2> HIDE DEF S
    <2>3. /\ A \in Seq(S) /\ \A i \in 1..(n - 1) : A[i] = V[i]
          /\ A[n] = e /\ Len(A) = n
      BY <1>1, <2>2, AppendShape
    <2> HIDE DEF A
    <2>4. A = [i \in 1..n |-> A[i]] BY <1>1, <2>3
    <2>5. \A i \in 1..n : W[i] = A[i] BY <1>1, <1>5, <1>6, <2>3
    <2>6. W = A BY <2>1, <2>4, <2>5
    <2>7. QED BY <2>6 DEF A
  <1>8. QED BY <1>3, <1>4, <1>7

\* A ledger that is only called is such a budget.
LEMMA CallsBudget == AnyCalls => ImplementsBudget
  <1>1. LedgerInit => Budget!Init
    <2> SUFFICES ASSUME LedgerInit PROVE Budget!Init OBVIOUS
    <2>1. /\ ledger = [cycles |-> <<>>, attempts |-> <<>>, disposition |-> Unset]
          /\ granted = {} /\ ledger \in Ledger
      BY InitGood DEF LedgerInit, Empty, IInv, Good
    <2>2. ~Active(ledger) /\ Len(ledger.cycles) = 0 BY <2>1 DEF Active
    <2>3. Verdicts(ledger) = <<>> /\ Holder(ledger) = NoAttempt BY <2>1, <2>2, VerdictsAre
    <2>4. QED BY <2>1, <2>3 DEF Budget!Init
  <1>2. IInv /\ [AnyCall]_ledgerVars => [Budget!Next]_(Budget!vars)
    <2> SUFFICES ASSUME IInv, [AnyCall]_ledgerVars PROVE [Budget!Next]_(Budget!vars)
      OBVIOUS
    <2>1. \A q \in Request : q.attempt \in Attempt BY DEF Request
    <2>2. CASE \E q \in Request : Reserve(q)
      <3> PICK q \in Request : Reserve(q) BY <2>2
      <3>1. /\ Verdicts(ledger') = Verdicts(ledger) /\ Len(Verdicts(ledger)) < MaxCycles
            /\ Holder(ledger) = NoAttempt /\ Holder(ledger') = q.attempt
        BY <2>1, HolderComes
      <3>2. q.attempt \notin granted /\ granted' = granted \cup {q.attempt}
        BY <2>1, ReserveStep DEF Reserve
      <3>3. Budget!Authorize(q.attempt) BY <3>1, <3>2 DEF Budget!Authorize
      <3>4. QED BY <2>1, <3>3 DEF Budget!Next
    <2>3. CASE \E q \in Request : RecoverAttention(q)
      <3> PICK q \in Request : RecoverAttention(q) BY <2>3
      <3>1. /\ Verdicts(ledger') = Verdicts(ledger) /\ Len(Verdicts(ledger)) < MaxCycles
            /\ Holder(ledger) = NoAttempt /\ Holder(ledger') = q.attempt
        BY <2>1, HolderComes
      <3>2. /\ granted' = granted /\ ~InCycles(ledger, q.attempt) /\ ~Active(ledger)
            /\ IsLastReceipt(ledger, q.attempt)
        BY DEF RecoverAttention, Recoverable
      <3>3. ledger \in Ledger /\ granted = Identities(ledger)
        BY DEF IInv, Good, AccountedFor
      <3>4. q.attempt \in granted
        BY <3>2, <3>3, LedgerParts DEF Identities, IsLastReceipt, LastOf
      <3>5. \A i \in DOMAIN Verdicts(ledger) : Verdicts(ledger)[i].attempt # q.attempt
        BY <3>2, <3>3, VerdictsAre, LedgerParts DEF InCycles
      <3>6. Budget!Resume(q.attempt) BY <3>1, <3>2, <3>4, <3>5 DEF Budget!Resume
      <3>7. QED BY <2>1, <3>6 DEF Budget!Next
    <2>4. CASE \E a \in Attempt, result \in Mechanism : RecordMechanism(a, result)
      <3> PICK a \in Attempt, result \in Mechanism : RecordMechanism(a, result) BY <2>4
      <3>1. /\ Verdicts(ledger') = Verdicts(ledger)
            /\ Holder(ledger) # NoAttempt /\ Holder(ledger') = NoAttempt
        BY HolderGoes
      <3>2. granted' = granted BY DEF RecordMechanism
      <3>3. Budget!GiveUp BY <3>1, <3>2 DEF Budget!GiveUp
      <3>4. QED BY <3>3 DEF Budget!Next
    <2>5. CASE \E a \in Attempt, result \in Product : RecordProduct(a, result)
      <3> PICK a \in Attempt, result \in Product : RecordProduct(a, result) BY <2>5
      <3>1. /\ Verdicts(ledger') = Append(Verdicts(ledger),
                                          [attempt |-> Holder(ledger), result |-> result])
            /\ Holder(ledger) # NoAttempt /\ Holder(ledger') = NoAttempt
        BY HolderDecides
      <3>2. granted' = granted BY DEF RecordProduct
      <3>3. Budget!Decide(result) BY <3>1, <3>2 DEF Budget!Decide
      <3>4. QED BY <3>3 DEF Budget!Next
    <2>6. CASE UNCHANGED ledgerVars
      BY <2>6 DEF ledgerVars, Budget!vars
    <2>7. QED BY <2>2, <2>3, <2>4, <2>5, <2>6 DEF AnyCall
  <1>3. QED BY <1>1, <1>2, CallsInvariance, PTL DEF AnyCalls, ImplementsBudget, Budget!Spec

\* The lineage gives at most MaxCycles verdicts, one at a time and for ever, each by
\* an attempt that was authorized once.
THEOREM BudgetImplemented == LedgerSpec => ImplementsBudget
  BY CallsBudget, OnlyCalled
=============================================================================

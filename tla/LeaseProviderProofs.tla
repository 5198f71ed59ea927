------------------------ MODULE LeaseProviderProofs ------------------------
(***************************************************************************)
(* Proofs about LeaseProvider, for any names, times and bounds.  Fencing   *)
(* rests on one fact: within an era (between two prunes that deleted the   *)
(* key) tokens grow with every acquire, and the row carries the highest.   *)
(***************************************************************************)
EXTENDS LeaseProvider, SequenceTheorems, TLAPS

\* The row describes the lease it names.
RowIsIssued ==
  row # NoRow =>
    /\ row.grant \in Grants
    /\ issued[row.grant].token = row.token
    /\ issued[row.grant].owner = row.owner
    /\ issued[row.grant].era = era
    /\ row.token <= Len(issued)

\* No lease of this era has a token above the row's, and only the row's own
\* lease has the same.
TokensGrow ==
  \A g \in Grants :
    /\ issued[g].era <= era
    /\ issued[g].era = era =>
         /\ row # NoRow
         /\ issued[g].token <= row.token
         /\ issued[g].token = row.token => g = row.grant

LeaseInv == LeaseTypeOK /\ RowIsIssued /\ TokensGrow

(* A row is told from NoRow. *)
LEMMA RowShape ==
  ASSUME NEW r \in Rows
  PROVE  /\ r # NoRow
         /\ r.owner \in Owners /\ r.token \in 1..MaxGrants
         /\ r.expiresAt \in 0..(MaxClock + Ttl)
         /\ r.signals \in SUBSET Signals /\ r.grant \in 1..MaxGrants
<1>1. DOMAIN r = {"owner", "token", "expiresAt", "signals", "grant"}
  BY DEF Rows
<1>2. DOMAIN NoRow = {"token"}
  BY DEF NoRow
<1>3. r # NoRow
  BY <1>1, <1>2
<1> QED BY <1>3 DEF Rows

(* Only the expiry and the signals of a row change while it has one holder. *)
LEMMA RowChanges ==
  ASSUME row \in Rows,
         NEW e \in 0..(MaxClock + Ttl), NEW s \in SUBSET Signals,
         row' = Row(e, s)
  PROVE  /\ row' \in Rows /\ row' # NoRow
         /\ row'.owner = row.owner /\ row'.token = row.token
         /\ row'.grant = row.grant
         /\ row'.expiresAt = e /\ row'.signals = s
<1>1. Row(e, s) \in Rows
  BY RowShape DEF Row, Rows
<1>2. Row(e, s) # NoRow
  BY <1>1, RowShape
<1> QED BY <1>1, <1>2 DEF Row

-----------------------------------------------------------------------------
(* What each kind of step does to the row. *)

\* The row keeps its holder: renewals, releases, signals, acknowledgements.
SameRow ==
  /\ row' \in Rows \cup {NoRow}
  /\ (row' = NoRow) <=> (row = NoRow)
  /\ row # NoRow => row'.owner = row.owner /\ row'.token = row.token
                    /\ row'.grant = row.grant

LEMMA RenewedKeeps ==
  ASSUME LeaseTypeOK, NEW g \in Grants, NEW acknowledge \in BOOLEAN,
         Renewed(g, acknowledge)
  PROVE  SameRow /\ owed' \in BOOLEAN
<1>1. CASE Renewable(g)
  <2>1. row \in Rows
    BY <1>1 DEF LeaseTypeOK, Renewable, SameHolder
  <2>2. now + Ttl \in 0..(MaxClock + Ttl)
    BY LeaseAssumption DEF LeaseTypeOK
  <2>3. (IF acknowledge THEN Kept(row.signals) ELSE {}) \in SUBSET Signals
    BY <2>1, RowShape DEF Kept, Signals
  <2>4. row' = Row(now + Ttl, IF acknowledge THEN Kept(row.signals) ELSE {})
    BY <1>1 DEF Renewed
  <2>5. owed' = (owed /\ acknowledge)
    BY <1>1 DEF Renewed
  <2> QED BY <2>1, <2>2, <2>3, <2>4, <2>5, RowChanges, RowShape DEF SameRow, LeaseTypeOK
<1>2. CASE ~Renewable(g)
  BY <1>2 DEF Renewed, SameRow, LeaseTypeOK
<1> QED BY <1>1, <1>2

LEMMA ReleasedKeeps ==
  ASSUME LeaseTypeOK, NEW g \in Grants, Released(g)
  PROVE  SameRow
<1>1. CASE SameHolder(g)
  <2>1. row \in Rows
    BY <1>1 DEF LeaseTypeOK, SameHolder
  <2>2. 0 \in 0..(MaxClock + Ttl) /\ Kept(row.signals) \in SUBSET Signals
    BY <2>1, RowShape, LeaseAssumption DEF Kept, Signals
  <2>3. row' = Row(0, Kept(row.signals))
    BY <1>1 DEF Released
  <2> QED BY <2>1, <2>2, <2>3, RowChanges, RowShape DEF SameRow
<1>2. CASE ~SameHolder(g)
  BY <1>2 DEF Released, SameRow, LeaseTypeOK
<1> QED BY <1>1, <1>2

LEMMA SignalKeeps ==
  ASSUME LeaseTypeOK, NEW s \in Signals, Signal(s)
  PROVE  SameRow /\ row \in Rows /\ row'.expiresAt = row.expiresAt
         /\ row'.signals = row.signals \cup {s}
<1>1. row \in Rows
  BY DEF LeaseTypeOK, Signal, Held
<1>2. row.expiresAt \in 0..(MaxClock + Ttl) /\ row.signals \cup {s} \in SUBSET Signals
  BY <1>1, RowShape
<1>3. row' = Row(row.expiresAt, row.signals \cup {s})
  BY DEF Signal
<1>4. /\ row' \in Rows /\ row' # NoRow
      /\ row'.owner = row.owner /\ row'.token = row.token /\ row'.grant = row.grant
      /\ row'.expiresAt = row.expiresAt /\ row'.signals = row.signals \cup {s}
  <2> DEFINE e == row.expiresAt
             t == row.signals \cup {s}
  <2>1. e \in 0..(MaxClock + Ttl) /\ t \in SUBSET Signals /\ row' = Row(e, t)
    BY <1>2, <1>3
  <2> HIDE DEF e, t
  <2>2. /\ row' \in Rows /\ row' # NoRow
        /\ row'.owner = row.owner /\ row'.token = row.token /\ row'.grant = row.grant
        /\ row'.expiresAt = e /\ row'.signals = t
    BY <1>1, <2>1, RowChanges
  <2> QED BY <2>2 DEF e, t
<1> QED BY <1>1, <1>4, RowShape DEF SameRow

LEMMA AckedKeeps ==
  ASSUME LeaseTypeOK, NEW g \in Grants, Acked(g)
  PROVE  /\ SameRow
         /\ owed' \in BOOLEAN
         /\ row # NoRow => row'.expiresAt = row.expiresAt
<1>1. CASE SameHolder(g)
  <2>1. row \in Rows
    BY <1>1 DEF LeaseTypeOK, SameHolder
  <2>2. row.expiresAt \in 0..(MaxClock + Ttl)
        /\ row.signals \ {"cancel"} \in SUBSET Signals
    BY <2>1, RowShape
  <2>3. row' = Row(row.expiresAt, row.signals \ {"cancel"}) /\ owed' = FALSE
    BY <1>1 DEF Acked
  <2> DEFINE e == row.expiresAt
             t == row.signals \ {"cancel"}
  <2> HIDE DEF e, t
  <2>4. /\ row' \in Rows /\ row' # NoRow
        /\ row'.owner = row.owner /\ row'.token = row.token /\ row'.grant = row.grant
        /\ row'.expiresAt = e
    BY <2>1, <2>2, <2>3, RowChanges DEF e, t
  <2>5. row'.expiresAt = row.expiresAt
    BY <2>4 DEF e
  <2>6. SameRow
    BY <2>1, <2>4, RowShape DEF SameRow
  <2> QED BY <2>3, <2>5, <2>6
<1>2. CASE ~SameHolder(g)
  BY <1>2 DEF Acked, SameRow, LeaseTypeOK
<1> QED BY <1>1, <1>2

LEMMA FencingKept ==
  ASSUME LeaseInv, SameRow, UNCHANGED <<issued, era>>
  PROVE  RowIsIssued' /\ TokensGrow'
<1>1. Grants' = Grants
  BY DEF Grants
<1> QED BY <1>1 DEF LeaseInv, SameRow, RowIsIssued, TokensGrow, Grants

-----------------------------------------------------------------------------
(* The fencing invariant. *)

LEMMA IssuedShape ==
  ASSUME LeaseTypeOK
  PROVE  /\ Grants = 1..Len(issued)
         /\ Len(issued) \in Nat
         /\ \A g \in Grants : /\ issued[g] \in Leases
                              /\ issued[g].owner \in Owners
                              /\ issued[g].token \in 1..MaxGrants
                              /\ issued[g].era \in 0..MaxPrunes
<1>1. issued \in Seq(Leases)
  BY DEF LeaseTypeOK
<1>2. Grants = 1..Len(issued) /\ Len(issued) \in Nat
  BY <1>1, LenProperties DEF Grants
<1>3. \A g \in Grants : issued[g] \in Leases
  BY <1>1, <1>2, ElementOfSeq
<1> QED BY <1>2, <1>3 DEF Leases

(* A holder learns a new expiry, or gives its lease back. *)
LEMMA BelievedChanges ==
  ASSUME LeaseTypeOK, NEW g \in Grants, NEW e \in 0..(MaxClock + Ttl)
  PROVE  /\ [believed EXCEPT ![g] = e] \in Seq(0..(MaxClock + Ttl))
         /\ Len([believed EXCEPT ![g] = e]) = Len(believed)
         /\ \A h \in Grants :
              [believed EXCEPT ![g] = e][h] = IF h = g THEN e ELSE believed[h]
  BY IssuedShape, ExceptSeq DEF LeaseTypeOK

LEMMA InitInv == LeaseInit => LeaseInv
<1> SUFFICES ASSUME LeaseInit PROVE LeaseInv
  OBVIOUS
<1>1. issued \in Seq(Leases) /\ Len(issued) = 0 /\ Grants = {}
  BY EmptySeq DEF LeaseInit, Unused, Grants
<1>2. believed \in Seq(0..(MaxClock + Ttl)) /\ Len(believed) = 0
  BY EmptySeq DEF LeaseInit, Unused
<1>3. /\ now \in 1..MaxClock /\ era \in 0..MaxPrunes /\ drainFor \in 0..MaxGrants
      /\ 0 <= MaxGrants
  BY LeaseAssumption DEF LeaseInit, Unused
<1>4. row \in Rows \cup {NoRow} /\ owed \in BOOLEAN
  BY DEF LeaseInit, Unused
<1>5. LeaseTypeOK
  BY <1>1, <1>2, <1>3, <1>4 DEF LeaseTypeOK
<1> QED BY <1>1, <1>5 DEF LeaseInit, Unused, LeaseInv, RowIsIssued, TokensGrow

LEMMA AcquireInv ==
  ASSUME LeaseInv, NEW o \in Owners, Acquire(o)
  PROVE  /\ LeaseInv'
         /\ row' \in Rows
         /\ row'.grant = Len(issued) + 1 /\ row'.expiresAt = now + Ttl
<1> DEFINE n == Len(issued) + 1
           lease == [owner |-> o, token |-> NextToken, era |-> era]
<1>0. LeaseTypeOK
  BY DEF LeaseInv
<1>1. n \in 1..MaxGrants /\ now + Ttl \in 0..(MaxClock + Ttl) /\ now \in 1..MaxClock
      /\ era \in 0..MaxPrunes /\ owed \in BOOLEAN /\ drainFor \in 0..MaxGrants
  BY <1>0, LeaseAssumption, IssuedShape DEF LeaseTypeOK, Acquire
<1>2. Grants = 1..(n - 1) /\ Len(issued) = n - 1 /\ n = Len(issued) + 1
  BY <1>0, IssuedShape
<1>3. issued' = Append(issued, lease) /\ believed' = Append(believed, now + Ttl)
  BY DEF Acquire
<1>4. row' = [owner |-> o, token |-> NextToken, expiresAt |-> now + Ttl,
              signals |-> IF row = NoRow THEN {} ELSE Kept(row.signals),
              grant |-> n]
  BY DEF Acquire
<1>5. lease.owner = o /\ lease.token = NextToken /\ lease.era = era
  OBVIOUS
<1>6. NextToken \in 1..n
  <2>1. CASE row = NoRow
    BY <1>1, <2>1 DEF NextToken, NoRow
  <2>2. CASE row # NoRow
    <3>1. row.token \in Nat /\ row.token <= Len(issued)
      BY <1>0, <2>2, RowShape, LeaseAssumption DEF LeaseInv, LeaseTypeOK, RowIsIssued
    <3> HIDE DEF n
    <3> QED BY <1>1, <1>2, <3>1 DEF NextToken
  <2> QED BY <2>1, <2>2
<1> HIDE DEF n
<1>7. NextToken \in 1..MaxGrants
  BY <1>1, <1>6, LeaseAssumption
<1>8. lease \in Leases
  BY <1>1, <1>7 DEF Leases
<1> HIDE DEF lease
<1>9. /\ issued' \in Seq(Leases)
      /\ Len(issued') = n
      /\ Grants' = 1..n
      /\ issued'[n] = lease
      /\ \A g \in Grants : issued'[g] = issued[g]
  <2>1. issued \in Seq(Leases)
    BY <1>0 DEF LeaseTypeOK
  <2>2. /\ issued' \in Seq(Leases) /\ Len(issued') = n /\ issued'[n] = lease
        /\ \A g \in Grants : issued'[g] = issued[g]
    BY <1>2, <1>3, <1>8, <2>1, AppendProperties
  <2>3. Grants' = 1..n
    BY <2>2, LenProperties DEF Grants
  <2> QED BY <2>2, <2>3
<1>10. believed' \in Seq(0..(MaxClock + Ttl)) /\ Len(believed') = n
  <2>1. believed \in Seq(0..(MaxClock + Ttl)) /\ Len(believed) = n - 1
    BY <1>0, <1>2 DEF LeaseTypeOK
  <2> QED BY <1>1, <1>3, <2>1, AppendProperties
<1>11. PICK signals \in SUBSET Signals :
        row' = [owner |-> o, token |-> NextToken, expiresAt |-> now + Ttl,
                signals |-> signals, grant |-> n]
  <2>1. CASE row = NoRow
    BY <1>4, <2>1
  <2>2. CASE row # NoRow
    BY <1>0, <1>4, <2>2, RowShape DEF LeaseTypeOK, Kept, Signals
  <2> QED BY <2>1, <2>2
<1>12. /\ row' \in Rows /\ row'.grant = n /\ row'.token = NextToken
       /\ row'.owner = o /\ row'.expiresAt = now + Ttl
  BY <1>1, <1>7, <1>11 DEF Rows
<1>13. row' # NoRow
  BY <1>12, RowShape
<1>14. UNCHANGED <<now, era, owed, drainFor>>
  BY DEF Acquire
<1>15. LeaseTypeOK'
  BY <1>1, <1>9, <1>10, <1>12, <1>14 DEF LeaseTypeOK
<1>16. RowIsIssued'
  BY <1>1, <1>5, <1>6, <1>9, <1>12, <1>14 DEF RowIsIssued
<1>17. \A g \in Grants : issued[g].era = era => issued[g].token < NextToken
  <2>1. SUFFICES ASSUME NEW g \in Grants, issued[g].era = era
                 PROVE  issued[g].token < NextToken
    OBVIOUS
  <2>2. row # NoRow /\ issued[g].token <= row.token
    BY <2>1 DEF LeaseInv, TokensGrow
  <2>3. row.token \in Nat /\ issued[g].token \in Nat
    BY <1>0, <2>2, RowShape, IssuedShape, LeaseAssumption DEF LeaseTypeOK
  <2> QED BY <2>2, <2>3 DEF NextToken
<1>18. TokensGrow'
  <2>1. SUFFICES ASSUME NEW g \in 1..n
                 PROVE  /\ issued'[g].era <= era
                        /\ issued'[g].era = era =>
                             /\ issued'[g].token <= NextToken
                             /\ issued'[g].token = NextToken => g = n
    BY <1>9, <1>12, <1>13, <1>14 DEF TokensGrow
  <2>2. CASE g = n
    BY <1>1, <1>5, <1>7, <1>9, <2>2
  <2>3. CASE g # n
    <3>1. g \in Grants /\ issued'[g] = issued[g]
      BY <1>1, <1>2, <1>9, <2>1, <2>3
    <3>2. issued[g].token \in Int /\ NextToken \in Int
      BY <1>0, <1>7, <3>1, IssuedShape
    <3>3. issued[g].era <= era
      BY <3>1 DEF LeaseInv, TokensGrow
    <3> QED BY <1>17, <3>1, <3>2, <3>3
  <2> QED BY <2>2, <2>3
<1> QED BY <1>2, <1>12, <1>15, <1>16, <1>18 DEF LeaseInv

LEMMA PruneInv ==
  ASSUME LeaseInv, NEW before \in 1..(MaxClock + Ttl), Prune(before)
  PROVE  LeaseInv'
<1>1. row' = NoRow /\ era' = era + 1 /\ era < MaxPrunes
      /\ UNCHANGED <<now, issued, believed, owed, drainFor>>
  BY DEF Prune
<1>2. Grants' = Grants
  BY <1>1 DEF Grants
<1>3. LeaseTypeOK'
  BY <1>1, <1>2, LeaseAssumption DEF LeaseInv, LeaseTypeOK
<1>4. RowIsIssued'
  BY <1>1 DEF RowIsIssued
<1>5. TokensGrow'
  <2>1. SUFFICES ASSUME NEW g \in Grants
                 PROVE  issued[g].era <= era + 1 /\ issued[g].era # era + 1
    BY <1>1, <1>2 DEF TokensGrow
  <2>2. issued[g].era \in Int /\ issued[g].era <= era /\ era \in Int
    BY <2>1, IssuedShape DEF LeaseInv, LeaseTypeOK, TokensGrow
  <2> QED BY <2>2
<1> QED BY <1>3, <1>4, <1>5 DEF LeaseInv

LEMMA StepInv == LeaseInv /\ [LeaseNext]_leaseVars => LeaseInv'
<1> SUFFICES ASSUME LeaseInv, [LeaseNext]_leaseVars PROVE LeaseInv'
  OBVIOUS
<1>0. LeaseTypeOK
  BY DEF LeaseInv
<1>1. ASSUME NEW o \in Owners, Acquire(o) PROVE LeaseInv'
  BY <1>1, AcquireInv
<1>2. ASSUME NEW g \in Grants, NEW acknowledge \in BOOLEAN, Renew(g, acknowledge)
      PROVE  LeaseInv'
  <2>1. SameRow /\ owed' \in BOOLEAN
    BY <1>0, <1>2, RenewedKeeps DEF Renew
  <2>2. UNCHANGED <<now, issued, era, drainFor>> /\ Grants' = Grants
    BY <1>2 DEF Renew, Grants
  <2>3. believed' \in Seq(0..(MaxClock + Ttl)) /\ Len(believed') = Len(believed)
    <3>1. now + Ttl \in 0..(MaxClock + Ttl)
      BY <1>0, LeaseAssumption DEF LeaseTypeOK
    <3>2. believed' = [believed EXCEPT ![g] = now + Ttl] \/ believed' = believed
      BY <1>2 DEF Renew
    <3>3. CASE believed' = [believed EXCEPT ![g] = now + Ttl]
      BY <1>0, <3>1, <3>3, BelievedChanges
    <3>4. CASE believed' = believed
      BY <1>0, <3>4 DEF LeaseTypeOK
    <3> QED BY <3>2, <3>3, <3>4
  <2>4. LeaseTypeOK'
    BY <1>0, <2>1, <2>2, <2>3 DEF LeaseTypeOK, SameRow
  <2> QED BY <2>1, <2>2, <2>4, FencingKept DEF LeaseInv
<1>3. ASSUME NEW g \in Grants, Release(g) PROVE LeaseInv'
  <2>1. SameRow
    BY <1>0, <1>3, ReleasedKeeps DEF Release
  <2>2. UNCHANGED <<now, issued, era, owed, drainFor>> /\ Grants' = Grants
    BY <1>3 DEF Release, Grants
  <2>3. believed' \in Seq(0..(MaxClock + Ttl)) /\ Len(believed') = Len(believed)
    <3>1. 0 \in 0..(MaxClock + Ttl)
      BY LeaseAssumption
    <3> QED BY <1>0, <1>3, <3>1, BelievedChanges DEF Release
  <2>4. LeaseTypeOK'
    BY <1>0, <2>1, <2>2, <2>3 DEF LeaseTypeOK, SameRow
  <2> QED BY <2>1, <2>2, <2>4, FencingKept DEF LeaseInv
<1>4. ASSUME NEW g \in Grants, Ack(g) PROVE LeaseInv'
  <2>1. SameRow /\ owed' \in BOOLEAN
    BY <1>0, <1>4, AckedKeeps DEF Ack
  <2>2. UNCHANGED <<now, issued, believed, era, drainFor>> /\ Grants' = Grants
    BY <1>4 DEF Ack, Grants
  <2>4. LeaseTypeOK'
    BY <1>0, <2>1, <2>2 DEF LeaseTypeOK, SameRow
  <2> QED BY <2>1, <2>2, <2>4, FencingKept DEF LeaseInv
<1>5. ASSUME NEW s \in Signals, Signal(s) PROVE LeaseInv'
  <2>1. SameRow /\ row \in Rows
    BY <1>0, <1>5, SignalKeeps
  <2>2. UNCHANGED <<now, issued, believed, era>> /\ Grants' = Grants
    BY <1>5 DEF Signal, Grants
  <2>3. owed' \in BOOLEAN
    BY <1>5 DEF Signal
  <2>4. drainFor' \in 0..MaxGrants
    BY <1>0, <1>5, <2>1, RowShape DEF Signal, LeaseTypeOK
  <2>5. LeaseTypeOK'
    BY <1>0, <2>1, <2>2, <2>3, <2>4 DEF LeaseTypeOK, SameRow
  <2> QED BY <2>1, <2>2, <2>5, FencingKept DEF LeaseInv
<1>6. ASSUME NEW before \in 1..(MaxClock + Ttl), Prune(before) PROVE LeaseInv'
  BY <1>6, PruneInv
<1>7. CASE Tick
  <2>1. now' \in 1..MaxClock
    BY <1>0, <1>7, LeaseAssumption DEF Tick, LeaseTypeOK
  <2>2. UNCHANGED <<row, issued, believed, era, owed, drainFor>> /\ Grants' = Grants
    BY <1>7 DEF Tick, Grants
  <2> QED BY <2>1, <2>2 DEF LeaseInv, LeaseTypeOK, RowIsIssued, TokensGrow
<1>8. CASE UNCHANGED leaseVars
  BY <1>8 DEF leaseVars, LeaseInv, LeaseTypeOK, RowIsIssued, TokensGrow, Grants
<1> QED BY <1>1, <1>2, <1>3, <1>4, <1>5, <1>6, <1>7, <1>8 DEF LeaseNext

THEOREM Fencing == LeaseSpec => []LeaseInv
  BY InitInv, StepInv, PTL DEF LeaseSpec

\* Only the lease handed out last in this era is renewed, acknowledged with or
\* given back.
THEOREM OnlyTheLast == LeaseSpec => []OnlyTheLastLeaseCounts
<1>1. LeaseInv => OnlyTheLastLeaseCounts
  BY DEF LeaseInv, TokensGrow, OnlyTheLastLeaseCounts, SameHolder
<1> QED BY <1>1, Fencing, PTL

-----------------------------------------------------------------------------
(* Signals. *)

LEMMA CancelStep ==
  LeaseTypeOK /\ CancelStaysQueued /\ [LeaseNext]_leaseVars => CancelStaysQueued'
<1> SUFFICES ASSUME LeaseTypeOK, CancelStaysQueued, [LeaseNext]_leaseVars, owed'
             PROVE  row' # NoRow /\ "cancel" \in row'.signals
  BY DEF CancelStaysQueued
<1>1. ASSUME NEW o \in Owners, Acquire(o)
      PROVE  row' # NoRow /\ "cancel" \in row'.signals
  <2>1. row # NoRow /\ "cancel" \in row.signals
    BY <1>1 DEF Acquire, CancelStaysQueued
  <2>2. row' = [owner |-> o, token |-> NextToken, expiresAt |-> now + Ttl,
                signals |-> Kept(row.signals), grant |-> Len(issued) + 1]
    BY <1>1, <2>1 DEF Acquire
  <2>3. DOMAIN row' # DOMAIN NoRow
    BY <2>2 DEF NoRow
  <2> QED BY <2>1, <2>2, <2>3 DEF Kept
<1>2. ASSUME NEW g \in Grants, NEW acknowledge \in BOOLEAN, Renew(g, acknowledge)
      PROVE  row' # NoRow /\ "cancel" \in row'.signals
  <2>1. CASE Renewable(g)
    <3>1. owed /\ acknowledge
      BY <1>2, <2>1 DEF Renew, Renewed
    <3>2. row # NoRow /\ "cancel" \in row.signals
      BY <3>1 DEF CancelStaysQueued
    <3>3. row' = Row(now + Ttl, Kept(row.signals))
      BY <1>2, <2>1, <3>1 DEF Renew, Renewed
    <3>4. row' # NoRow
      BY <1>2, <3>2, RenewedKeeps DEF Renew, SameRow
    <3> QED BY <3>2, <3>3, <3>4 DEF Row, Kept
  <2>2. CASE ~Renewable(g)
    BY <1>2, <2>2 DEF Renew, Renewed, CancelStaysQueued
  <2> QED BY <2>1, <2>2
<1>3. ASSUME NEW g \in Grants, Release(g)
      PROVE  row' # NoRow /\ "cancel" \in row'.signals
  <2>1. row # NoRow /\ "cancel" \in row.signals
    BY <1>3 DEF Release, CancelStaysQueued
  <2>2. row' # NoRow
    BY <1>3, <2>1, ReleasedKeeps DEF Release, SameRow
  <2>3. row' = Row(0, Kept(row.signals)) \/ row' = row
    BY <1>3 DEF Release, Released
  <2> QED BY <2>1, <2>2, <2>3 DEF Row, Kept
<1>4. ASSUME NEW g \in Grants, Ack(g)
      PROVE  row' # NoRow /\ "cancel" \in row'.signals
  BY <1>4 DEF Ack, Acked, CancelStaysQueued
<1>5. ASSUME NEW s \in Signals, Signal(s)
      PROVE  row' # NoRow /\ "cancel" \in row'.signals
  <2>1. row' # NoRow /\ row'.signals = row.signals \cup {s} /\ row # NoRow
    BY <1>5, SignalKeeps, RowShape DEF SameRow
  <2>2. owed \/ s = "cancel"
    BY <1>5 DEF Signal
  <2> QED BY <2>1, <2>2 DEF CancelStaysQueued
<1>6. ASSUME NEW before \in 1..(MaxClock + Ttl), Prune(before)
      PROVE  row' # NoRow /\ "cancel" \in row'.signals
  BY <1>6 DEF Prune, Prunable, CancelStaysQueued
<1>7. CASE Tick
  BY <1>7 DEF Tick, CancelStaysQueued
<1>8. CASE UNCHANGED leaseVars
  BY <1>8 DEF leaseVars, CancelStaysQueued
<1> QED BY <1>1, <1>2, <1>3, <1>4, <1>5, <1>6, <1>7, <1>8 DEF LeaseNext

\* A cancel that was accepted is never lost before a holder has it.
THEOREM CancelKept == LeaseSpec => []CancelStaysQueued
<1>1. LeaseInit => CancelStaysQueued
  BY DEF LeaseInit, Unused, CancelStaysQueued
<1>2. LeaseInv => LeaseTypeOK
  BY DEF LeaseInv
<1> QED BY <1>1, <1>2, CancelStep, Fencing, PTL DEF LeaseSpec

LEMMA DrainStep ==
  LeaseTypeOK /\ DrainConcernsTheHolder /\ [LeaseNext]_leaseVars
    => DrainConcernsTheHolder'
<1> SUFFICES ASSUME LeaseTypeOK, DrainConcernsTheHolder, [LeaseNext]_leaseVars,
                    row' # NoRow, "drain" \in row'.signals
             PROVE  drainFor' = row'.grant
  BY DEF DrainConcernsTheHolder
<1>1. ASSUME NEW o \in Owners, Acquire(o) PROVE drainFor' = row'.grant
  <2>1. row'.signals = IF row = NoRow THEN {} ELSE Kept(row.signals)
    BY <1>1 DEF Acquire
  <2> QED BY <2>1 DEF Kept
<1>2. ASSUME NEW g \in Grants, NEW acknowledge \in BOOLEAN, Renew(g, acknowledge)
      PROVE  drainFor' = row'.grant
  <2>1. CASE Renewable(g)
    <3>1. row'.signals = IF acknowledge THEN Kept(row.signals) ELSE {}
      BY <1>2, <2>1 DEF Renew, Renewed, Row
    <3> QED BY <3>1 DEF Kept
  <2>2. CASE ~Renewable(g)
    BY <1>2, <2>2 DEF Renew, Renewed, DrainConcernsTheHolder
  <2> QED BY <2>1, <2>2
<1>3. ASSUME NEW g \in Grants, Release(g) PROVE drainFor' = row'.grant
  <2>1. row' = Row(0, Kept(row.signals)) \/ row' = row
    BY <1>3 DEF Release, Released
  <2> QED BY <1>3, <2>1 DEF Release, Row, Kept, DrainConcernsTheHolder
<1>4. ASSUME NEW g \in Grants, Ack(g) PROVE drainFor' = row'.grant
  <2>1. CASE SameHolder(g)
    <3>1. row' = Row(row.expiresAt, row.signals \ {"cancel"}) /\ row # NoRow
      BY <1>4, <2>1 DEF Ack, Acked, SameHolder
    <3> QED BY <1>4, <3>1 DEF Ack, Row, DrainConcernsTheHolder
  <2>2. CASE ~SameHolder(g)
    BY <1>4, <2>2 DEF Ack, Acked, DrainConcernsTheHolder
  <2> QED BY <2>1, <2>2
<1>5. ASSUME NEW s \in Signals, Signal(s) PROVE drainFor' = row'.grant
  <2>1. /\ row'.signals = row.signals \cup {s} /\ row # NoRow
        /\ row'.grant = row.grant
    BY <1>5, SignalKeeps, RowShape DEF SameRow
  <2> QED BY <1>5, <2>1 DEF Signal, DrainConcernsTheHolder
<1>6. ASSUME NEW before \in 1..(MaxClock + Ttl), Prune(before)
      PROVE  drainFor' = row'.grant
  BY <1>6 DEF Prune
<1>7. CASE Tick
  BY <1>7 DEF Tick, DrainConcernsTheHolder
<1>8. CASE UNCHANGED leaseVars
  BY <1>8 DEF leaseVars, DrainConcernsTheHolder
<1> QED BY <1>1, <1>2, <1>3, <1>4, <1>5, <1>6, <1>7, <1>8 DEF LeaseNext

\* A drain never reaches a holder it was not sent to.
THEOREM DrainForTheHolder == LeaseSpec => []DrainConcernsTheHolder
<1>1. LeaseInit => DrainConcernsTheHolder
  BY DEF LeaseInit, Unused, DrainConcernsTheHolder
<1>2. LeaseInv => LeaseTypeOK
  BY DEF LeaseInv
<1> QED BY <1>1, <1>2, DrainStep, Fencing, PTL DEF LeaseSpec

-----------------------------------------------------------------------------
(* A holder that trusts its expiry is alone, when names are used once. *)

NamesOnce ==
  \A g, h \in Grants : issued[g].owner = issued[h].owner => g = h

\* No holder believes in more than one ttl from now.
BeliefBound == \A g \in Grants : believed[g] <= now + Ttl

AloneInv == LeaseInv /\ NamesOnce /\ BeliefBound /\ HolderIsAlone

LEMMA AloneInit == LeaseInit => NamesOnce /\ BeliefBound /\ HolderIsAlone
  BY DEF LeaseInit, Unused, NamesOnce, BeliefBound, HolderIsAlone, Grants

LEMMA SameIsLast ==
  ASSUME AloneInv, NEW g \in Grants, SameHolder(g)
  PROVE  g = row.grant
  BY DEF AloneInv, LeaseInv, RowIsIssued, NamesOnce, SameHolder

LEMMA BelievedNumbers ==
  ASSUME LeaseTypeOK
  PROVE  /\ now \in Nat /\ now > 0 /\ Ttl \in Nat \ {0}
         /\ \A g \in Grants : believed[g] \in Nat
         /\ row # NoRow => row.expiresAt \in Nat
<1>1. \A g \in Grants : believed[g] \in 0..(MaxClock + Ttl)
  BY IssuedShape, ElementOfSeq DEF LeaseTypeOK
<1> QED BY <1>1, RowShape, LeaseAssumption DEF LeaseTypeOK

LEMMA AloneStep ==
  ASSUME FreshOwners, AloneInv, [LeaseNext]_leaseVars
  PROVE  NamesOnce' /\ BeliefBound' /\ HolderIsAlone'
<1>0. LeaseTypeOK /\ LeaseInv
  BY DEF AloneInv, LeaseInv
<1>a. /\ now \in Nat /\ now > 0 /\ Ttl \in Nat \ {0}
      /\ \A g \in Grants : believed[g] \in Nat
      /\ row # NoRow => row.expiresAt \in Nat
  BY <1>0, BelievedNumbers
<1>b. Grants = 1..Len(issued) /\ Len(issued) \in Nat /\ Len(believed) = Len(issued)
  BY <1>0, IssuedShape DEF LeaseTypeOK
<1>1. ASSUME NEW o \in Owners, Acquire(o)
      PROVE  NamesOnce' /\ BeliefBound' /\ HolderIsAlone'
  <2> DEFINE n == Len(issued) + 1
  <2>1. row' \in Rows /\ row'.grant = n /\ row'.expiresAt = now + Ttl /\ LeaseInv'
    BY <1>0, <1>1, AcquireInv
  <2>2. row' # NoRow /\ Grants' = 1..n
    <3>1. Grants' = 1..Len(issued')
      BY <2>1, LenProperties DEF LeaseInv, LeaseTypeOK, Grants
    <3>2. Len(issued') = n
      BY <1>0, <1>1 DEF Acquire, LeaseTypeOK
    <3> QED BY <2>1, <3>1, <3>2, RowShape
  <2>3. /\ issued'[n].owner = o
        /\ \A g \in Grants : issued'[g] = issued[g]
        /\ believed'[n] = now + Ttl
        /\ \A g \in Grants : believed'[g] = believed[g]
    BY <1>0, <1>1, <1>b DEF Acquire, LeaseTypeOK
  <2>4. now' = now /\ ~Held /\ \A g \in Grants : issued[g].owner # o
    BY <1>1 DEF Acquire, Acquirable
  <2> HIDE DEF n
  <2>5. Grants' = Grants \cup {n} /\ n \notin Grants
    BY <1>b, <2>2 DEF n
  <2>6. NamesOnce'
    BY <2>3, <2>4, <2>5 DEF NamesOnce, AloneInv
  <2>7. BeliefBound'
    BY <1>a, <2>3, <2>4, <2>5 DEF BeliefBound, AloneInv
  <2>8. \A g \in Grants : ~(believed[g] > now)
    BY <1>a, <2>4 DEF Held, HolderIsAlone, AloneInv
  <2>9. HolderIsAlone'
    <3>1. SUFFICES ASSUME NEW g \in Grants', believed'[g] > now
                   PROVE  row' # NoRow /\ row'.grant = g /\ row'.expiresAt >= believed'[g]
      BY <2>4 DEF HolderIsAlone
    <3>2. g = n
      BY <2>3, <2>5, <2>8, <3>1
    <3> QED BY <1>a, <2>1, <2>2, <2>3, <3>2
  <2> QED BY <2>6, <2>7, <2>9
<1>2. ASSUME NEW g \in Grants, NEW acknowledge \in BOOLEAN, Renew(g, acknowledge)
      PROVE  NamesOnce' /\ BeliefBound' /\ HolderIsAlone'
  <2>1. UNCHANGED <<now, issued>> /\ Grants' = Grants
    BY <1>2 DEF Renew, Grants
  <2>2. NamesOnce'
    BY <2>1 DEF NamesOnce, AloneInv
  <2>3. CASE Renewable(g)
    <3>1. g = row.grant /\ row # NoRow
      BY <2>3, SameIsLast DEF Renewable, SameHolder
    <3>2. SameRow
      BY <1>0, <1>2, RenewedKeeps DEF Renew
    <3>3. row'.expiresAt = now + Ttl /\ row' # NoRow /\ row'.grant = row.grant
      BY <1>2, <2>3, <3>1, <3>2 DEF Renew, Renewed, Row, SameRow
    <3>4. \A h \in Grants : believed'[h] = believed[h] \/ (h = g /\ believed'[h] = now + Ttl)
      <4>1. now + Ttl \in 0..(MaxClock + Ttl)
        BY <1>0, LeaseAssumption DEF LeaseTypeOK
      <4>2. believed' = [believed EXCEPT ![g] = now + Ttl] \/ believed' = believed
        BY <1>2 DEF Renew
      <4>3. CASE believed' = [believed EXCEPT ![g] = now + Ttl]
        BY <1>0, <4>1, <4>3, BelievedChanges
      <4> QED BY <4>2, <4>3
    <3>5. \A h \in Grants : believed'[h] \in Nat /\ believed'[h] <= now + Ttl
      BY <1>a, <3>4 DEF AloneInv, BeliefBound
    <3>6. \A h \in Grants : believed'[h] > now => h = g
      BY <1>a, <3>1, <3>4 DEF AloneInv, HolderIsAlone
    <3> QED BY <1>a, <2>1, <2>2, <3>1, <3>3, <3>5, <3>6 DEF BeliefBound, HolderIsAlone
  <2>4. CASE ~Renewable(g)
    <3>1. row' = row /\ believed' = believed
      BY <1>2, <2>4 DEF Renew, Renewed
    <3> QED BY <2>1, <2>2, <3>1 DEF BeliefBound, HolderIsAlone, AloneInv
  <2> QED BY <2>3, <2>4
<1>3. ASSUME NEW g \in Grants, Release(g)
      PROVE  NamesOnce' /\ BeliefBound' /\ HolderIsAlone'
  <2>1. UNCHANGED <<now, issued>> /\ Grants' = Grants
    BY <1>3 DEF Release, Grants
  <2>2. NamesOnce'
    BY <2>1 DEF NamesOnce, AloneInv
  <2>3. \A h \in Grants : believed'[h] = IF h = g THEN 0 ELSE believed[h]
    <3>1. 0 \in 0..(MaxClock + Ttl)
      BY LeaseAssumption
    <3> QED BY <1>0, <1>3, <3>1, BelievedChanges DEF Release
  <2>4. BeliefBound'
    BY <1>a, <2>1, <2>3 DEF BeliefBound, AloneInv
  <2>5. ASSUME NEW h \in Grants, believed'[h] > now
        PROVE  row' # NoRow /\ row'.grant = h /\ row'.expiresAt >= believed'[h]
    <3>1. h # g /\ believed'[h] = believed[h]
      BY <1>a, <2>3, <2>5
    <3>2. row # NoRow /\ row.grant = h /\ row.expiresAt >= believed[h]
      BY <2>5, <3>1 DEF AloneInv, HolderIsAlone
    <3>3. ~SameHolder(g)
      BY <3>1, <3>2, SameIsLast
    <3>4. row' = row
      BY <1>3, <3>3 DEF Release, Released
    <3> QED BY <3>1, <3>2, <3>4
  <2> QED BY <2>1, <2>2, <2>4, <2>5 DEF HolderIsAlone
<1>4. ASSUME NEW g \in Grants, Ack(g)
      PROVE  NamesOnce' /\ BeliefBound' /\ HolderIsAlone'
  <2>1. UNCHANGED <<now, issued, believed>> /\ Grants' = Grants
    BY <1>4 DEF Ack, Grants
  <2>2. SameRow /\ (row # NoRow => row'.expiresAt = row.expiresAt)
    BY <1>0, <1>4, AckedKeeps DEF Ack
  <2> QED BY <2>1, <2>2 DEF SameRow, AloneInv, NamesOnce, BeliefBound, HolderIsAlone
<1>5. ASSUME NEW s \in Signals, Signal(s)
      PROVE  NamesOnce' /\ BeliefBound' /\ HolderIsAlone'
  <2>1. UNCHANGED <<now, issued, believed>> /\ Grants' = Grants
    BY <1>5 DEF Signal, Grants
  <2>2. SameRow /\ row'.expiresAt = row.expiresAt
    BY <1>0, <1>5, SignalKeeps
  <2> QED BY <2>1, <2>2 DEF SameRow, AloneInv, NamesOnce, BeliefBound, HolderIsAlone
<1>6. ASSUME NEW before \in 1..(MaxClock + Ttl), Prune(before)
      PROVE  NamesOnce' /\ BeliefBound' /\ HolderIsAlone'
  <2>1. UNCHANGED <<now, issued, believed>> /\ Grants' = Grants
    BY <1>6 DEF Prune, Grants
  <2>2. row # NoRow /\ ~(row.expiresAt > now)
    BY <1>6, <1>a DEF Prune, Prunable
  <2>3. \A g \in Grants : ~(believed[g] > now)
    BY <1>a, <2>2 DEF AloneInv, HolderIsAlone
  <2> QED BY <2>1, <2>3 DEF AloneInv, NamesOnce, BeliefBound, HolderIsAlone
<1>7. CASE Tick
  <2>1. UNCHANGED <<issued, believed, row>> /\ Grants' = Grants /\ now' = now + 1
    BY <1>7 DEF Tick, Grants
  <2> QED BY <1>a, <2>1 DEF AloneInv, NamesOnce, BeliefBound, HolderIsAlone
<1>8. CASE UNCHANGED leaseVars
  BY <1>8 DEF leaseVars, AloneInv, NamesOnce, BeliefBound, HolderIsAlone, Grants
<1> QED BY <1>1, <1>2, <1>3, <1>4, <1>5, <1>6, <1>7, <1>8 DEF LeaseNext

\* When every acquire uses a name of its own, as the default generated owner
\* does, a holder that trusts the expiry it last saw holds the key alone.
THEOREM Alone ==
  ASSUME FreshOwners
  PROVE  LeaseSpec => []HolderIsAlone
<1>1. AloneInv /\ [LeaseNext]_leaseVars => AloneInv'
  BY StepInv, AloneStep DEF AloneInv
<1>2. LeaseInit => AloneInv
  BY InitInv, AloneInit DEF AloneInv
<1>3. AloneInv => HolderIsAlone
  BY DEF AloneInv
<1> QED BY <1>1, <1>2, <1>3, PTL DEF LeaseSpec
=============================================================================

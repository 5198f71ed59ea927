--------------------------- MODULE LeaseProvider ---------------------------
(***************************************************************************)
(* The lease provider (packages/core/src/ops.ts): which executor drives a  *)
(* durable run.  One key; holders acquire, renew, release and acknowledge, *)
(* anyone signals the key, a maintenance job prunes it.  Every method is   *)
(* one synchronous step of the provider; a holder may miss the answer, and *)
(* may use a lease it lost long ago.                                       *)
(*                                                                         *)
(* Abstractions: other keys are independent and left out; ttl is one       *)
(* constant; holders read the provider's clock.                            *)
(***************************************************************************)
EXTENDS Integers, Sequences

CONSTANTS
  Owners,       \* names executors give themselves
  FreshOwners,  \* is a name used once (the default, a generated id)?
  Ttl,          \* how long a lease lasts
  MaxClock,     \* bound on the clock
  MaxGrants,    \* bound on the leases handed out
  MaxPrunes     \* bound on the prunes that delete the key

ASSUME LeaseAssumption ==
  /\ Ttl \in Nat \ {0} /\ MaxClock \in Nat \ {0}
  /\ MaxGrants \in Nat /\ MaxPrunes \in Nat /\ FreshOwners \in BOOLEAN

VARIABLES
  now,       \* the provider's clock; 0 is before any time it reads
  row,       \* the key's row, or NoRow
  issued,    \* ghost: every lease handed out, in order
  believed,  \* lease -> the expiry its holder last saw; 0 once given back
  era,       \* ghost: how often prune deleted the key
  owed,      \* ghost: an accepted cancel nobody was handed or acknowledged
  drainFor   \* ghost: the lease whose holder the last drain was sent to

leaseVars == <<now, row, issued, believed, era, owed, drainFor>>

Signals == {"cancel", "drain"}
NoRow == [token |-> 0]
Grants == DOMAIN issued

-----------------------------------------------------------------------------
Held == row # NoRow /\ row.expiresAt > now

\* A queued cancel outlives the holder it was sent to; a drain does not.
KeptAll(signals) == signals
Kept(signals) == signals \cap {"cancel"}

NextTokenAfterRelease == IF row # NoRow /\ row.expiresAt = 0 THEN 1 ELSE row.token + 1
NextToken == row.token + 1

\* The row of the same holder with another expiry and other signals.
Row(expiresAt, signals) ==
  [owner |-> row.owner, token |-> row.token, expiresAt |-> expiresAt,
   signals |-> signals, grant |-> row.grant]

\* The key is still the lease's, lapsed or not.
SameHolder(g) ==
  row # NoRow /\ row.token = issued[g].token /\ row.owner = issued[g].owner

Renewable(g) == SameHolder(g) /\ row.expiresAt # 0

Acquirable == ~Held

Acquire(o) ==
  /\ Len(issued) < MaxGrants
  /\ FreshOwners => \A g \in Grants : issued[g].owner # o
  /\ Acquirable
  /\ row' = [owner |-> o, token |-> NextToken, expiresAt |-> now + Ttl,
             signals |-> IF row = NoRow THEN {} ELSE Kept(row.signals),
             grant |-> Len(issued) + 1]
  /\ issued' = Append(issued, [owner |-> o, token |-> NextToken, era |-> era])
  /\ believed' = Append(believed, now + Ttl)
  /\ UNCHANGED <<now, era, owed, drainFor>>

\* What a renewal answers.
Renewal(g, acknowledge) ==
  IF Renewable(g)
  THEN [held |-> TRUE, until |-> now + Ttl, signals |-> row.signals,
        queued |-> IF acknowledge THEN Kept(row.signals) ELSE {}]
  ELSE [held |-> FALSE, until |-> 0, signals |-> {}, queued |-> {}]

\* A bug: a renewal takes what it delivers off the queue, asked to or not.
RenewedAtOnce(g, acknowledge) ==
  IF Renewable(g)
  THEN /\ row' = Row(now + Ttl, {})
       /\ owed' = (owed /\ acknowledge)
  ELSE UNCHANGED <<row, owed>>
\* The key's row, and what is owed, after a renewal.
Renewed(g, acknowledge) ==
  IF Renewable(g)
  THEN /\ row' = Row(now + Ttl, IF acknowledge THEN Kept(row.signals) ELSE {})
       /\ owed' = (owed /\ acknowledge)
  ELSE UNCHANGED <<row, owed>>

Renew(g, acknowledge) ==
  /\ Renewed(g, acknowledge)
  /\ \E answered \in BOOLEAN :
       believed' = IF answered /\ Renewable(g)
                   THEN [believed EXCEPT ![g] = now + Ttl] ELSE believed
  /\ UNCHANGED <<now, issued, era, drainFor>>

\* The row stays, so that the next holder's token is higher.
Released(g) ==
  row' = IF SameHolder(g)
         THEN Row(0, Kept(row.signals))
         ELSE row

Release(g) ==
  /\ Released(g)
  /\ believed' = [believed EXCEPT ![g] = 0]
  /\ UNCHANGED <<now, issued, era, owed, drainFor>>

\* Refused, and nothing queued, when nobody holds the key.
Signal(s) ==
  /\ Held
  /\ row' = Row(row.expiresAt, row.signals \cup {s})
  /\ owed' = (owed \/ s = "cancel")
  /\ drainFor' = IF s = "drain" THEN row.grant ELSE drainFor
  /\ UNCHANGED <<now, issued, believed, era>>

Acked(g) ==
  IF SameHolder(g)
  THEN row' = Row(row.expiresAt, row.signals \ {"cancel"}) /\ owed' = FALSE
  ELSE UNCHANGED <<row, owed>>

Ack(g) == Acked(g) /\ UNCHANGED <<now, issued, believed, era, drainFor>>

\* A key held now is never pruned, whatever the cutoff.
PrunableBefore(before) ==
  /\ row # NoRow
  /\ row.expiresAt = 0 \/ row.expiresAt < before
  /\ "cancel" \notin row.signals

PrunableWithCancel(before) ==
  /\ row # NoRow
  /\ row.expiresAt = 0 \/ (row.expiresAt < before /\ row.expiresAt < now)

Prunable(before) ==
  /\ row # NoRow
  /\ row.expiresAt = 0 \/ (row.expiresAt < before /\ row.expiresAt < now)
  /\ "cancel" \notin row.signals

Prune(before) ==
  /\ era < MaxPrunes
  /\ Prunable(before)
  /\ row' = NoRow /\ era' = era + 1
  /\ UNCHANGED <<now, issued, believed, owed, drainFor>>

Tick == now < MaxClock /\ now' = now + 1
        /\ UNCHANGED <<row, issued, believed, era, owed, drainFor>>

-----------------------------------------------------------------------------
Unused ==
  /\ now = 1 /\ row = NoRow /\ issued = <<>> /\ believed = <<>>
  /\ owed = FALSE /\ drainFor = 0

LeaseInit == Unused /\ era = 0

LeaseNext ==
  \/ \E o \in Owners : Acquire(o)
  \/ \E g \in Grants :
       \/ \E acknowledge \in BOOLEAN : Renew(g, acknowledge)
       \/ Release(g)
       \/ Ack(g)
  \/ \E s \in Signals : Signal(s)
  \/ \E before \in 1..(MaxClock + Ttl) : Prune(before)
  \/ Tick

LeaseSpec == LeaseInit /\ [][LeaseNext]_leaseVars

-----------------------------------------------------------------------------
Rows == [owner : Owners, token : 1..MaxGrants, expiresAt : 0..(MaxClock + Ttl),
        signals : SUBSET Signals, grant : 1..MaxGrants]

Leases == [owner : Owners, token : 1..MaxGrants, era : 0..MaxPrunes]

\* Every variable has its type.
LeaseTypeOK ==
  /\ now \in 1..MaxClock
  /\ row \in Rows \cup {NoRow}
  /\ issued \in Seq(Leases) /\ Len(issued) <= MaxGrants
  /\ believed \in Seq(0..(MaxClock + Ttl)) /\ Len(believed) = Len(issued)
  /\ era \in 0..MaxPrunes
  /\ owed \in BOOLEAN
  /\ drainFor \in 0..MaxGrants

\* However often the key was taken, lapsed or released, only the lease that
\* was handed out last can be renewed, acknowledged with or given back; what
\* was handed out before a prune is the exception (ops.ts:43-47, 55, 83).
OnlyTheLastLeaseCounts ==
  \A g \in Grants : SameHolder(g) /\ issued[g].era = era => g = row.grant

\* A holder that has seen its lease last beyond now holds the key, for at
\* least that long: nobody took, gave back or pruned it behind its back.
HolderIsAlone ==
  \A g \in Grants : believed[g] > now =>
    row # NoRow /\ row.grant = g /\ row.expiresAt >= believed[g]

\* A cancel that was accepted stays queued through lapses, releases, other
\* holders and prunes until a renewal hands it over for good or the holder
\* acknowledges it (ops.ts:32-34, 60-61, 80-101).
CancelStaysQueued == owed => row # NoRow /\ "cancel" \in row.signals

\* A drain only ever reaches the holder it was sent to.
DrainConcernsTheHolder ==
  row # NoRow /\ "drain" \in row.signals => drainFor = row.grant

=============================================================================

--------------------------- MODULE RunLeaseProofs ---------------------------
(***************************************************************************)
(* Proofs about RunLease, for any executors, times and bounds.             *)
(*                                                                         *)
(* An executor's steps on the key are steps of LeaseProvider, except that  *)
(* it believes an answer when the answer arrives, which may be late.  What *)
(* an answer under way promises must therefore still stand when it does.   *)
(***************************************************************************)
EXTENDS RunLease, LeaseProviderProofs

Expiries == 0..(MaxClock + Ttl)
Pcs == Beating \cup {"idle", "claimed", "stopping", "returning"}
Answers == [held : BOOLEAN, until : Expiries, signals : SUBSET Signals, queued : SUBSET Signals]
Flights == {NoAnswer, Failed} \cup [kind : {"answer"}, a : Answers]
Memories ==
  [pc : Pcs, lease : Nat, found : {"no", "kept", "consumed"},
   read : {"fresh", "active", "terminal"}, rev : Nat,
   collected : BOOLEAN, cancelled : BOOLEAN, draining : BOOLEAN, kept : BOOLEAN,
   consumed : BOOLEAN, lost : BOOLEAN, recorded : BOOLEAN,
   ends : {"terminal", "active"}, flight : Flights]

RunTypeOK ==
  /\ ex \in [Executors -> Memories]
  /\ stored \in [phase : {"none", "active", "terminal"}, rev : Nat]
  /\ hasAck \in BOOLEAN /\ asked \in BOOLEAN

\* An executor uses the lease it was handed.
Owns ==
  \A e \in Executors : ex[e].pc # "idle" =>
    ex[e].lease \in Grants /\ issued[ex[e].lease].owner = e

\* No renewal is under way before the heartbeat starts, or once the key goes back.
Quiet ==
  \A e \in Executors : ex[e].pc \in {"idle", "claimed", "returning"} => ex[e].flight = NoAnswer

\* Who was promised the key until t, a time to come, has it until then.
Stands(g, t) == t > now => row # NoRow /\ row.grant = g /\ row.expiresAt >= t

Promised(e) == ex[e].flight.kind = "answer" /\ ex[e].flight.a.held
PromiseStands(e) ==
  ex[e].flight.a.until <= now + Ttl /\ Stands(ex[e].lease, ex[e].flight.a.until)
PromisesStand == \A e \in Executors : Promised(e) => PromiseStands(e)

HoldInv == LeaseInv /\ RunTypeOK /\ Owns /\ Quiet
TrustInv == HoldInv /\ AloneInv /\ PromisesStand

-----------------------------------------------------------------------------
(* What an executor's step does to its memory. *)

QuietIn == {"idle", "claimed", "returning"}

\* It stays an executor of the lease it has, and sends nothing while quiet.
Moves(e) ==
  /\ ex' = [ex EXCEPT ![e] = ex'[e]] /\ ex'[e] \in Memories
  /\ ex'[e].pc # "idle" => ex[e].pc # "idle" /\ ex'[e].lease = ex[e].lease
  /\ ex'[e].pc \in QuietIn => ex'[e].flight = NoAnswer

LEMMA IdleMemory == Idle \in Memories /\ Idle.pc = "idle" /\ Idle.flight = NoAnswer
  BY DEF Idle, Memories, Pcs, Flights

LEMMA RenewalShape ==
  ASSUME LeaseTypeOK, NEW g \in Grants, NEW acknowledge \in BOOLEAN
  PROVE  /\ Renewal(g, acknowledge) \in Answers
         /\ Renewal(g, acknowledge).held <=> Renewable(g)
         /\ Renewable(g) => Renewal(g, acknowledge).until = now + Ttl
<1>1. CASE Renewable(g)
  <2>1. row \in Rows
    BY <1>1 DEF LeaseTypeOK, Renewable, SameHolder
  <2>2. row.signals \in SUBSET Signals /\ Kept(row.signals) \in SUBSET Signals
    BY <2>1, RowShape DEF Kept
  <2>3. now + Ttl \in Expiries
    BY LeaseAssumption DEF LeaseTypeOK, Expiries
  <2> QED BY <1>1, <2>2, <2>3 DEF Renewal, Answers
<1>2. CASE ~Renewable(g)
  <2>1. Renewal(g, acknowledge)
          = [held |-> FALSE, until |-> 0, signals |-> {}, queued |-> {}]
    BY <1>2 DEF Renewal
  <2>2. 0 \in Expiries
    BY LeaseAssumption DEF Expiries
  <2>3. Renewal(g, acknowledge) \in Answers
    BY <2>1, <2>2 DEF Answers
  <2> QED BY <1>2, <2>1, <2>3
<1> QED BY <1>1, <1>2

\* It has no new answer under way.
Still(e) == ex'[e].flight \in {NoAnswer, Failed, ex[e].flight}

Becomes(e, m) == ex' = [ex EXCEPT ![e] = m]

LEMMA BecomesMoves ==
  ASSUME RunTypeOK, NEW e \in Executors, NEW m \in Memories, Becomes(e, m),
         m.pc # "idle" => ex[e].pc # "idle" /\ m.lease = ex[e].lease,
         m.pc \in QuietIn => m.flight = NoAnswer
  PROVE  Moves(e) /\ ex'[e] = m
  BY DEF RunTypeOK, Moves, Becomes

LEMMA SettlingMemory ==
  ASSUME NEW m \in Memories
  PROVE  /\ Settling(m) \in Memories /\ Settling(m).pc = "settling"
         /\ Settling(m).lease = m.lease /\ Settling(m).flight = m.flight
         /\ Settling(m).read = "fresh" /\ Settling(m).rev = 0
         /\ Settling(m).recorded = m.recorded
  BY DEF Memories, Settling, Pcs, Beating

LEMMA StoppingMoves ==
  ASSUME RunTypeOK, NEW e \in Executors, ex[e].pc # "idle", Stopping(e)
  PROVE  Moves(e) /\ Still(e) /\ ex'[e] = Settling(ex[e])
  BY SettlingMemory DEF RunTypeOK, Stopping, Moves, QuietIn, Still

LEMMA FirstRenewalMoves ==
  ASSUME HoldInv, NEW e \in Executors, FirstRenewal(e)
  PROVE  Moves(e) /\ Still(e)
<1> DEFINE answer == Renewal(ex[e].lease, hasAck)
<1>1. ex[e] \in Memories /\ ex[e].pc = "claimed" /\ ex[e].flight = NoAnswer
  BY DEF HoldInv, RunTypeOK, FirstRenewal, Quiet
<1>2. answer \in Answers
  BY <1>1, RenewalShape DEF HoldInv, LeaseInv, RunTypeOK, Owns
<1>3. ex' = [ex EXCEPT ![e] = IF answer.held
                 THEN [@ EXCEPT !.pc = "reading", !.found = Found(answer),
                                !.draining = "drain" \in answer.signals]
                 ELSE Idle]
  BY DEF FirstRenewal
<1>4. Found(answer) \in {"no", "kept", "consumed"}
  BY DEF Found
<1>5. ("drain" \in answer.signals) \in BOOLEAN
  OBVIOUS
<1> DEFINE found == Found(answer)
           drains == "drain" \in answer.signals
           m == [ex[e] EXCEPT !.pc = "reading", !.found = found, !.draining = drains]
<1> HIDE DEF answer, found, drains
<1>6. m \in Memories /\ m.pc = "reading" /\ m.lease = ex[e].lease /\ m.flight = NoAnswer
  BY <1>1, <1>4, <1>5 DEF Memories, Pcs, Beating, Driving, found, drains
<1>7. ex' = [ex EXCEPT ![e] = IF answer.held THEN m ELSE Idle]
  BY <1>3 DEF found, drains
<1> HIDE DEF m
<1>8. Becomes(e, m) \/ Becomes(e, Idle)
  BY <1>7 DEF Becomes
<1> QED BY <1>1, <1>6, <1>8, IdleMemory, BecomesMoves DEF QuietIn, HoldInv, Still

LEMMA FirstRenewalFailsMoves ==
  ASSUME HoldInv, NEW e \in Executors, FirstRenewalFails(e)
  PROVE  Moves(e) /\ Still(e)
<1> DEFINE m == [ex[e] EXCEPT !.pc = "returning"]
<1>1. ex[e] \in Memories /\ ex[e].pc = "claimed" /\ ex[e].flight = NoAnswer
  BY DEF HoldInv, RunTypeOK, FirstRenewalFails, Quiet
<1>2. m \in Memories /\ m.lease = ex[e].lease /\ m.flight = NoAnswer
  BY <1>1 DEF Memories, Pcs
<1>3. Becomes(e, m)
  BY DEF FirstRenewalFails, Becomes
<1> HIDE DEF m
<1> QED BY <1>1, <1>2, <1>3, BecomesMoves DEF HoldInv, Still

LEMMA BeatMoves ==
  ASSUME HoldInv, NEW e \in Executors, Beat(e)
  PROVE  Moves(e)
<1> DEFINE answer == [kind |-> "answer", a |-> Renewal(ex[e].lease, hasAck)]
           m(f) == [ex[e] EXCEPT !.flight = f]
<1>1. ex[e] \in Memories /\ ex[e].pc \in Beating
  BY DEF HoldInv, RunTypeOK, Beat
<1>2. answer \in Flights /\ Failed \in Flights
  BY <1>1, RenewalShape DEF HoldInv, LeaseInv, RunTypeOK, Owns, Flights, Beating, Driving
<1>3. \E f \in Flights : Becomes(e, m(f))
  BY <1>2 DEF Beat, Becomes
<1>4. \A f \in Flights : m(f) \in Memories /\ m(f).pc = ex[e].pc /\ m(f).lease = ex[e].lease
  BY <1>1 DEF Memories
<1> HIDE DEF m
<1> QED BY <1>1, <1>3, <1>4, BecomesMoves DEF HoldInv, Beating, Driving, QuietIn

LEMMA AnswerMoves ==
  ASSUME HoldInv, NEW e \in Executors, Answer(e)
  PROVE  Moves(e) /\ Still(e)
<1>1. ex[e] \in Memories /\ ex[e].pc \notin QuietIn
  BY DEF HoldInv, RunTypeOK, Answer, Quiet, QuietIn
<1>2. CASE ex[e].flight = Failed
  <2> DEFINE lost == ex[e].lost \/ (ex[e].pc \in Beating /\ ~StillBelieved(e))
             m == [ex[e] EXCEPT !.flight = NoAnswer, !.lost = lost]
  <2>1. lost \in BOOLEAN
    BY <1>1 DEF Memories
  <2>2. Becomes(e, m)
    BY <1>2 DEF Answer, Missed, Becomes
  <2> HIDE DEF lost
  <2>3. m \in Memories /\ m.pc = ex[e].pc /\ m.lease = ex[e].lease /\ m.flight = NoAnswer
    BY <1>1, <2>1 DEF Memories, Flights
  <2> HIDE DEF m
  <2> QED BY <1>1, <2>2, <2>3, BecomesMoves DEF HoldInv, Still, QuietIn
<1>3. CASE ex[e].flight # Failed
  <2> DEFINE answer == ex[e].flight.a
             noted == [Noted(ex[e], answer) EXCEPT !.flight = NoAnswer]
             drains == noted.draining \/ "drain" \in answer.signals
             cancels == noted.cancelled \/ Delivered(ex[e], answer)
             told == [noted EXCEPT !.draining = drains, !.cancelled = cancels]
             lost == [noted EXCEPT !.lost = TRUE]
             Like(m) == /\ m \in Memories /\ m.pc = ex[e].pc
                        /\ m.lease = ex[e].lease /\ m.flight = NoAnswer
  <2>1. Like(noted)
    BY <1>1 DEF Noted, Memories, Flights
  <2>2. drains \in BOOLEAN /\ cancels \in BOOLEAN
    BY <2>1 DEF Memories
  <2>3. Becomes(e, noted) \/ Becomes(e, lost) \/ Becomes(e, told)
    BY <1>3 DEF Answer, Answered, Becomes
  <2> HIDE DEF noted, drains, cancels
  <2>4. Like(lost) /\ Like(told)
    BY <2>1, <2>2 DEF Memories
  <2> HIDE DEF lost, told
  <2> QED BY <1>1, <2>1, <2>3, <2>4, BecomesMoves DEF HoldInv, Still, QuietIn
<1> QED BY <1>2, <1>3

LEMMA ClaimMoves ==
  ASSUME HoldInv, NEW e \in Executors, Claim(e)
  PROVE  /\ Still(e)
         /\ \/ ex' = ex
            \/ /\ ex' = [ex EXCEPT ![e] = ex'[e]] /\ ex'[e] \in Memories
               /\ ex'[e].pc = "claimed" /\ ex'[e].lease = Len(issued) + 1
               /\ ex'[e].flight = NoAnswer
<1> DEFINE n == Len(issued) + 1
           m == [Idle EXCEPT !.pc = "claimed", !.lease = n]
<1>1. n \in Nat
  BY IssuedShape DEF HoldInv, LeaseInv
<1>2. ex' = ex \/ Becomes(e, m)
  BY DEF Claim, Becomes
<1> HIDE DEF n
<1>3. m \in Memories /\ m.pc = "claimed" /\ m.lease = n /\ m.flight = NoAnswer
  BY <1>1, IdleMemory DEF Memories, Pcs, Idle
<1> HIDE DEF m
<1> QED BY <1>2, <1>3 DEF HoldInv, RunTypeOK, Becomes, Still, n

LEMMA ReadMoves ==
  ASSUME HoldInv, NEW e \in Executors, Read(e)
  PROVE  Moves(e) /\ Still(e)
<1>1. ex[e] \in Memories /\ ex[e].pc = "reading"
  BY DEF HoldInv, RunTypeOK, Read
<1> DEFINE m(phase) == [ex[e] EXCEPT !.pc = "collecting", !.rev = stored.rev, !.read = phase]
<1>2. Stopping(e) \/ \E phase \in {"fresh", "active", "terminal"} : Becomes(e, m(phase))
  BY DEF Read, HoldInv, RunTypeOK, Becomes
<1>3. \A phase \in {"fresh", "active", "terminal"} :
        /\ m(phase) \in Memories /\ m(phase).pc = "collecting"
        /\ m(phase).lease = ex[e].lease /\ m(phase).flight = ex[e].flight
  BY <1>1 DEF HoldInv, RunTypeOK, Memories, Pcs, Beating, Driving
<1> HIDE DEF m
<1> QED BY <1>1, <1>2, <1>3, BecomesMoves, StoppingMoves DEF HoldInv, Still, QuietIn

LEMMA DecidedMemory ==
  ASSUME NEW m \in Memories
  PROVE  /\ Decided(m) \in Memories /\ Decided(m).pc \in {"settling", "driving"}
         /\ Decided(m).lease = m.lease /\ Decided(m).flight = m.flight
         /\ Decided(m).consumed = m.consumed
  BY ZenonT(30) DEF Memories, Decided, Settling, Pcs, Beating, Driving

LEMMA CollectMoves ==
  ASSUME HoldInv, NEW e \in Executors,
         Collect(e) \/ CollectMoot(e) \/ CollectLost(e)
  PROVE  Moves(e) /\ Still(e)
<1>1. ex[e] \in Memories /\ ex[e].pc = "collecting"
  BY DEF HoldInv, RunTypeOK, Collect, CollectMoot, CollectLost
<1> DEFINE d == Decided(ex[e])
           kept == ex[e].found = "kept"
           consumed == d.consumed \/ ex[e].found = "consumed"
           c == [d EXCEPT !.cancelled = TRUE, !.kept = kept, !.consumed = consumed]
           t == [Settling(ex[e]) EXCEPT !.collected = TRUE]
           Like(m) == /\ m \in Memories /\ m.pc \in {"settling", "driving"}
                      /\ m.lease = ex[e].lease /\ m.flight = ex[e].flight
<1>2. Like(d)
  BY <1>1, DecidedMemory
<1>3. kept \in BOOLEAN /\ consumed \in BOOLEAN
  OBVIOUS
<1>4. Like(t)
  BY ZenonT(30), <1>1, SettlingMemory DEF Memories
<1>5. Stopping(e) \/ Becomes(e, d) \/ Becomes(e, c) \/ Becomes(e, t)
  BY DEF Collect, CollectMoot, CollectLost, Becomes
<1> HIDE DEF d, kept, consumed, t
<1>6. Like(c)
  BY <1>2, <1>3 DEF Memories
<1> HIDE DEF c
<1> QED BY <1>1, <1>2, <1>4, <1>5, <1>6, BecomesMoves, StoppingMoves DEF HoldInv, Still, QuietIn

LEMMA DriveMoves ==
  ASSUME HoldInv, NEW e \in Executors,
         Save(e) \/ Decide(e) \/ Drain(e) \/ Commit(e) \/ StopBeat(e)
  PROVE  Moves(e) /\ Still(e)
<1>1. ex[e] \in Memories /\ ex[e].pc \in {"driving", "committing", "settling"}
  BY DEF HoldInv, RunTypeOK, Save, Decide, Drain, Commit, StopBeat
<1> DEFINE a == [ex[e] EXCEPT !.rev = @ + 1]
           b(ends) == [ex[e] EXCEPT !.pc = "committing", !.ends = ends]
           recorded == ex[e].ends = "terminal"
           c == [Settling(ex[e]) EXCEPT !.recorded = recorded]
           d == [ex[e] EXCEPT !.pc = "stopping"]
           Like(m) == /\ m \in Memories /\ m.pc \notin QuietIn
                      /\ m.lease = ex[e].lease /\ m.flight = ex[e].flight
<1>2. \/ Stopping(e) \/ Becomes(e, a) \/ Becomes(e, c) \/ Becomes(e, d)
      \/ \E ends \in {"terminal", "active"} : Becomes(e, b(ends))
  BY DEF Save, Decide, Drain, Commit, StopBeat, Becomes
<1>3. recorded \in BOOLEAN
  OBVIOUS
<1> HIDE DEF recorded
<1>4. Like(a) /\ Like(d) /\ \A ends \in {"terminal", "active"} : Like(b(ends))
  <2>1. ex[e].rev + 1 \in Nat /\ {"committing", "stopping"} \subseteq Pcs \ QuietIn
    BY <1>1 DEF Memories, Pcs, Beating, Driving, QuietIn
  <2>2. Like(a)
    BY <1>1, <2>1 DEF Memories, QuietIn
  <2>3. Like(d)
    BY <1>1, <2>1 DEF Memories
  <2>4. ASSUME NEW ends \in {"terminal", "active"} PROVE Like(b(ends))
    BY <1>1, <2>1 DEF Memories
  <2> QED BY <2>2, <2>3, <2>4
<1>5. Like(c)
  BY <1>1, <1>3, SettlingMemory DEF Memories, QuietIn
<1> HIDE DEF a, b, c, d
<1> QED BY <1>1, <1>2, <1>4, <1>5, BecomesMoves, StoppingMoves DEF HoldInv, Still

LEMMA EndMoves ==
  ASSUME HoldInv, NEW e \in Executors, End(e) \/ Return(e) \/ Crash(e)
  PROVE  Moves(e) /\ Still(e)
<1>1. ex[e] \in Memories /\ ex[e].pc # "idle"
  BY DEF HoldInv, RunTypeOK, End, Return, Crash
<1> DEFINE lease == ex[e].lease
           lost == ex[e].lost
           m == [Idle EXCEPT !.pc = "returning", !.lease = lease, !.lost = lost]
<1>2. Becomes(e, Idle) \/ Becomes(e, m)
  BY DEF End, Return, Crash, Becomes
<1>3. lease \in Nat /\ lost \in BOOLEAN
  BY <1>1 DEF Memories
<1> HIDE DEF lease, lost
<1>4. m \in Memories /\ m.lease = lease /\ m.flight = NoAnswer
  BY <1>3, IdleMemory DEF Memories, Idle, Pcs
<1> HIDE DEF m
<1> QED BY <1>1, <1>2, <1>4, IdleMemory, BecomesMoves DEF HoldInv, Still, lease

-----------------------------------------------------------------------------
(* What an executor's step does to the key. *)

\* A holder takes note of an expiry, or of nothing at all.
Believes(g, t) ==
  believed' = [believed EXCEPT ![g] = t] /\ UNCHANGED <<now, row, issued, era, owed, drainFor>>

LEMMA BelievesInv ==
  ASSUME LeaseInv, NEW g \in Grants, NEW t \in Expiries, Believes(g, t)
  PROVE  LeaseInv'
<1>1. /\ believed' \in Seq(Expiries) /\ Len(believed') = Len(believed)
      /\ UNCHANGED <<now, row, issued, era, owed, drainFor>> /\ Grants' = Grants
  BY BelievedChanges DEF LeaseInv, Believes, Expiries, Grants
<1> QED BY <1>1 DEF LeaseInv, LeaseTypeOK, RowIsIssued, TokensGrow, Expiries

LEMMA OwnLease ==
  ASSUME HoldInv, NEW e \in Executors, ex[e].pc # "idle"
  PROVE  ex[e].lease \in Grants /\ issued[ex[e].lease].owner = e /\ hasAck \in BOOLEAN
  BY DEF HoldInv, Owns, RunTypeOK

LEMMA FirstRenewalKey ==
  ASSUME HoldInv, NEW e \in Executors, FirstRenewal(e)
  PROVE  Renew(ex[e].lease, hasAck)
<1> DEFINE g == ex[e].lease
<1>1. g \in Grants /\ hasAck \in BOOLEAN
  BY OwnLease DEF FirstRenewal
<1>2. /\ Renewal(g, hasAck).held <=> Renewable(g)
      /\ Renewable(g) => Renewal(g, hasAck).until = now + Ttl
  BY <1>1, RenewalShape DEF HoldInv, LeaseInv
<1>3. /\ Renewed(g, hasAck) /\ UNCHANGED <<now, issued, era, drainFor>>
      /\ believed' = IF Renewal(g, hasAck).held
                     THEN [believed EXCEPT ![g] = Renewal(g, hasAck).until] ELSE believed
  BY DEF FirstRenewal
<1>4. believed' = IF TRUE /\ Renewable(g) THEN [believed EXCEPT ![g] = now + Ttl] ELSE believed
  BY <1>2, <1>3
<1> QED BY <1>3, <1>4 DEF Renew

LEMMA SilentRenewal ==
  ASSUME NEW g \in Grants, NEW acknowledge \in BOOLEAN, Renewed(g, acknowledge),
         UNCHANGED <<now, issued, era, drainFor, believed>>
  PROVE  Renew(g, acknowledge)
<1>1. believed' = IF FALSE /\ Renewable(g) THEN [believed EXCEPT ![g] = now + Ttl] ELSE believed
  OBVIOUS
<1> QED BY <1>1 DEF Renew

LEMMA BeatKey ==
  ASSUME HoldInv, NEW e \in Executors, Beat(e) \/ FirstRenewalFails(e)
  PROVE  Renew(ex[e].lease, hasAck) \/ UNCHANGED leaseVars
<1>1. ex[e].lease \in Grants /\ hasAck \in BOOLEAN
  BY OwnLease DEF Beat, FirstRenewalFails, Beating, Driving
<1>2. /\ UNCHANGED <<now, issued, era, drainFor, believed>>
      /\ Renewed(ex[e].lease, hasAck) \/ UNCHANGED <<row, owed>>
  BY DEF Beat, FirstRenewalFails
<1> QED BY <1>1, <1>2, SilentRenewal DEF leaseVars

LEMMA AnswerKey ==
  ASSUME HoldInv, NEW e \in Executors, Answer(e)
  PROVE  \/ UNCHANGED leaseVars
         \/ /\ Promised(e) /\ ex[e].flight.a.until \in Expiries
            /\ Believes(ex[e].lease, ex[e].flight.a.until)
<1>1. ex[e].flight \in Flights /\ ex[e].flight # NoAnswer
  BY DEF HoldInv, RunTypeOK, Memories, Answer
<1>2. UNCHANGED <<now, row, issued, era, owed, drainFor>>
  BY DEF Answer
<1>3. CASE ex[e].flight = Failed
  BY <1>2, <1>3 DEF Answer, Missed, leaseVars
<1>4. CASE ex[e].flight # Failed
  <2>1. ex[e].flight.kind = "answer" /\ ex[e].flight.a \in Answers
    BY <1>1, <1>4 DEF Flights
  <2>2. \/ UNCHANGED believed
        \/ /\ ex[e].flight.a.held
           /\ believed' = [believed EXCEPT ![ex[e].lease] = ex[e].flight.a.until]
    BY <1>4 DEF Answer, Answered, Loses, Extended
  <2> QED BY <1>2, <2>1, <2>2 DEF Promised, Believes, Answers, leaseVars
<1> QED BY <1>3, <1>4

LEMMA EndKey ==
  ASSUME HoldInv, NEW e \in Executors, End(e) \/ CollectMoot(e)
  PROVE  Ack(ex[e].lease) \/ Signal("cancel") \/ UNCHANGED leaseVars
  BY DEF End, CollectMoot, CancelAgain

LEMMA ReturnKey ==
  ASSUME HoldInv, NEW e \in Executors, Return(e) \/ Crash(e)
  PROVE  \/ Release(ex[e].lease) /\ ex[e].pc = "returning"
         \/ Believes(ex[e].lease, 0)
  BY DEF Return, Crash, Believes

LEMMA OtherKey ==
  ASSUME NEW e \in Executors,
         \/ Read(e) \/ Collect(e) \/ CollectLost(e) \/ Save(e) \/ Decide(e)
         \/ Drain(e) \/ Commit(e) \/ StopBeat(e)
  PROVE  UNCHANGED leaseVars
  BY DEF Read, Collect, CollectLost, Save, Decide, Drain, Commit, StopBeat

-----------------------------------------------------------------------------
(* Leases stay fenced, and executors keep to theirs. *)

Others(e) ==
  \/ FirstRenewal(e) \/ FirstRenewalFails(e) \/ Beat(e) \/ Answer(e) \/ Read(e) \/ Collect(e)
  \/ CollectMoot(e) \/ CollectLost(e) \/ Save(e) \/ Decide(e) \/ Drain(e) \/ Commit(e)
  \/ StopBeat(e) \/ End(e) \/ Return(e) \/ Crash(e)

World == (\E s \in Sent : Send(s)) \/ RunTick \/ \E before \in 1..(MaxClock + Ttl) : RunPrune(before)

LEMMA OthersMove ==
  ASSUME HoldInv, NEW e \in Executors, Others(e)
  PROVE  Moves(e) /\ ex[e].pc # "idle"
<1>1. ex[e].pc # "idle"
  BY DEF Others, FirstRenewal, FirstRenewalFails, Beat, Answer, Read, Collect, CollectMoot,
         CollectLost, Save, Decide, Drain, Commit, StopBeat, End, Return, Crash,
         HoldInv, Quiet, Beating, Driving
<1> QED BY <1>1, FirstRenewalMoves, FirstRenewalFailsMoves, BeatMoves, AnswerMoves, ReadMoves,
           CollectMoves, DriveMoves, EndMoves DEF Others

LEMMA WorldKey ==
  ASSUME World
  PROVE  LeaseNext /\ UNCHANGED ex
<1>1. ASSUME NEW s \in Sent, Send(s) PROVE LeaseNext /\ UNCHANGED ex
  BY <1>1, RunAssumption DEF Send, LeaseNext
<1>2. CASE RunTick
  BY <1>2 DEF RunTick, LeaseNext
<1>3. ASSUME NEW before \in 1..(MaxClock + Ttl), RunPrune(before) PROVE LeaseNext /\ UNCHANGED ex
  BY <1>3 DEF RunPrune, LeaseNext
<1> QED BY <1>1, <1>2, <1>3 DEF World

\* A holder learns what it was promised, or gives up.
Credible(g, t) ==
  t = 0 \/ \E e \in Executors : Promised(e) /\ g = ex[e].lease /\ t = ex[e].flight.a.until

(* Every step on the key is the provider's, or a belief. *)
LEMMA KeyStep ==
  ASSUME HoldInv, RunNext
  PROVE  [LeaseNext]_leaseVars \/ \E g \in Grants, t \in Expiries : Believes(g, t) /\ Credible(g, t)
<1>1. CASE World
  BY <1>1, WorldKey
<1>2. ASSUME NEW e \in Executors, Claim(e) PROVE LeaseNext
  BY <1>2 DEF Claim, LeaseNext, Executors
<1>3. ASSUME NEW e \in Executors, Others(e)
      PROVE  \/ [LeaseNext]_leaseVars
             \/ \E g \in Grants, t \in Expiries : Believes(g, t) /\ Credible(g, t)
  <2>1. ex[e].lease \in Grants /\ hasAck \in BOOLEAN
    BY <1>3, OwnLease, OthersMove
  <2>2. 0 \in Expiries
    BY LeaseAssumption DEF Expiries
  <2>3. ASSUME Renew(ex[e].lease, hasAck) PROVE LeaseNext
    BY <2>1, <2>3 DEF LeaseNext
  <2>4. ASSUME Ack(ex[e].lease) \/ Release(ex[e].lease) PROVE LeaseNext
    BY <2>1, <2>4 DEF LeaseNext
  <2>5. ASSUME Signal("cancel") PROVE LeaseNext
    BY <2>5 DEF LeaseNext, Signals
  <2>6. CASE FirstRenewal(e) \/ FirstRenewalFails(e) \/ Beat(e)
    BY <2>3, <2>6, FirstRenewalKey, BeatKey
  <2>7. CASE Answer(e)
    BY <2>1, <2>7, AnswerKey DEF Credible
  <2>8. CASE End(e) \/ CollectMoot(e)
    BY <2>4, <2>5, <2>8, EndKey
  <2>9. CASE Return(e) \/ Crash(e)
    BY <2>1, <2>2, <2>4, <2>9, ReturnKey DEF Credible
  <2> QED BY <1>3, <2>6, <2>7, <2>8, <2>9, OtherKey DEF Others
<1> QED BY <1>1, <1>2, <1>3 DEF RunNext, Acts, Others, World

\* Leases are handed out, and never change.
LEMMA IssuedGrows ==
  ASSUME LeaseInv, [LeaseNext]_leaseVars \/ \E g \in Grants, t \in Expiries : Believes(g, t)
  PROVE  \A g \in Grants : g \in Grants' /\ issued'[g] = issued[g]
<1>1. ASSUME NEW o \in Owners, Acquire(o)
      PROVE  \A g \in Grants : g \in Grants' /\ issued'[g] = issued[g]
  <2>1. issued \in Seq(Leases) /\ issued' = Append(issued, [owner |-> o, token |-> NextToken, era |-> era])
    BY <1>1 DEF LeaseInv, LeaseTypeOK, Acquire
  <2>2. issued' \in Seq(Leases)
    BY <1>1, AcquireInv DEF LeaseInv, LeaseTypeOK
  <2> QED BY <2>1, <2>2, LenProperties DEF Grants
<1>2. CASE UNCHANGED issued
  BY <1>2 DEF Grants
<1> QED BY <1>1, <1>2 DEF LeaseNext, Renew, Release, Ack, Signal, Prune, Tick, leaseVars, Believes

(* Only a save changes the stored run. *)
LEMMA StoredMoves ==
  ASSUME HoldInv, RunNext
  PROVE  /\ hasAck' = hasAck /\ asked' \in BOOLEAN
         /\ \/ UNCHANGED stored
            \/ \E e \in Executors, phase \in {"terminal", "active"} :
                 Fenced(e) /\ stored' = [phase |-> phase, rev |-> ex[e].rev + 1]
<1> DEFINE Typed == hasAck' = hasAck /\ asked' \in BOOLEAN
           Overwrites(e) == \E phase \in {"terminal", "active"} :
                        Fenced(e) /\ stored' = [phase |-> phase, rev |-> ex[e].rev + 1]
<1>1. asked \in BOOLEAN
  BY DEF HoldInv, RunTypeOK
<1>2. CASE World
  BY <1>1, <1>2 DEF World, Send, RunTick, RunPrune, Fine, faulty, run
<1>3. ASSUME NEW e \in Executors, Claim(e) PROVE Typed /\ UNCHANGED stored
  BY <1>1, <1>3 DEF Claim, FineOrFault, Fine, Fault, faulty, run
<1>4. ASSUME NEW e \in Executors, Others(e), ~Save(e), ~Commit(e) PROVE Typed /\ UNCHANGED stored
  BY <1>1, <1>4 DEF Others, FirstRenewal, FirstRenewalFails, Beat, Answer, Read, Collect, CollectMoot,
         CollectLost, Decide, Drain, StopBeat, End, Return, Crash, Fine, Fault, faulty, run
<1>5. ASSUME NEW e \in Executors, Save(e) PROVE Typed /\ (UNCHANGED stored \/ Overwrites(e))
  BY <1>1, <1>5 DEF Save, Saved, Writes, Fine, Fault, faulty, run
<1>6. ASSUME NEW e \in Executors, Commit(e) PROVE Typed /\ (UNCHANGED stored \/ Overwrites(e))
  <2>1. ex[e].ends \in {"terminal", "active"}
    BY DEF HoldInv, RunTypeOK, Memories
  <2> QED BY <1>1, <1>6, <2>1 DEF Commit, Saved, Writes, Fine, Fault, faulty, run
<1> QED BY <1>2, <1>3, <1>4, <1>5, <1>6 DEF RunNext, Acts, Others, World

LEMMA RunTypeStep ==
  ASSUME HoldInv, RunNext
  PROVE  RunTypeOK'
<1>1. hasAck' \in BOOLEAN /\ asked' \in BOOLEAN
  BY StoredMoves DEF HoldInv, RunTypeOK
<1>2. stored' \in [phase : {"none", "active", "terminal"}, rev : Nat]
  <2>1. \A e \in Executors : ex[e].rev + 1 \in Nat
    BY DEF HoldInv, RunTypeOK, Memories
  <2> QED BY <2>1, StoredMoves DEF HoldInv, RunTypeOK
<1>3. ex' \in [Executors -> Memories]
  <2>0. ex \in [Executors -> Memories]
    BY DEF HoldInv, RunTypeOK
  <2>1. CASE World
    BY <2>0, <2>1, WorldKey
  <2>2. ASSUME NEW e \in Executors, Claim(e) PROVE ex' \in [Executors -> Memories]
    BY <2>0, <2>2, ClaimMoves
  <2>3. ASSUME NEW e \in Executors, Others(e) PROVE ex' \in [Executors -> Memories]
    BY <2>0, <2>3, OthersMove DEF Moves
  <2> QED BY <2>1, <2>2, <2>3 DEF RunNext, Acts, Others, World
<1> QED BY <1>1, <1>2, <1>3 DEF RunTypeOK

(* A claim hands the executor a lease of its own. *)
LEMMA ClaimOwns ==
  ASSUME HoldInv, NEW e \in Executors, Claim(e)
  PROVE  /\ Len(issued) + 1 \in Grants' /\ issued'[Len(issued) + 1].owner = e
         /\ Len(issued) + 1 \notin Grants
<1> DEFINE n == Len(issued) + 1
<1>1. issued \in Seq(Leases) /\ Acquire(e)
  BY DEF HoldInv, LeaseInv, LeaseTypeOK, Claim
<1>2. LeaseTypeOK' /\ e \in Owners
  BY <1>1, AcquireInv DEF HoldInv, LeaseInv, Executors
<1>3. issued' = Append(issued, [owner |-> e, token |-> NextToken, era |-> era])
  BY <1>1 DEF Acquire
<1>4. Len(issued') = n /\ issued'[n] = [owner |-> e, token |-> NextToken, era |-> era]
  BY <1>1, <1>3
<1>5. n \in Grants'
  BY <1>2, <1>4, LenProperties DEF LeaseTypeOK, Grants
<1>6. Grants = 1..Len(issued) /\ Len(issued) \in Nat
  BY IssuedShape DEF HoldInv, LeaseInv
<1> QED BY <1>4, <1>5, <1>6

LEMMA HoldStep ==
  ASSUME HoldInv, [RunNext]_runVars
  PROVE  HoldInv'
<1>1. CASE UNCHANGED runVars
  BY <1>1, StepInv DEF runVars, HoldInv, RunTypeOK, Owns, Quiet, Grants, leaseVars
<1>2. CASE RunNext
  <2>1. LeaseInv'
    BY <1>2, KeyStep, StepInv, BelievesInv DEF HoldInv
  <2>2. RunTypeOK'
    BY <1>2, RunTypeStep
  <2>3. \A g \in Grants : g \in Grants' /\ issued'[g] = issued[g]
    BY <1>2, KeyStep, IssuedGrows DEF HoldInv
  <2>4. ASSUME NEW d \in Executors, ex'[d] = ex[d]
        PROVE  /\ ex'[d].pc # "idle" => ex'[d].lease \in Grants' /\ issued'[ex'[d].lease].owner = d
               /\ ex'[d].pc \in QuietIn => ex'[d].flight = NoAnswer
    BY <2>3, <2>4 DEF HoldInv, Owns, Quiet, QuietIn
  <2>5. ASSUME NEW e \in Executors, Claim(e)
        PROVE  /\ ex'[e].pc # "idle" => ex'[e].lease \in Grants' /\ issued'[ex'[e].lease].owner = e
               /\ ex'[e].pc \in QuietIn => ex'[e].flight = NoAnswer
               /\ \A d \in Executors : d # e => ex'[d] = ex[d]
    BY <2>4, <2>5, ClaimMoves, ClaimOwns DEF HoldInv, RunTypeOK
  <2>6. ASSUME NEW e \in Executors, Others(e)
        PROVE  /\ ex'[e].pc # "idle" => ex'[e].lease \in Grants' /\ issued'[ex'[e].lease].owner = e
               /\ ex'[e].pc \in QuietIn => ex'[e].flight = NoAnswer
               /\ \A d \in Executors : d # e => ex'[d] = ex[d]
    <3>1. Moves(e)
      BY <2>6, OthersMove
    <3> QED BY <2>3, <3>1 DEF Moves, HoldInv, Owns, RunTypeOK
  <2>7. CASE World
    BY <2>1, <2>2, <2>4, <2>7, WorldKey DEF HoldInv, Owns, Quiet, QuietIn
  <2>8. ASSUME NEW e \in Executors, Claim(e) \/ Others(e) PROVE Owns' /\ Quiet'
    <3>1. \A d \in Executors :
            /\ ex'[d].pc # "idle" => ex'[d].lease \in Grants' /\ issued'[ex'[d].lease].owner = d
            /\ ex'[d].pc \in QuietIn => ex'[d].flight = NoAnswer
      BY <2>4, <2>5, <2>6, <2>8
    <3> QED BY <3>1 DEF Owns, Quiet, QuietIn
  <2> QED BY <1>2, <2>1, <2>2, <2>7, <2>8 DEF HoldInv, RunNext, Acts, Others, World
<1> QED BY <1>1, <1>2

LEMMA HoldInit == RunInit => HoldInv
<1> SUFFICES ASSUME RunInit PROVE HoldInv
  OBVIOUS
<1>1. LeaseInv
  BY InitInv DEF RunInit
<1>2. RunTypeOK
  BY IdleMemory, RunAssumption DEF RunInit, RunTypeOK
<1>3. \A e \in Executors : ex[e] = Idle
  BY DEF RunInit
<1>4. Owns /\ Quiet
  BY <1>3, IdleMemory DEF Owns, Quiet
<1> QED BY <1>1, <1>2, <1>4 DEF HoldInv

\* An executor uses a lease it was handed, and every variable keeps its type.
THEOREM Holding == RunSpec => []HoldInv
  BY HoldInit, HoldStep, PTL DEF RunSpec

-----------------------------------------------------------------------------
(* Promises stand, and who trusts one is alone, when names are used once. *)

(* A belief that is promised, or given up, leaves its holder alone. *)
LEMMA AloneBelief ==
  ASSUME AloneInv, NEW g \in Grants, NEW t \in Expiries, Believes(g, t),
         t = 0 \/ (t <= now + Ttl /\ Stands(g, t))
  PROVE  AloneInv'
<1>1. UNCHANGED <<now, row, issued>> /\ Grants' = Grants
  BY DEF Believes, Grants
<1>2. \A h \in Grants : believed'[h] = IF h = g THEN t ELSE believed[h]
  BY BelievedChanges DEF Believes, Expiries, AloneInv, LeaseInv
<1>3. now \in Nat /\ now > 0 /\ Ttl \in Nat
  BY BelievedNumbers DEF AloneInv, LeaseInv
<1>4. LeaseInv'
  BY BelievesInv DEF AloneInv
<1>5. NamesOnce'
  BY <1>1 DEF AloneInv, NamesOnce
<1>6. BeliefBound'
  BY <1>1, <1>2, <1>3 DEF AloneInv, BeliefBound
<1>7. HolderIsAlone'
  BY <1>1, <1>2, <1>3 DEF AloneInv, HolderIsAlone, Stands
<1> QED BY <1>4, <1>5, <1>6, <1>7 DEF AloneInv

LEMMA AloneMoves ==
  ASSUME FreshOwners, TrustInv, RunNext
  PROVE  AloneInv'
<1>1. CASE [LeaseNext]_leaseVars
  BY <1>1, StepInv, AloneStep DEF TrustInv, AloneInv
<1>2. ASSUME NEW g \in Grants, NEW t \in Expiries, Believes(g, t), Credible(g, t)
      PROVE  AloneInv'
  BY <1>2, AloneBelief DEF Credible, TrustInv, PromisesStand, PromiseStands
<1> QED BY <1>1, <1>2, KeyStep DEF TrustInv

\* A step on the key that does not give this lease back.
KeepsLease(g) ==
  \/ \E o \in Owners : Acquire(o)
  \/ \E h \in Grants : \/ \E acknowledge \in BOOLEAN : Renew(h, acknowledge)
                       \/ h # g /\ Release(h)
                       \/ Ack(h)
                       \/ \E t \in Expiries : Believes(h, t)
  \/ \E s \in Signals : Signal(s)
  \/ \E before \in 1..(MaxClock + Ttl) : Prune(before)
  \/ Tick \/ UNCHANGED leaseVars

(* What was promised still stands, unless the holder itself gives it back. *)
LEMMA StandsStep ==
  ASSUME TrustInv, NEW g \in Grants, NEW t \in Expiries,
         t <= now + Ttl, Stands(g, t), KeepsLease(g)
  PROVE  t <= now' + Ttl /\ Stands(g, t)'
<1>0. LeaseInv /\ LeaseTypeOK /\ AloneInv
  BY DEF TrustInv, HoldInv, LeaseInv
<1>1. now \in Nat /\ Ttl \in Nat /\ t \in Nat /\ (row # NoRow => row.expiresAt \in Nat)
  BY <1>0, BelievedNumbers, LeaseAssumption DEF Expiries
<1>2. UNCHANGED now \/ now' = now + 1
  BY DEF KeepsLease, Acquire, Renew, Release, Ack, Signal, Prune, Tick, Believes, leaseVars
<1>3. t <= now' + Ttl
  BY <1>1, <1>2
<1>4. SUFFICES ASSUME t > now'
               PROVE  row' # NoRow /\ row'.grant = g /\ row'.expiresAt >= t
  BY <1>3 DEF Stands
<1>5. row # NoRow /\ row.grant = g /\ row.expiresAt >= t /\ row.expiresAt > now
  BY <1>1, <1>2, <1>4 DEF Stands
<1>6. CASE UNCHANGED row
  BY <1>5, <1>6
<1>7. ASSUME NEW o \in Owners, Acquire(o) PROVE FALSE
  BY <1>5, <1>7 DEF Acquire, Acquirable, Held
<1>8. ASSUME NEW h \in Grants, NEW acknowledge \in BOOLEAN, Renew(h, acknowledge)
      PROVE  row' # NoRow /\ row'.grant = g /\ row'.expiresAt >= t
  <2>1. SameRow
    BY <1>0, <1>8, RenewedKeeps DEF Renew
  <2>2. CASE Renewable(h)
    <3>1. row'.expiresAt = now + Ttl
      BY <1>8, <2>2 DEF Renew, Renewed, Row
    <3> QED BY <1>1, <1>5, <2>1, <3>1 DEF SameRow
  <2>3. CASE ~Renewable(h)
    BY <1>5, <1>8, <2>3 DEF Renew, Renewed
  <2> QED BY <2>2, <2>3
<1>9. ASSUME NEW h \in Grants, h # g, Release(h) PROVE UNCHANGED row
  <2>1. ~SameHolder(h)
    BY <1>0, <1>5, <1>9, SameIsLast
  <2> QED BY <1>9, <2>1 DEF Release, Released
<1>10. ASSUME NEW h \in Grants, Ack(h)
       PROVE  row' # NoRow /\ row'.grant = g /\ row'.expiresAt >= t
  BY <1>0, <1>5, <1>10, AckedKeeps DEF Ack, SameRow
<1>11. ASSUME NEW s \in Signals, Signal(s)
       PROVE  row' # NoRow /\ row'.grant = g /\ row'.expiresAt >= t
  BY <1>0, <1>5, <1>11, SignalKeeps DEF SameRow
<1>12. ASSUME NEW before \in 1..(MaxClock + Ttl), Prune(before) PROVE FALSE
  BY <1>1, <1>5, <1>12 DEF Prune, Prunable
<1>13. Tick \/ UNCHANGED leaseVars \/ (\E h \in Grants, e \in Expiries : Believes(h, e)) => UNCHANGED row
  BY DEF Tick, leaseVars, Believes
<1> QED BY <1>6, <1>7, <1>8, <1>9, <1>10, <1>11, <1>12, <1>13 DEF KeepsLease

LEMMA WorldKeeps ==
  ASSUME World, NEW g
  PROVE  KeepsLease(g)
<1>1. ASSUME NEW s \in Sent, Send(s) PROVE KeepsLease(g)
  BY <1>1, RunAssumption DEF Send, KeepsLease
<1>2. CASE RunTick
  BY <1>2 DEF RunTick, KeepsLease
<1>3. ASSUME NEW before \in 1..(MaxClock + Ttl), RunPrune(before) PROVE KeepsLease(g)
  BY <1>3 DEF RunPrune, KeepsLease
<1> QED BY <1>1, <1>2, <1>3 DEF World

LEMMA ExecutorKeeps ==
  ASSUME HoldInv, NEW e \in Executors, Claim(e) \/ Others(e),
         NEW g, ex[e].pc = "returning" => ex[e].lease # g
  PROVE  KeepsLease(g)
<1>1. CASE Claim(e)
  BY <1>1 DEF Claim, KeepsLease, Executors
<1>2. CASE Others(e)
  <2>1. ex[e].lease \in Grants /\ hasAck \in BOOLEAN
    BY <1>2, OwnLease, OthersMove
  <2>2. 0 \in Expiries
    BY LeaseAssumption DEF Expiries
  <2>3. CASE FirstRenewal(e) \/ FirstRenewalFails(e) \/ Beat(e)
    BY <2>1, <2>3, FirstRenewalKey, BeatKey DEF KeepsLease
  <2>4. CASE Answer(e)
    BY <2>1, <2>4, AnswerKey DEF KeepsLease
  <2>5. CASE End(e) \/ CollectMoot(e)
    BY <2>1, <2>5, EndKey DEF KeepsLease, Signals
  <2>6. CASE Return(e) \/ Crash(e)
    BY <2>1, <2>2, <2>6, ReturnKey DEF KeepsLease
  <2> QED BY <1>2, <2>3, <2>4, <2>5, <2>6, OtherKey DEF Others, KeepsLease
<1> QED BY <1>1, <1>2

(* A renewal that finds the lease held promises it anew. *)
LEMMA NewPromise ==
  ASSUME TrustInv, NEW e \in Executors, Beat(e), Promised(e)'
  PROVE  /\ ex'[e].flight.a.until = now + Ttl /\ now' = now
         /\ ex'[e].lease = ex[e].lease
         /\ row' # NoRow /\ row'.grant = ex[e].lease /\ row'.expiresAt = now + Ttl
<1> DEFINE g == ex[e].lease
           answer == [kind |-> "answer", a |-> Renewal(g, hasAck)]
<1>1. ex[e] \in Memories /\ ex \in [Executors -> Memories] /\ HoldInv /\ LeaseTypeOK
  BY DEF TrustInv, HoldInv, RunTypeOK, LeaseInv
<1>2. g \in Grants /\ hasAck \in BOOLEAN /\ ex[e].pc # "idle"
  BY <1>1, OwnLease DEF Beat, Beating, Driving
<1>3. ex'[e].flight # Failed
  BY DEF Promised, Failed
<1>4. /\ Renewed(g, hasAck) /\ ex' = [ex EXCEPT ![e].flight = answer]
      /\ now' = now
  <2>1. ASSUME ex' = [ex EXCEPT ![e].flight = Failed] PROVE ex'[e].flight = Failed
    BY <1>1, <2>1 DEF Memories
  <2> QED BY <1>3, <2>1 DEF Beat
<1>5. ex'[e].flight = answer /\ ex'[e].lease = g
  BY <1>1, <1>4 DEF Memories
<1>6. Renewal(g, hasAck).held
  BY <1>5 DEF Promised
<1>7. Renewable(g) /\ Renewal(g, hasAck).until = now + Ttl
  BY <1>1, <1>2, <1>6, RenewalShape
<1>8. g = row.grant /\ row # NoRow
  BY <1>2, <1>7, SameIsLast DEF Renewable, SameHolder, TrustInv
<1>9. SameRow
  BY <1>1, <1>2, <1>4, RenewedKeeps
<1>10. row'.expiresAt = now + Ttl
  BY <1>4, <1>7 DEF Renewed, Row
<1> QED BY <1>4, <1>5, <1>7, <1>8, <1>9, <1>10 DEF SameRow

(* An executor that was promised its lease has it, and until a time. *)
LEMMA PromisedShape ==
  ASSUME HoldInv, NEW d \in Executors, Promised(d)
  PROVE  /\ ex[d].lease \in Grants /\ issued[ex[d].lease].owner = d
         /\ ex[d].flight.a.until \in Expiries
         /\ ex[d].pc # "returning"
<1>1. ex[d] \in Memories
  BY DEF HoldInv, RunTypeOK
<1>2. ex[d].flight # NoAnswer
  BY DEF Promised, NoAnswer
<1>3. ex[d].pc # "idle" /\ ex[d].pc # "returning"
  BY <1>2 DEF HoldInv, Quiet
<1>4. ex[d].flight \in [kind : {"answer"}, a : Answers]
  BY <1>1, <1>2 DEF Memories, Flights, Promised, Failed
<1> QED BY <1>3, <1>4, OwnLease DEF Answers

(* An executor's step leaves the others, and itself, the promises they have. *)
LEMMA PromiseKept ==
  ASSUME TrustInv, NEW d \in Executors, Promised(d),
         NEW e \in Executors, Claim(e) \/ Others(e),
         ex'[d].flight = ex[d].flight, ex'[d].lease = ex[d].lease
  PROVE  PromiseStands(d)'
<1> DEFINE g == ex[d].lease
           t == ex[d].flight.a.until
<1>1. g \in Grants /\ issued[g].owner = d /\ t \in Expiries /\ ex[d].pc # "returning"
  BY PromisedShape DEF TrustInv
<1>2. t <= now + Ttl /\ Stands(g, t)
  BY DEF TrustInv, PromisesStand, PromiseStands
<1>3. ex[e].pc = "returning" => ex[e].lease # g
  <2> SUFFICES ASSUME ex[e].pc = "returning", ex[e].lease = g PROVE FALSE
    OBVIOUS
  <2>1. issued[g].owner = e
    BY OwnLease DEF TrustInv
  <2> QED BY <1>1, <2>1
<1>4. KeepsLease(g)
  BY <1>3, ExecutorKeeps DEF TrustInv
<1>5. t <= now' + Ttl /\ (t > now' => row' # NoRow /\ row'.grant = g /\ row'.expiresAt >= t)
  BY <1>1, <1>2, <1>4, StandsStep DEF Stands
<1> QED BY <1>5 DEF Stands, PromiseStands

LEMMA PromisesMove ==
  ASSUME TrustInv, RunNext
  PROVE  PromisesStand'
<1> SUFFICES ASSUME NEW d \in Executors, Promised(d)'
             PROVE  PromiseStands(d)'
  BY DEF PromisesStand
<1>0. HoldInv /\ ex \in [Executors -> Memories]
  BY DEF TrustInv, HoldInv, RunTypeOK
<1>a. now' = now /\ now \in Nat /\ Ttl \in Nat => now + Ttl <= now' + Ttl
  OBVIOUS
<1>b. now \in Nat /\ Ttl \in Nat
  BY BelievedNumbers DEF TrustInv, HoldInv, LeaseInv
<1>c. ex'[d].flight # NoAnswer /\ ex'[d].flight # Failed
  BY DEF Promised, NoAnswer, Failed
<1>1. CASE World
  <2>1. ex' = ex /\ Promised(d)
    BY <1>1, WorldKey DEF Promised
  <2>2. ex[d].lease \in Grants /\ ex[d].flight.a.until \in Expiries
    BY <1>0, <2>1, PromisedShape
  <2>3. ex[d].flight.a.until <= now + Ttl /\ Stands(ex[d].lease, ex[d].flight.a.until)
    BY <2>1 DEF TrustInv, PromisesStand, PromiseStands
  <2> DEFINE g == ex[d].lease
             t == ex[d].flight.a.until
  <2>4. t <= now' + Ttl /\ (t > now' => row' # NoRow /\ row'.grant = g /\ row'.expiresAt >= t)
    BY <1>1, <2>2, <2>3, WorldKeeps, StandsStep DEF Stands
  <2> QED BY <2>1, <2>4 DEF Stands, PromiseStands
<1>2. ASSUME NEW e \in Executors, Claim(e) \/ Others(e), e # d
      PROVE  ex'[d] = ex[d]
  BY <1>0, <1>2, ClaimMoves, OthersMove DEF Moves
<1>3. ASSUME Claim(d) \/ (Others(d) /\ ~Beat(d))
      PROVE  ex'[d].flight = ex[d].flight
  <2>1. Still(d)
    BY <1>0, <1>3, ClaimMoves, FirstRenewalMoves, FirstRenewalFailsMoves, AnswerMoves, ReadMoves,
       CollectMoves, DriveMoves, EndMoves DEF Others
  <2> QED BY <1>c, <2>1 DEF Still
<1>4. ASSUME Others(d), ~Beat(d) PROVE ex'[d].lease = ex[d].lease
  <2>1. Moves(d)
    BY <1>0, <1>4, OthersMove
  <2>2. HoldInv'
    BY <1>0, HoldStep
  <2>3. ex'[d].pc # "idle"
    BY <1>c, <2>2 DEF HoldInv, Quiet
  <2> QED BY <2>1, <2>3 DEF Moves
<1>5. ASSUME Claim(d) PROVE ex'[d].lease = ex[d].lease
  BY <1>0, <1>5, <1>c, ClaimMoves
<1>6. CASE Beat(d)
  BY <1>a, <1>b, <1>6, NewPromise DEF Stands, PromiseStands
<1>7. ASSUME NEW e \in Executors, Claim(e) \/ Others(e), e = d => ~Beat(d)
      PROVE  PromiseStands(d)'
  <2>1. ex'[d].flight = ex[d].flight /\ ex'[d].lease = ex[d].lease
    BY <1>2, <1>3, <1>4, <1>5, <1>7
  <2>2. Promised(d)
    BY <2>1 DEF Promised
  <2> QED BY <1>7, <2>1, <2>2, PromiseKept
<1> QED BY <1>1, <1>6, <1>7 DEF RunNext, Acts, Others, World

LEMMA TrustStep ==
  ASSUME FreshOwners, TrustInv, [RunNext]_runVars
  PROVE  TrustInv'
<1>1. CASE RunNext
  BY <1>1, HoldStep, AloneMoves, PromisesMove DEF TrustInv
<1>2. CASE UNCHANGED runVars
  <2>1. HoldInv'
    BY <1>2, HoldStep DEF TrustInv
  <2>2. AloneInv'
    BY <1>2, StepInv, AloneStep DEF runVars, TrustInv, AloneInv
  <2>3. PromisesStand'
    BY <1>2 DEF runVars, leaseVars, TrustInv, PromisesStand, PromiseStands, Promised, Stands
  <2> QED BY <2>1, <2>2, <2>3 DEF TrustInv
<1> QED BY <1>1, <1>2

LEMMA TrustInit == RunInit => TrustInv
<1> SUFFICES ASSUME RunInit PROVE TrustInv
  OBVIOUS
<1>1. HoldInv
  BY HoldInit
<1>2. AloneInv
  BY <1>1, AloneInit DEF RunInit, HoldInv, AloneInv
<1>3. PromisesStand
  BY DEF RunInit, Idle, NoAnswer, PromisesStand, Promised
<1> QED BY <1>1, <1>2, <1>3 DEF TrustInv

\* Names used once keep a holder that trusts its expiry alone also when
\* answers are late and calls fail (agent-run-lease.ts, renew).
THEOREM HolderAlone ==
  ASSUME FreshOwners
  PROVE  RunSpec => []HolderIsAlone
<1>1. TrustInv => HolderIsAlone
  BY DEF TrustInv, AloneInv
<1> QED BY <1>1, TrustInit, TrustStep, PTL DEF RunSpec

\* No two executors drive the run while both trust their expiry.
THEOREM DriveAlone ==
  ASSUME FreshOwners
  PROVE  RunSpec => []DrivesAlone
<1>1. TrustInv => DrivesAlone
  <2> SUFFICES ASSUME TrustInv, NEW d \in Executors, NEW e \in Executors, d # e,
                      ex[d].pc \in Driving, ex[e].pc \in Driving,
                      StillBelieved(d), StillBelieved(e)
               PROVE  FALSE
    BY DEF DrivesAlone
  <2>1. /\ ex[d].lease \in Grants /\ issued[ex[d].lease].owner = d
        /\ ex[e].lease \in Grants /\ issued[ex[e].lease].owner = e
    BY OwnLease DEF TrustInv, Driving
  <2>2. now \in Nat /\ \A g \in Grants : believed[g] \in Nat
    BY BelievedNumbers DEF TrustInv, HoldInv, LeaseInv
  <2>3. row.grant = ex[d].lease /\ row.grant = ex[e].lease
    BY <2>1, <2>2 DEF TrustInv, AloneInv, HolderIsAlone, StillBelieved
  <2> QED BY <2>1, <2>3
<1> QED BY <1>1, TrustInit, TrustStep, PTL DEF RunSpec

-----------------------------------------------------------------------------
(* The revision fence: nobody drives over an end it has read. *)

Late == {"collecting", "driving", "committing"}

\* An executor at the stored revision of an ended run has only read it.
Knows(e) ==
  /\ ex[e].rev <= stored.rev
  /\ ex[e].pc \in Late /\ ex[e].rev = stored.rev /\ stored.phase = "terminal"
       => ex[e].pc = "collecting" /\ ex[e].read = "terminal"
EndsKnown == \A e \in Executors : Knows(e)

FenceInv == HoldInv /\ EndsKnown

\* It goes on at the revision it read, and drives nothing that ended.
Goes(e) ==
  /\ ex'[e].rev \in {0, ex[e].rev}
  /\ ex'[e].pc \in Late =>
       /\ ex[e].pc \in Late /\ ex'[e].rev = ex[e].rev
       /\ \/ ex'[e].pc = ex[e].pc /\ ex'[e].read = ex[e].read
          \/ ex[e].pc = "collecting" /\ ex'[e].pc = "driving" /\ ex[e].read # "terminal"
          \/ ex[e].pc = "driving" /\ ex'[e].pc = "committing"
  /\ ex'[e].recorded => ex[e].recorded \/ (ex[e].pc = "collecting" /\ ex[e].read = "terminal")

LEMMA StoppingGoes ==
  ASSUME RunTypeOK, NEW e \in Executors, Stopping(e)
  PROVE  Goes(e)
<1>1. ex'[e] = Settling(ex[e]) /\ ex[e] \in Memories
  BY DEF RunTypeOK, Stopping
<1> QED BY <1>1, SettlingMemory DEF Goes, Late

LEMMA ClaimGoes ==
  ASSUME HoldInv, NEW e \in Executors, Claim(e)
  PROVE  Goes(e)
<1> DEFINE n == Len(issued) + 1
           m == [Idle EXCEPT !.pc = "claimed", !.lease = n]
<1>1. ex' = ex \/ Becomes(e, m)
  BY DEF Claim, Becomes
<1>2. m.pc = "claimed" /\ m.rev = 0 /\ ~m.recorded /\ ex[e].pc = "idle"
  BY DEF Idle, Claim
<1> HIDE DEF m
<1> QED BY <1>1, <1>2 DEF HoldInv, RunTypeOK, Becomes, Goes, Late

LEMMA RenewalGoes ==
  ASSUME HoldInv, NEW e \in Executors, FirstRenewal(e) \/ FirstRenewalFails(e)
  PROVE  Goes(e)
<1>1. ex[e] \in Memories /\ ex \in [Executors -> Memories]
  BY DEF HoldInv, RunTypeOK
<1> DEFINE answer == Renewal(ex[e].lease, hasAck)
           found == Found(answer)
           drains == "drain" \in answer.signals
           m == [ex[e] EXCEPT !.pc = "reading", !.found = found, !.draining = drains]
           r == [ex[e] EXCEPT !.pc = "returning"]
           Outside(x) == /\ x.rev \in {0, ex[e].rev} /\ x.pc \notin Late
                         /\ x.recorded => ex[e].recorded
<1>2. Becomes(e, m) \/ Becomes(e, r) \/ Becomes(e, Idle)
  BY DEF FirstRenewal, FirstRenewalFails, Becomes
<1> HIDE DEF found, drains
<1>3. Outside(m) /\ Outside(r) /\ Outside(Idle)
  BY <1>1 DEF Memories, Idle, Late
<1> HIDE DEF m, r
<1> QED BY <1>1, <1>2, <1>3 DEF Becomes, Goes

LEMMA BeatGoes ==
  ASSUME HoldInv, NEW e \in Executors, Beat(e) \/ Answer(e)
  PROVE  Goes(e)
<1>1. ex[e] \in Memories /\ ex \in [Executors -> Memories]
  BY DEF HoldInv, RunTypeOK
<1>2. CASE Beat(e)
  <2>1. /\ ex'[e].rev = ex[e].rev /\ ex'[e].pc = ex[e].pc /\ ex'[e].read = ex[e].read
        /\ ex'[e].recorded = ex[e].recorded
    BY <1>1, <1>2 DEF Beat, Memories
  <2> QED BY <2>1 DEF Goes
<1>3. CASE Answer(e)
  <2> DEFINE noted == [Noted(ex[e], ex[e].flight.a) EXCEPT !.flight = NoAnswer]
             Same(m) == /\ m.rev = ex[e].rev /\ m.pc = ex[e].pc /\ m.read = ex[e].read
                        /\ m.recorded = ex[e].recorded
  <2>1. noted \in Memories /\ Same(noted)
    BY <1>1 DEF Noted, Memories, Flights
  <2>2. CASE ex[e].flight = Failed
    <3>1. Same(ex'[e])
      BY <1>1, <1>3, <2>2 DEF Answer, Missed, Memories
    <3> QED BY <3>1 DEF Goes
  <2>3. CASE ex[e].flight # Failed
    <3> DEFINE drains == noted.draining \/ "drain" \in ex[e].flight.a.signals
               cancels == noted.cancelled \/ Delivered(ex[e], ex[e].flight.a)
               told == [noted EXCEPT !.draining = drains, !.cancelled = cancels]
               lost == [noted EXCEPT !.lost = TRUE]
    <3>1. Becomes(e, noted) \/ Becomes(e, lost) \/ Becomes(e, told)
      BY <1>3, <2>3 DEF Answer, Answered, Becomes
    <3> HIDE DEF noted, drains, cancels
    <3>2. Same(lost) /\ Same(told)
      BY <2>1 DEF Memories
    <3> HIDE DEF told, lost
    <3>3. Same(ex'[e])
      BY <1>1, <2>1, <3>1, <3>2 DEF Becomes
    <3> QED BY <3>3 DEF Goes
  <2> QED BY <2>2, <2>3
<1> QED BY <1>2, <1>3

LEMMA CollectGoes ==
  ASSUME HoldInv, NEW e \in Executors, Collect(e) \/ CollectMoot(e) \/ CollectLost(e)
  PROVE  Goes(e)
<1>1. ex[e] \in Memories /\ ex[e].pc = "collecting" /\ ex \in [Executors -> Memories]
  BY DEF HoldInv, RunTypeOK, Collect, CollectMoot, CollectLost
<1> DEFINE d == Decided(ex[e])
           kept == ex[e].found = "kept"
           consumed == d.consumed \/ ex[e].found = "consumed"
           c == [d EXCEPT !.cancelled = TRUE, !.kept = kept, !.consumed = consumed]
           t == [Settling(ex[e]) EXCEPT !.collected = TRUE]
           Like(m) == /\ m.rev \in {0, ex[e].rev}
                      /\ m.pc \in Late => /\ m.pc = "driving" /\ m.rev = ex[e].rev
                                          /\ ex[e].read # "terminal"
                      /\ m.recorded => ex[e].recorded \/ ex[e].read = "terminal"
<1>2. Like(d) /\ d \in Memories
  <2>1. d \in Memories
    BY <1>1, DecidedMemory
  <2>2. CASE ex[e].read = "terminal"
    <3>1. d.rev = 0 /\ d.pc = "settling"
      BY <1>1, <2>2, SettlingMemory DEF Decided, Memories
    <3> HIDE DEF d
    <3> QED BY <2>1, <2>2, <3>1 DEF Late
  <2>3. CASE ex[e].read # "terminal"
    <3>1. d.rev = ex[e].rev /\ d.pc = "driving" /\ d.recorded = ex[e].recorded
      BY <1>1, <2>3 DEF Decided, Memories
    <3> HIDE DEF d
    <3> QED BY <2>1, <2>3, <3>1 DEF Late
  <2> HIDE DEF d
  <2> QED BY <2>1, <2>2, <2>3
<1>3. kept \in BOOLEAN /\ consumed \in BOOLEAN
  OBVIOUS
<1>4. Like(t)
  BY <1>1, SettlingMemory DEF Memories, Late
<1>5. Stopping(e) \/ Becomes(e, d) \/ Becomes(e, c) \/ Becomes(e, t)
  BY DEF Collect, CollectMoot, CollectLost, Becomes
<1> HIDE DEF d, kept, consumed, t
<1>6. Like(c)
  BY <1>2, <1>3 DEF Memories
<1> HIDE DEF c
<1>7. Stopping(e) \/ Like(ex'[e])
  BY <1>1, <1>2, <1>4, <1>5, <1>6 DEF Becomes
<1> QED BY <1>1, <1>7, StoppingGoes DEF HoldInv, Goes, Late

LEMMA EndGoes ==
  ASSUME HoldInv, NEW e \in Executors,
         Decide(e) \/ Drain(e) \/ StopBeat(e) \/ End(e) \/ Return(e) \/ Crash(e)
  PROVE  Goes(e)
<1>1. ex[e] \in Memories /\ ex \in [Executors -> Memories]
  BY DEF HoldInv, RunTypeOK
<1>2. CASE Decide(e)
  <2>1. /\ ex'[e].rev = ex[e].rev /\ ex'[e].pc = "committing" /\ ex[e].pc = "driving"
        /\ ex'[e].recorded = ex[e].recorded
    BY <1>1, <1>2 DEF Decide, Memories
  <2> QED BY <2>1 DEF Goes, Late
<1>3. CASE Drain(e)
  BY <1>3, StoppingGoes DEF Drain, HoldInv
<1>4. CASE StopBeat(e)
  <2>1. ex'[e].rev = ex[e].rev /\ ex'[e].pc = "stopping" /\ ex'[e].recorded = ex[e].recorded
    BY <1>1, <1>4 DEF StopBeat, Memories
  <2> QED BY <2>1 DEF Goes, Late
<1>5. CASE End(e) \/ Return(e) \/ Crash(e)
  <2> DEFINE lease == ex[e].lease
             lost == ex[e].lost
             m == [Idle EXCEPT !.pc = "returning", !.lease = lease, !.lost = lost]
  <2>1. Becomes(e, Idle) \/ Becomes(e, m)
    BY <1>5 DEF End, Return, Crash, Becomes
  <2> HIDE DEF lease, lost
  <2>2. /\ Idle.rev = 0 /\ Idle.pc = "idle" /\ ~Idle.recorded
        /\ m.rev = 0 /\ m.pc = "returning" /\ ~m.recorded
    BY DEF Idle
  <2> HIDE DEF m
  <2> QED BY <1>1, <2>1, <2>2 DEF Becomes, Goes, Late
<1> QED BY <1>2, <1>3, <1>4, <1>5

LEMMA ReadKnows ==
  ASSUME FenceInv, NEW e \in Executors, Read(e)
  PROVE  Knows(e)' /\ UNCHANGED stored
<1>1. ex[e] \in Memories /\ ex \in [Executors -> Memories] /\ stored.rev \in Nat
  BY DEF FenceInv, HoldInv, RunTypeOK
<1>2. UNCHANGED stored
  BY DEF Read, run
<1>3. CASE Stopping(e)
  <2>1. ex'[e] = Settling(ex[e])
    BY <1>1, <1>3 DEF Stopping
  <2> QED BY <1>1, <1>2, <2>1, SettlingMemory DEF Knows, Late
<1>4. CASE ~Stopping(e)
  <2> DEFINE m(phase) == [ex[e] EXCEPT !.pc = "collecting", !.rev = stored.rev, !.read = phase]
  <2>1. \/ stored.phase = "none" /\ Becomes(e, m("fresh"))
        \/ Becomes(e, m(stored.phase))
    BY <1>4 DEF Read, Becomes
  <2>2. \A phase \in {"fresh", stored.phase} :
          m(phase).rev = stored.rev /\ m(phase).pc = "collecting" /\ m(phase).read = phase
    BY <1>1 DEF Memories
  <2> HIDE DEF m
  <2> QED BY <1>1, <1>2, <2>1, <2>2 DEF Becomes, Knows
<1> QED BY <1>2, <1>3, <1>4

(* A save moves the stored revision past everybody else's. *)
LEMMA SavedKnows ==
  ASSUME FenceInv, NEW e \in Executors, Save(e) \/ Commit(e)
  PROVE  \/ Goes(e) /\ UNCHANGED stored
         \/ /\ Fenced(e) /\ stored'.rev = stored.rev + 1
            /\ ex'[e].rev = 0 \/ (ex'[e].rev = stored'.rev /\ stored'.phase = "active")
            /\ ex'[e].rev = 0 => ex'[e].pc = "settling"
            /\ ex'[e].recorded => ex[e].recorded \/ stored'.phase = "terminal"
<1>1. /\ ex[e] \in Memories /\ ex \in [Executors -> Memories] /\ stored.rev \in Nat
      /\ RunTypeOK
  BY DEF FenceInv, HoldInv, RunTypeOK
<1>2. ASSUME NEW phase, Saved(e, phase), Fenced(e)
      PROVE  stored'.rev = stored.rev + 1 /\ stored'.phase = phase
  BY <1>2 DEF Saved, Fenced
<1>3. CASE Stopping(e)
  <2>1. /\ ex'[e].rev = 0 /\ ex'[e].pc = "settling" /\ Goes(e)
        /\ ex'[e].recorded => ex[e].recorded
    BY <1>1, <1>3, SettlingMemory, StoppingGoes DEF Stopping
  <2>2. UNCHANGED stored \/ (Fenced(e) /\ \E phase \in {"active", ex[e].ends} : Saved(e, phase))
    BY DEF Save, Commit, Writes, run
  <2> QED BY <1>2, <2>1, <2>2
<1>4. CASE Save(e) /\ ~Stopping(e)
  <2>1. Fenced(e) /\ Saved(e, "active") /\ ex' = [ex EXCEPT ![e].rev = @ + 1]
    BY <1>4 DEF Save, Writes
  <2>2. ex'[e].rev = ex[e].rev + 1 /\ ex'[e].recorded = ex[e].recorded
    BY <1>1, <2>1 DEF Memories
  <2>3. ex'[e].rev = stored'.rev /\ ex'[e].rev # 0
    BY <1>1, <1>2, <2>1, <2>2 DEF Fenced
  <2> QED BY <1>2, <2>1, <2>3
<1>5. CASE Commit(e) /\ ~Stopping(e)
  <2> DEFINE recorded == ex[e].ends = "terminal"
             m == [Settling(ex[e]) EXCEPT !.recorded = recorded]
  <2>1. Fenced(e) /\ Saved(e, ex[e].ends) /\ Becomes(e, m)
    BY <1>5 DEF Commit, Writes, Becomes
  <2> HIDE DEF recorded
  <2>2. m.rev = 0 /\ m.pc = "settling" /\ m.recorded = recorded
    BY <1>1, SettlingMemory DEF Memories
  <2> HIDE DEF m
  <2> QED BY <1>1, <1>2, <2>1, <2>2 DEF Becomes, recorded
<1> QED BY <1>3, <1>4, <1>5

LEMMA FenceStep ==
  ASSUME FenceInv, [RunNext]_runVars
  PROVE  FenceInv' /\ (stored.phase = "terminal" => UNCHANGED stored)
<1>0. HoldInv' /\ HoldInv /\ RunTypeOK
  BY HoldStep DEF FenceInv, HoldInv
<1>1. /\ ex \in [Executors -> Memories] /\ stored.rev \in Nat
      /\ \A d \in Executors : ex[d].rev \in Nat
  BY <1>0 DEF RunTypeOK, Memories
<1>2. ASSUME NEW e \in Executors, Goes(e), UNCHANGED stored PROVE Knows(e)'
  BY <1>1, <1>2 DEF FenceInv, EndsKnown, Knows, Goes, Late
<1>3. ASSUME NEW d \in Executors, ex'[d] = ex[d], UNCHANGED stored PROVE Knows(d)'
  BY <1>3 DEF FenceInv, EndsKnown, Knows
<1>4. CASE UNCHANGED <<ex, stored>>
  BY <1>0, <1>3, <1>4 DEF FenceInv, EndsKnown
<1>5. ASSUME NEW e \in Executors, Claim(e) \/ Others(e), NEW d \in Executors, d # e
      PROVE  ex'[d] = ex[d]
  BY <1>0, <1>1, <1>5, ClaimMoves, OthersMove DEF Moves
<1>6. ASSUME NEW e \in Executors, Save(e) \/ Commit(e)
      PROVE  EndsKnown' /\ (stored.phase = "terminal" => UNCHANGED stored)
  <2>1. CASE Goes(e) /\ UNCHANGED stored
    BY <1>2, <1>3, <1>5, <1>6, <2>1 DEF EndsKnown, Others
  <2>2. CASE /\ Fenced(e) /\ stored'.rev = stored.rev + 1
             /\ ex'[e].rev = 0 \/ (ex'[e].rev = stored'.rev /\ stored'.phase = "active")
             /\ ex'[e].rev = 0 => ex'[e].pc = "settling"
    <3>1. stored.phase # "terminal"
      BY <1>6, <2>2 DEF Save, Commit, Fenced, FenceInv, EndsKnown, Knows, Late
    <3>2. Knows(e)'
      BY <1>1, <2>2 DEF Knows, Late
    <3>3. ASSUME NEW d \in Executors, d # e PROVE Knows(d)'
      <4>1. ex'[d] = ex[d] /\ ex[d].rev <= stored.rev
        BY <1>5, <1>6, <3>3 DEF Others, FenceInv, EndsKnown, Knows
      <4> QED BY <1>1, <2>2, <4>1 DEF Knows
    <3> QED BY <3>1, <3>2, <3>3 DEF EndsKnown
  <2> QED BY <1>6, <2>1, <2>2, SavedKnows
<1>7. ASSUME NEW e \in Executors, Claim(e) \/ Others(e), ~Save(e), ~Commit(e)
      PROVE  EndsKnown' /\ UNCHANGED stored
  <2>1. UNCHANGED stored
    BY <1>7 DEF Others, Claim, FirstRenewal, FirstRenewalFails, Beat, Answer, Read, Collect, CollectMoot,
       CollectLost, Decide, Drain, StopBeat, End, Return, Crash, run
  <2>2. Knows(e)'
    BY <1>0, <1>2, <1>7, <2>1, ReadKnows, ClaimGoes, RenewalGoes, BeatGoes, CollectGoes, EndGoes DEF Others
  <2> QED BY <1>3, <1>5, <1>7, <2>1, <2>2 DEF EndsKnown
<1>8. CASE World
  <2>1. UNCHANGED <<ex, stored>>
    BY <1>8, WorldKey DEF World, Send, RunTick, RunPrune, run
  <2> QED BY <1>4, <2>1
<1>9. CASE UNCHANGED runVars
  BY <1>4, <1>9 DEF runVars
<1> QED BY <1>0, <1>6, <1>7, <1>8, <1>9 DEF FenceInv, RunNext, Acts, Others, World

\* An ended run stays as it ended, however many executors believe they drive
\* it, and whatever names they use (agent-run.ts, the revision fence).
THEOREM EndedStays == RunSpec => EndedIsFinal
<1>1. RunInit => FenceInv
  BY HoldInit DEF RunInit, FenceInv, EndsKnown, Knows, Idle
<1>2. FenceInv /\ [RunNext]_runVars => [stored.phase = "terminal" => UNCHANGED stored]_stored
  BY FenceStep
<1>3. FenceInv /\ [RunNext]_runVars => FenceInv'
  BY FenceStep
<1> QED BY <1>1, <1>2, <1>3, PTL DEF RunSpec, EndedIsFinal

-----------------------------------------------------------------------------
(* An accepted cancel stays queued until the end it asks for is stored, at a *)
(* provider that acknowledges.                                               *)

Queued == row # NoRow /\ "cancel" \in row.signals

\* What an executor knows when it acknowledges a cancel: the cancel predates
\* the run it is about to start, or the run has ended.
Minds(e) ==
  /\ ex[e].pc = "collecting" =>
       /\ ex[e].read = "active" \/ ~asked
       /\ ex[e].read = "terminal" => stored.phase = "terminal"
  /\ ex[e].recorded => stored.phase = "terminal"

CancelInv ==
  /\ FenceInv /\ \A e \in Executors : Minds(e)
  /\ asked => stored.phase = "active"
  /\ hasAck /\ asked => Queued

\* A step on the key that acknowledges nothing.
KeepsQueue ==
  \/ \E o \in Owners : Acquire(o)
  \/ \E g \in Grants : \/ Renew(g, TRUE) \/ Release(g)
                       \/ \E t \in Expiries : Believes(g, t)
  \/ \E s \in Signals : Signal(s)
  \/ \E before \in 1..(MaxClock + Ttl) : Prune(before)
  \/ Tick \/ UNCHANGED leaseVars

LEMMA QueueStep ==
  ASSUME LeaseInv, Queued, KeepsQueue
  PROVE  Queued'
<1>0. LeaseTypeOK
  BY DEF LeaseInv
<1>1. ASSUME NEW o \in Owners, Acquire(o) PROVE Queued'
  <2>1. row' = [owner |-> o, token |-> NextToken, expiresAt |-> now + Ttl,
                signals |-> Kept(row.signals), grant |-> Len(issued) + 1]
    BY <1>1 DEF Acquire, Queued
  <2>2. row' \in Rows
    BY <1>1, AcquireInv
  <2> QED BY <2>1, <2>2, RowShape DEF Kept, Queued
<1>2. ASSUME NEW g \in Grants, Renew(g, TRUE) PROVE Queued'
  <2>1. SameRow
    BY <1>0, <1>2, RenewedKeeps DEF Renew
  <2>2. row' = Row(now + Ttl, Kept(row.signals)) \/ row' = row
    BY <1>2 DEF Renew, Renewed
  <2> QED BY <2>1, <2>2 DEF SameRow, Row, Kept, Queued
<1>3. ASSUME NEW g \in Grants, Release(g) PROVE Queued'
  <2>1. SameRow
    BY <1>0, <1>3, ReleasedKeeps DEF Release
  <2>2. row' = Row(0, Kept(row.signals)) \/ row' = row
    BY <1>3 DEF Release, Released
  <2> QED BY <2>1, <2>2 DEF SameRow, Row, Kept, Queued
<1>4. ASSUME NEW s \in Signals, Signal(s) PROVE Queued'
  BY <1>0, <1>4, SignalKeeps DEF SameRow, Queued
<1>5. ASSUME NEW before \in 1..(MaxClock + Ttl), Prune(before) PROVE FALSE
  BY <1>5 DEF Prune, Prunable, Queued
<1>6. (\E g \in Grants, t \in Expiries : Believes(g, t)) \/ Tick \/ UNCHANGED leaseVars => Queued'
  BY DEF Believes, Tick, leaseVars, Queued
<1> QED BY <1>1, <1>2, <1>3, <1>4, <1>5, <1>6 DEF KeepsQueue

LEMMA WorldQueue ==
  ASSUME World
  PROVE  KeepsQueue
<1>1. ASSUME NEW s \in Sent, Send(s) PROVE KeepsQueue
  BY <1>1, RunAssumption DEF Send, KeepsQueue
<1>2. CASE RunTick
  BY <1>2 DEF RunTick, KeepsQueue
<1>3. ASSUME NEW before \in 1..(MaxClock + Ttl), RunPrune(before) PROVE KeepsQueue
  BY <1>3 DEF RunPrune, KeepsQueue
<1> QED BY <1>1, <1>2, <1>3 DEF World

(* Nobody acknowledges a cancel of a run that goes on. *)
LEMMA ExecutorQueue ==
  ASSUME CancelInv, hasAck, asked, NEW e \in Executors, Claim(e) \/ Others(e)
  PROVE  KeepsQueue
<1>0. HoldInv /\ Minds(e) /\ stored.phase = "active" /\ hasAck = TRUE
  BY DEF CancelInv, FenceInv, HoldInv, RunTypeOK
<1>1. CASE Claim(e)
  BY <1>1 DEF Claim, KeepsQueue, Executors
<1>2. CASE Others(e)
  <2>1. ex[e].lease \in Grants
    BY <1>0, <1>2, OwnLease, OthersMove
  <2>2. 0 \in Expiries
    BY LeaseAssumption DEF Expiries
  <2>3. CASE FirstRenewal(e) \/ FirstRenewalFails(e) \/ Beat(e)
    BY <1>0, <2>1, <2>3, FirstRenewalKey, BeatKey DEF KeepsQueue
  <2>4. CASE Answer(e)
    BY <1>0, <2>1, <2>4, AnswerKey DEF KeepsQueue
  <2>5. CASE End(e)
    <3>1. ~Acknowledges(ex[e])
      BY <1>0 DEF Minds, Acknowledges
    <3>2. Signal("cancel") \/ UNCHANGED leaseVars
      BY <2>5, <3>1 DEF End, CancelAgain
    <3> QED BY <3>2 DEF KeepsQueue, Signals
  <2>6. CASE CollectMoot(e)
    BY <1>0, <2>6 DEF CollectMoot, Minds
  <2>7. CASE Return(e) \/ Crash(e)
    BY <1>0, <2>1, <2>2, <2>7, ReturnKey DEF KeepsQueue
  <2> QED BY <1>2, <2>3, <2>4, <2>5, <2>6, <2>7, OtherKey DEF Others, KeepsQueue
<1> QED BY <1>1, <1>2

LEMMA ReadMinds ==
  ASSUME CancelInv, NEW e \in Executors, Read(e)
  PROVE  Minds(e)'
<1>1. /\ ex[e] \in Memories /\ ex \in [Executors -> Memories] /\ Minds(e)
      /\ stored.phase \in {"none", "active", "terminal"}
  BY DEF CancelInv, FenceInv, HoldInv, RunTypeOK
<1>2. UNCHANGED <<stored, asked>>
  BY DEF Read, run
<1>3. CASE Stopping(e)
  <2>1. ex'[e] = Settling(ex[e])
    BY <1>1, <1>3 DEF Stopping
  <2> QED BY <1>1, <1>2, <2>1, SettlingMemory DEF Minds
<1>4. CASE ~Stopping(e)
  <2> DEFINE m(phase) == [ex[e] EXCEPT !.pc = "collecting", !.rev = stored.rev, !.read = phase]
  <2>1. \/ stored.phase = "none" /\ Becomes(e, m("fresh"))
        \/ stored.phase # "none" /\ Becomes(e, m(stored.phase))
    BY <1>4 DEF Read, Becomes
  <2>2. \A phase \in {"fresh", stored.phase} :
          m(phase).read = phase /\ m(phase).recorded = ex[e].recorded
    BY <1>1 DEF Memories
  <2> HIDE DEF m
  <2>3. asked => stored.phase = "active"
    BY DEF CancelInv
  <2> QED BY <1>1, <1>2, <2>1, <2>2, <2>3 DEF Becomes, Minds
<1> QED BY <1>3, <1>4

LEMMA SavedAsked ==
  ASSUME NEW e, NEW phase \in {"active", "terminal"}, Saved(e, phase)
  PROVE  asked' => asked /\ stored'.phase = "active"
<1>1. asked' => asked /\ phase # "terminal"
  BY Zenon DEF Saved
<1>2. stored'.phase = phase
  BY DEF Saved
<1> QED BY <1>1, <1>2

LEMMA CancelMoves ==
  ASSUME CancelInv, RunNext
  PROVE  CancelInv'
<1>0. /\ FenceInv' /\ FenceInv /\ HoldInv /\ (stored.phase = "terminal" => UNCHANGED stored)
      /\ ex \in [Executors -> Memories] /\ hasAck' = hasAck
  BY FenceStep, StoredMoves DEF CancelInv, FenceInv, HoldInv, RunTypeOK
<1>1. \A e \in Executors : Minds(e)
  BY DEF CancelInv
<1>2. ASSUME World PROVE CancelInv'
  <2>1. UNCHANGED <<ex, stored>>
    BY <1>2, WorldKey DEF World, Send, RunTick, RunPrune, run
  <2>2. \/ asked' = asked
        \/ /\ asked' /\ stored.phase = "active" /\ ~UndecidedFresh
           /\ \E s \in Sent : Signal(s) /\ s = "cancel"
    <3>1. asked \in BOOLEAN
      BY <1>0 DEF HoldInv, RunTypeOK
    <3> QED BY <1>2, <3>1 DEF World, Send, RunTick, RunPrune, run
  <2>3. \A e \in Executors : Minds(e)'
    <3>1. CASE asked' = asked
      BY <1>1, <2>1, <3>1 DEF Minds
    <3>2. CASE stored.phase = "active" /\ ~UndecidedFresh
      <4>1. ASSUME NEW e \in Executors, ex[e].pc = "collecting" PROVE ex[e].read = "active"
        <5>1. ex[e].read \in {"fresh", "active", "terminal"}
          BY <1>0 DEF Memories
        <5> QED BY <1>1, <3>2, <4>1, <5>1 DEF UndecidedFresh, Minds
      <4> QED BY <1>1, <2>1, <4>1 DEF Minds
    <3> QED BY <2>2, <3>1, <3>2
  <2>4. hasAck' /\ asked' => Queued'
    <3>1. CASE asked' = asked
      BY <1>0, <1>2, <3>1, WorldQueue, QueueStep DEF CancelInv, HoldInv
    <3>2. CASE \E s \in Sent : Signal(s) /\ s = "cancel"
      <4>1. Signal("cancel") /\ "cancel" \in Signals
        BY <3>2 DEF Signals
      <4> QED BY <1>0, <4>1, SignalKeeps, RowShape DEF HoldInv, LeaseInv, SameRow, Queued
    <3> QED BY <2>2, <3>1, <3>2
  <2> QED BY <1>0, <2>1, <2>2, <2>3, <2>4 DEF CancelInv
<1>3. ASSUME NEW e \in Executors, Claim(e) \/ Others(e) PROVE CancelInv'
  <2>1. \A d \in Executors : d # e => ex'[d] = ex[d]
    BY <1>0, <1>3, ClaimMoves, OthersMove DEF Moves
  <2>2. /\ asked' => asked /\ (UNCHANGED stored \/ stored'.phase = "active")
        /\ Save(e) \/ Commit(e) \/ UNCHANGED <<asked, stored>>
    <3>1. CASE ~Save(e) /\ ~Commit(e)
      BY <1>3, <3>1 DEF Others, Claim, FirstRenewal, FirstRenewalFails, Beat, Answer, Read, Collect,
         CollectMoot, CollectLost, Decide, Drain, StopBeat, End, Return, Crash, run
    <3>2. CASE Save(e) \/ Commit(e)
      <4>1. ex[e].ends \in {"active", "terminal"}
        BY <1>0 DEF Memories
      <4>2. UNCHANGED run \/ \E phase \in {"active", "terminal"} : Saved(e, phase)
        BY <3>2, <4>1 DEF Save, Commit
      <4>3. ASSUME NEW phase \in {"active", "terminal"}, Saved(e, phase)
            PROVE  asked' => asked /\ stored'.phase = "active"
        BY <4>3, SavedAsked
      <4> QED BY <3>2, <4>2, <4>3 DEF run
    <3> QED BY <3>1, <3>2
  <2>3. stored.phase = "terminal" => stored'.phase = "terminal"
    BY <1>0
  <2>4. ASSUME NEW d \in Executors, d # e PROVE Minds(d)'
    BY <1>1, <2>1, <2>2, <2>3, <2>4 DEF Minds
  <2>5. Minds(e)'
    <3>1. ASSUME Goes(e) PROVE Minds(e)'
      BY <1>1, <2>2, <2>3, <3>1 DEF Goes, Late, Minds
    <3>2. CASE Read(e)
      BY <3>2, ReadMinds
    <3>3. CASE Save(e) \/ Commit(e)
      <4>1. Goes(e) \/ (ex'[e].recorded => ex[e].recorded \/ stored'.phase = "terminal")
        BY <1>0, <3>3, SavedKnows
      <4>2. ex[e].pc \in {"driving", "committing"}
        BY <3>3 DEF Save, Commit
      <4>3. ex'[e].pc # "collecting"
        <5>1. ex[e] \in Memories
          BY <1>0
        <5>3. CASE Stopping(e)
          BY <1>0, <5>1, <5>3, SettlingMemory DEF Stopping
        <5>4. CASE Save(e) /\ ~Stopping(e)
          <6>1. ex' = [ex EXCEPT ![e].rev = @ + 1] /\ ex[e].pc = "driving"
            BY <5>4 DEF Save
          <6> QED BY <1>0, <5>1, <6>1 DEF Memories
        <5>5. CASE Commit(e) /\ ~Stopping(e)
          <6> DEFINE recorded == ex[e].ends = "terminal"
                     m == [Settling(ex[e]) EXCEPT !.recorded = recorded]
          <6>1. Becomes(e, m)
            BY <5>5 DEF Commit, Becomes
          <6> HIDE DEF recorded
          <6>2. m.pc = "settling"
            BY <5>1, SettlingMemory DEF Memories
          <6> HIDE DEF m
          <6> QED BY <1>0, <6>1, <6>2 DEF Becomes
        <5> QED BY <3>3, <5>3, <5>4, <5>5
      <4> QED BY <1>1, <2>3, <3>1, <4>1, <4>3 DEF Minds
    <3> QED BY <1>0, <1>3, <3>1, <3>2, <3>3, ClaimGoes, RenewalGoes, BeatGoes, CollectGoes, EndGoes
            DEF Others
  <2>6. asked' => stored'.phase = "active"
    <3>1. asked => stored.phase = "active"
      BY DEF CancelInv
    <3> QED BY <2>2, <3>1
  <2>7. hasAck' /\ asked' => Queued'
    BY <1>0, <1>3, <2>2, ExecutorQueue, QueueStep DEF CancelInv, HoldInv
  <2> QED BY <1>0, <2>4, <2>5, <2>6, <2>7 DEF CancelInv
<1> QED BY <1>2, <1>3 DEF RunNext, Acts, Others, World

\* At a provider that acknowledges cancels, an accepted cancel of a stored run
\* stays queued until the run's end is stored, through any claims, failures,
\* deaths and prunes, and whatever names executors use (agent-run-lease.ts).
THEOREM CancelStays == RunSpec => [](hasAck => CancelSurvives)
<1>1. RunInit => CancelInv
  <2> SUFFICES ASSUME RunInit PROVE CancelInv
    OBVIOUS
  <2>1. FenceInv
    BY HoldInit DEF RunInit, FenceInv, EndsKnown, Knows, Idle
  <2> QED BY <2>1 DEF RunInit, CancelInv, Minds, Idle
<1>2. CancelInv /\ UNCHANGED runVars => CancelInv'
  <2> SUFFICES ASSUME CancelInv, UNCHANGED runVars PROVE CancelInv'
    OBVIOUS
  <2>1. FenceInv'
    BY FenceStep DEF CancelInv
  <2> QED BY <2>1 DEF runVars, leaseVars, CancelInv, Minds, Queued
<1>3. CancelInv => (hasAck => CancelSurvives)
  BY DEF CancelInv, Queued, CancelSurvives
<1> QED BY <1>1, <1>2, <1>3, CancelMoves, PTL DEF RunSpec

=============================================================================

------------------------------ MODULE RunLease ------------------------------
(***************************************************************************)
(* The cross-process claim of one native run                               *)
(* (packages/core/src/internal/agent-run-lease.ts) and how runAgent and    *)
(* resumeAgent hold it (packages/core/src/agent-run.ts): an executor       *)
(* claims the run, renews at once, reads the run, decides on the cancel    *)
(* that renewal found, drives with a heartbeat, saves under the store's    *)
(* revision fence, and gives the lease back.                               *)
(*                                                                         *)
(* A provider call may fail with or without having taken effect, the store *)
(* may fail likewise, a renewal's answer may be slow, and an executor may  *)
(* crash anywhere.                                                         *)
(*                                                                         *)
(* Abstractions: what the run computes is a choice of when it saves, ends  *)
(* or is suspended; the executor reads the provider's clock; a caller's    *)
(* own abort signal, reconcileAgentRun (a resume that only reads an ended  *)
(* run), retryFailed, and a resume that stops again before it writes       *)
(* anything (agent-run.ts:1554-1628) are left out.                         *)
(***************************************************************************)
EXTENDS LeaseProvider, FiniteSets

CONSTANTS
  Sent,        \* the signals other processes send
  Providers,   \* the providers a run may meet: do they acknowledge cancels?
  MaxSaves,    \* bound on the run's saves between steps
  MaxSignals,  \* bound on the signals sent
  MaxFaults,   \* bound on failed calls
  MaxCrashes   \* bound on executors that die

ASSUME RunAssumption == Sent \subseteq Signals /\ Providers \subseteq BOOLEAN

VARIABLES
  ex,        \* executor -> what it holds in memory
  stored,    \* the run in the store: its phase and revision
  signalled, \* signals sent so far
  faults,    \* failed calls so far
  crashes,   \* crashes so far
  hasAck,    \* does this provider acknowledge cancels?
  asked      \* ghost: a cancel was accepted for the stored run, which goes on

runVars == <<leaseVars, ex, stored, signalled, faults, crashes, hasAck, asked>>
faulty == <<faults, crashes, hasAck>>
run == <<stored, signalled, asked>>

Executors == Owners

NoAnswer == [kind |-> "none"]
Failed == [kind |-> "failed"]
Idle == [pc |-> "idle", lease |-> 0, found |-> "no", read |-> "fresh", rev |-> 0,
         collected |-> FALSE, cancelled |-> FALSE, draining |-> FALSE,
         kept |-> FALSE, consumed |-> FALSE, lost |-> FALSE, recorded |-> FALSE,
         ends |-> "terminal", flight |-> NoAnswer]

Driving == {"reading", "collecting", "driving", "committing"}
Beating == Driving \cup {"settling"}
Aborted(e) == ex[e].cancelled \/ ex[e].lost
Fault == faults < MaxFaults /\ faults' = faults + 1 /\ UNCHANGED <<crashes, hasAck>>
Fine == UNCHANGED faulty
\* A call takes effect, and may fail all the same.
FineOrFault(failed) == IF failed THEN Fault ELSE Fine

\* The run is over here, whatever came of it; records of its outcome are
\* still written while the heartbeat goes on.
Settling(x) ==
  [x EXCEPT !.pc = "settling", !.read = "fresh", !.ends = "terminal", !.rev = 0,
            !.cancelled = FALSE, !.draining = FALSE]
Stopping(e) == ex' = [ex EXCEPT ![e] = Settling(@)]

-----------------------------------------------------------------------------
(* The claim. *)

Claim(e) ==
  /\ ex[e].pc = "idle"
  /\ Acquire(e)
  /\ \E failed \in BOOLEAN :
       /\ FineOrFault(failed)
       /\ ex' = IF failed THEN ex
                ELSE [ex EXCEPT ![e] = [Idle EXCEPT !.pc = "claimed", !.lease = Len(issued) + 1]]
  /\ UNCHANGED run

Found(answer) ==
  IF "cancel" \notin answer.signals THEN "no"
  ELSE IF "cancel" \in answer.queued THEN "kept" ELSE "consumed"

\* What the first renewal finds was queued before the claim.
FirstRenewal(e) ==
  LET g == ex[e].lease
      answer == Renewal(g, hasAck)
  IN /\ ex[e].pc = "claimed"
     /\ Renewed(g, hasAck)
     /\ believed' = IF answer.held THEN [believed EXCEPT ![g] = answer.until] ELSE believed
     /\ ex' = [ex EXCEPT ![e] =
                 IF answer.held
                 THEN [@ EXCEPT !.pc = "reading", !.found = Found(answer),
                                !.draining = "drain" \in answer.signals]
                 ELSE Idle]
     /\ UNCHANGED <<now, issued, era, drainFor>> /\ UNCHANGED run /\ Fine

FirstRenewalFails(e) ==
  /\ ex[e].pc = "claimed"
  /\ Renewed(ex[e].lease, hasAck) \/ UNCHANGED <<row, owed>>
  /\ ex' = [ex EXCEPT ![e].pc = "returning"]
  /\ UNCHANGED <<now, issued, era, drainFor, believed>> /\ UNCHANGED run /\ Fault

-----------------------------------------------------------------------------
(* The heartbeat.  One renewal at a time; its answer may be slow. *)

Beat(e) ==
  LET g == ex[e].lease
      answer == Renewal(g, hasAck)
  IN /\ ex[e].pc \in Beating /\ ~ex[e].lost /\ ex[e].flight = NoAnswer
     /\ \/ /\ Renewed(g, hasAck)
           /\ ex' = [ex EXCEPT ![e].flight = [kind |-> "answer", a |-> answer]]
           /\ Fine
        \/ /\ Renewed(g, hasAck) \/ UNCHANGED <<row, owed>>
           /\ ex' = [ex EXCEPT ![e].flight = Failed]
           /\ Fault
     /\ UNCHANGED <<now, issued, era, drainFor, believed>> /\ UNCHANGED run

\* Until the found cancel is decided on, a provider that keeps it queued
\* delivers it again: that is still the same cancel.
Delivered(x, answer) ==
  /\ answer.held /\ "cancel" \in answer.signals
  /\ "cancel" \in answer.queued => x.found # "kept" \/ x.collected

\* Noted even after the run stopped, for release to settle.
Noted(x, answer) ==
  IF ~Delivered(x, answer) THEN x
  ELSE IF "cancel" \in answer.queued THEN [x EXCEPT !.kept = TRUE]
  ELSE [x EXCEPT !.consumed = TRUE]

LosesNever(answer) == FALSE
Loses(answer) == ~answer.held
ExtendedNow(answer) == now + Ttl
Extended(answer) == answer.until

StillBelieved(e) == now < believed[ex[e].lease]

Answered(e) ==
  LET x == ex[e]
      answer == x.flight.a
      noted == [Noted(x, answer) EXCEPT !.flight = NoAnswer]
  IN \/ /\ x.pc \notin Beating
        /\ ex' = [ex EXCEPT ![e] = noted] /\ UNCHANGED believed
     \/ /\ x.pc \in Beating /\ Loses(answer)
        /\ ex' = [ex EXCEPT ![e] = [noted EXCEPT !.lost = TRUE]] /\ UNCHANGED believed
     \/ /\ x.pc \in Beating /\ ~Loses(answer)
        /\ ex' = [ex EXCEPT ![e] =
                    IF x.pc \notin Driving THEN noted
                    ELSE [noted EXCEPT !.draining = @ \/ "drain" \in answer.signals,
                                       !.cancelled = @ \/ Delivered(x, answer)]]
        /\ believed' = [believed EXCEPT ![x.lease] = Extended(answer)]

\* An outage is survivable until the lease could have lapsed.
Missed(e) ==
  /\ ex[e].flight = Failed
  /\ ex' = [ex EXCEPT ![e].flight = NoAnswer,
                      ![e].lost = @ \/ (ex[e].pc \in Beating /\ ~StillBelieved(e))]
  /\ UNCHANGED believed

Answer(e) ==
  /\ ex[e].flight # NoAnswer
  /\ IF ex[e].flight = Failed THEN Missed(e) ELSE Answered(e)
  /\ UNCHANGED <<now, row, issued, era, owed, drainFor>> /\ UNCHANGED run /\ Fine

-----------------------------------------------------------------------------
(* The run is read, and the found cancel decided on. *)

\* A new run that exists, or a resume of one that does not, goes no further.
Read(e) ==
  /\ ex[e].pc = "reading"
  /\ \E resume \in BOOLEAN :
       IF resume # (stored.phase # "none") THEN Stopping(e)
       ELSE ex' = [ex EXCEPT ![e].pc = "collecting", ![e].rev = stored.rev,
                             ![e].read = IF resume THEN stored.phase ELSE "fresh"]
  /\ UNCHANGED leaseVars /\ UNCHANGED run /\ Fine

\* Once decided, the run is driven; one that ended is only reported.
Decided(x) ==
  IF x.read = "terminal" THEN [Settling(x) EXCEPT !.collected = TRUE, !.recorded = TRUE]
  ELSE [x EXCEPT !.collected = TRUE, !.pc = "driving"]

\* In line with the renewals.
Collect(e) ==
  LET x == ex[e]
  IN /\ x.pc = "collecting" /\ x.flight = NoAnswer /\ ~x.lost
     /\ ~(x.found = "kept" /\ x.read # "active")
     /\ ex' = [ex EXCEPT ![e] =
                 IF x.found # "no" /\ x.read = "active"
                 THEN [Decided(x) EXCEPT !.cancelled = TRUE, !.kept = x.found = "kept",
                                   !.consumed = @ \/ x.found = "consumed"]
                 ELSE Decided(x)]
     /\ UNCHANGED leaseVars /\ UNCHANGED run /\ Fine

\* The found cancel predates a new run, or a run that ended.
CollectMoot(e) ==
  LET x == ex[e]
  IN /\ x.pc = "collecting" /\ x.flight = NoAnswer /\ ~x.lost
     /\ x.found = "kept" /\ x.read # "active"
     /\ \/ /\ Ack(x.lease) /\ Fine
           /\ ex' = [ex EXCEPT ![e] = Decided(x)]
        \/ /\ Ack(x.lease) \/ UNCHANGED leaseVars
           /\ ex' = [ex EXCEPT ![e] = [Settling(x) EXCEPT !.collected = TRUE]]
           /\ Fault
     /\ UNCHANGED run

CollectLost(e) ==
  /\ ex[e].pc = "collecting" /\ ex[e].flight = NoAnswer /\ ex[e].lost
  /\ Stopping(e)
  /\ UNCHANGED leaseVars /\ UNCHANGED run /\ Fine

-----------------------------------------------------------------------------
(* The run is driven. *)

\* The store takes a save that follows the revision it holds.
FencedAnyway(e) == TRUE
Fenced(e) == stored.rev = ex[e].rev

\* The store takes the save.
Saved(e, phase) ==
  /\ stored' = [phase |-> phase, rev |-> ex[e].rev + 1] /\ UNCHANGED signalled
  /\ asked' = (asked /\ phase # "terminal")

\* Nothing is written once the lease is known lost, or over another revision.
Writes(e) == ~ex[e].lost /\ Fenced(e)

\* A save between two steps of the run.
Save(e) ==
  /\ ex[e].pc = "driving" /\ ~Aborted(e) /\ stored.rev < MaxSaves
  /\ \/ /\ Writes(e) /\ Saved(e, "active") /\ Fine
        /\ ex' = [ex EXCEPT ![e].rev = @ + 1]
     \/ /\ Writes(e) /\ (Saved(e, "active") \/ UNCHANGED run) /\ Fault
        /\ Stopping(e)
     \/ ~Writes(e) /\ UNCHANGED run /\ Fine /\ Stopping(e)
  /\ UNCHANGED leaseVars

\* The run ends, is suspended on people, or finds it must stop.
Decide(e) ==
  /\ ex[e].pc = "driving"
  /\ \E ends \in {"terminal", "active"} :
       /\ Aborted(e) => ends = "terminal"
       /\ ex' = [ex EXCEPT ![e].pc = "committing", ![e].ends = ends]
  /\ UNCHANGED leaseVars /\ UNCHANGED run /\ Fine

\* A drain stops the run where it stands, at a step boundary.
Drain(e) ==
  /\ ex[e].pc = "driving" /\ ex[e].draining /\ ~Aborted(e)
  /\ Stopping(e)
  /\ UNCHANGED leaseVars /\ UNCHANGED run /\ Fine

\* The outcome is saved; a failed save leaves the last recovery point.
Commit(e) ==
  /\ ex[e].pc = "committing"
  /\ \/ /\ Writes(e) /\ Saved(e, ex[e].ends) /\ Fine
        /\ ex' = [ex EXCEPT ![e] = [Settling(@) EXCEPT !.recorded = ex[e].ends = "terminal"]]
     \/ /\ Writes(e) /\ (Saved(e, ex[e].ends) \/ UNCHANGED run) /\ Fault
        /\ Stopping(e)
     \/ ~Writes(e) /\ UNCHANGED run /\ Fine /\ Stopping(e)
  /\ UNCHANGED leaseVars

-----------------------------------------------------------------------------
(* The lease goes back. *)

AcknowledgesEarly(x) == x.kept /\ ~x.lost
Acknowledges(x) == x.recorded /\ x.kept /\ ~x.lost

\* A cancel taken off the queue and not recorded goes back, also one that was
\* found and never decided on.
RestoresDecided(x) == ~x.recorded /\ x.consumed
Restores(x) == ~x.recorded /\ (x.consumed \/ (~x.collected /\ x.found = "consumed"))

CancelAgain == IF Held THEN Signal("cancel") ELSE UNCHANGED leaseVars

StopBeat(e) ==
  /\ ex[e].pc = "settling" /\ ex' = [ex EXCEPT ![e].pc = "stopping"]
  /\ UNCHANGED leaseVars /\ UNCHANGED run /\ Fine

\* Once no renewal is under way.
End(e) ==
  LET x == ex[e]
      effect == IF Acknowledges(x) THEN Ack(x.lease)
                ELSE IF Restores(x) THEN CancelAgain ELSE UNCHANGED leaseVars
  IN /\ x.pc = "stopping" /\ x.flight = NoAnswer
     /\ \/ effect /\ Fine
        \/ /\ Acknowledges(x) \/ Restores(x)
           /\ UNCHANGED leaseVars /\ Fault
     /\ ex' = [ex EXCEPT ![e] = [Idle EXCEPT !.pc = "returning", !.lease = x.lease, !.lost = x.lost]]
     /\ UNCHANGED run

Return(e) ==
  LET g == ex[e].lease
      believes == believed' = [believed EXCEPT ![g] = 0]
  IN /\ ex[e].pc = "returning"
     /\ \/ ~ex[e].lost /\ Release(g) /\ Fine
        \/ /\ ~ex[e].lost /\ believes /\ Fault
           /\ UNCHANGED <<now, row, issued, era, owed, drainFor>>
        \/ /\ ex[e].lost /\ believes /\ Fine
           /\ UNCHANGED <<now, row, issued, era, owed, drainFor>>
     /\ ex' = [ex EXCEPT ![e] = Idle]
     /\ UNCHANGED run

Crash(e) ==
  /\ ex[e].pc # "idle" /\ crashes < MaxCrashes /\ crashes' = crashes + 1
  /\ believed' = [believed EXCEPT ![ex[e].lease] = 0]
  /\ ex' = [ex EXCEPT ![e] = Idle]
  /\ UNCHANGED <<now, row, issued, era, owed, drainFor, faults, hasAck>> /\ UNCHANGED run

-----------------------------------------------------------------------------
(* The world outside. *)

\* Is a new run about to be told from a cancel that predates it?
UndecidedFresh == \E e \in Executors : ex[e].pc = "collecting" /\ ex[e].read = "fresh"

\* Any process signals the run.  A cancel concerns a run that is stored.
Send(s) ==
  /\ Signal(s)
  /\ signalled < MaxSignals /\ signalled' = signalled + 1
  /\ asked' = (asked \/ (s = "cancel" /\ stored.phase = "active" /\ ~UndecidedFresh))
  /\ UNCHANGED <<ex, stored>> /\ Fine

RunTick == Tick /\ UNCHANGED ex /\ UNCHANGED run /\ Fine

\* A maintenance job drops keys nobody holds.
RunPrune(before) == Prune(before) /\ UNCHANGED ex /\ UNCHANGED run /\ Fine

RunInit ==
  /\ LeaseInit /\ ex = [e \in Executors |-> Idle]
  /\ stored = [phase |-> "none", rev |-> 0]
  /\ signalled = 0 /\ faults = 0 /\ crashes = 0 /\ asked = FALSE /\ hasAck \in Providers

Acts(e) ==
  \/ Claim(e) \/ FirstRenewal(e) \/ FirstRenewalFails(e)
  \/ Beat(e) \/ Answer(e)
  \/ Read(e) \/ Collect(e) \/ CollectMoot(e) \/ CollectLost(e)
  \/ Save(e) \/ Decide(e) \/ Drain(e) \/ Commit(e)
  \/ StopBeat(e) \/ End(e) \/ Return(e) \/ Crash(e)

RunNext ==
  \/ \E e \in Executors : Acts(e)
  \/ \E s \in Sent : Send(s)
  \/ RunTick \/ \E before \in 1..(MaxClock + Ttl) : RunPrune(before)

RunSpec == RunInit /\ [][RunNext]_runVars

\* The heartbeat is a timer; a stopped run reaches its next check, since the
\* abort signal ends the call it waits for; what it started it finishes.
GoesOn(e) ==
  \/ FirstRenewal(e) \/ Read(e) \/ Collect(e) \/ CollectMoot(e) \/ CollectLost(e)
  \/ (Aborted(e) /\ Decide(e)) \/ Commit(e) \/ StopBeat(e) \/ End(e) \/ Return(e)
Fair(e) == WF_runVars(Beat(e) \/ Answer(e)) /\ WF_runVars(GoesOn(e))

FairRunSpec == RunSpec /\ \A e \in Executors : Fair(e)

-----------------------------------------------------------------------------
\* Is a cancel that left the queue with an executor?
InHand(e) ==
  \/ ex[e].consumed
  \/ ~ex[e].collected /\ ex[e].found = "consumed"
  \/ ex[e].flight.kind = "answer" /\ "cancel" \in ex[e].flight.a.signals

\* A cancel accepted for a stored run that has not ended stays queued until the
\* run's end is stored, whoever drives it, fails to, or dies in between.  A
\* provider that takes what it delivers off the queue keeps it, on its way or
\* with an executor, while nothing failed, died or lapsed (no lease is Ttl old
\* yet).
CancelSurvives ==
  asked =>
    \/ row # NoRow /\ "cancel" \in row.signals
    \/ ~hasAck /\ (faults + crashes > 0 \/ now > Ttl \/ \E e \in Executors : InHand(e))

\* An executor that does not know it lost the lease, and whose last renewal
\* promised it the present, drives alone.
DrivesAlone ==
  \A d, e \in Executors :
    d # e /\ ex[d].pc \in Driving /\ ex[e].pc \in Driving /\ StillBelieved(d)
      => ~StillBelieved(e)

\* An ended run stays as it ended, however many executors still believe they
\* drive it.
EndedIsFinal ==
  [][stored.phase = "terminal" => UNCHANGED stored]_stored

\* The key is no longer under the executor's lease: taken over, or pruned.
Displaced(e) == row = NoRow \/ row.grant # ex[e].lease

\* A driver the key was taken from finds out and stops, also when a renewal
\* fails meanwhile: time and again nobody drives displaced
\* (agent-run-lease.ts:201-236).
StaleDriverStops ==
  []<>(\A e \in Executors : ex[e].pc \in Driving => ~Displaced(e))

\* A cancel accepted for the stored run stops whoever holds the key and drives
\* it, also when the answer that brought it was lost: time and again nobody
\* does (agent-run-lease.ts:195-222).
CancelStops ==
  []<>(\A e \in Executors :
         asked /\ hasAck /\ ex[e].pc = "driving" => Displaced(e))

=============================================================================

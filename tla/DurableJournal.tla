--------------------------- MODULE DurableJournal ---------------------------
(***************************************************************************)
(* Persist before publish                                                  *)
(* (packages/core/src/internal/durable-journal.ts, stream-durable.ts and   *)
(* the SSE shell of ui.ts): each response is the leg of one producer.  It  *)
(* takes the stream's lease, opens the stored stream with a fence, queues  *)
(* frames, commits them in batches, one commit in flight, and only then    *)
(* writes them to its client; it fails closed.                             *)
(*                                                                         *)
(* A call to the provider or the store may fail with or without having     *)
(* taken effect, its effect and its answer are separate steps wherever     *)
(* something else can run between them, a client may leave and a producer  *)
(* may die.                                                                *)
(*                                                                         *)
(* Abstractions: every frame weighs the same; timers fire at any moment;   *)
(* parts are their kind and seq.  Left out: retention of stored streams    *)
(* (they forget their fence), `append`, which the journal never calls, and *)
(* detached legs, which have no journal.                                   *)
(***************************************************************************)
EXTENDS LeaseProvider, SequencesExt

CONSTANTS
  MaxBatch,     \* how many frames commit a batch at once
  MaxFrames,    \* bound on the frames a source makes, the sentinel aside
  Transients,   \* does the source make transient frames?
  MaxFaults,    \* bound on failed calls
  MaxLeaves,    \* bound on clients that leave
  MaxCrashes,   \* bound on producers that die
  StoredFences  \* what earlier legs left: 0, or a fence whose key was pruned since

ASSUME JournalAssumption == MaxBatch \in Nat \ {0} /\ MaxFrames \in Nat /\ StoredFences \subseteq Nat

VARIABLES
  leg,       \* producer -> its leg
  stream,    \* the stored stream: its fence and its records
  mishaps    \* failed calls, clients gone, producers dead

journalVars == <<leaseVars, leg, stream, mishaps>>
onlyKey == <<now, issued, era, drainFor>>

Producers == Owners

Part(n) == [kind |-> "part", seq |-> n]
Done(n) == [kind |-> "done", seq |-> n]
Transient == [kind |-> "transient", seq |-> -1]
Error == [kind |-> "error", seq |-> -1]
Journaled(frame) == frame.kind \in {"part", "done"}
\* The journaled of some frames, in order.
Records(frames) ==
  LET among[n \in 0..Len(frames)] ==
        IF n = 0 THEN <<>>
        ELSE IF Journaled(frames[n]) THEN Append(among[n - 1], frames[n])
        ELSE among[n - 1]
  IN among[Len(frames)]

\* made is a ghost: what the source handed over, in order.
NoLeg ==
  [pc |-> "idle", lease |-> 0, fence |-> 0, seq |-> 0, made |-> <<>>,
   queue |-> <<>>, batch |-> <<>>, commit |-> "none", again |-> FALSE,
   window |-> FALSE, tail |-> <<>>, wire |-> <<>>, gone |-> FALSE,
   beat |-> "none", giving |-> FALSE]

Fine == UNCHANGED mishaps
Fault == mishaps.faults < MaxFaults /\ mishaps' = [mishaps EXCEPT !.faults = @ + 1]

Opening == {"opening", "checking", "reopening", "confirming"}
Ending == {"ending", "releasing", "returned", "closed"}
Ended == {"releasing", "returned", "closed"}
Halted(x) == x.pc = "halted"
InFlight(x) == x.commit # "none"

-----------------------------------------------------------------------------
(* What a leg does at once. *)

\* The response; nothing is written once it closed or the client left.
Sent(x, frames) == IF x.gone THEN x ELSE [x EXCEPT !.wire = @ \o frames]

\* The body closes: nothing reaches the client any more.
FailClosed(x) == [Sent(x, <<Error>>) EXCEPT !.gone = TRUE]

SendTail(x) == [Sent(x, x.tail) EXCEPT !.tail = <<>>]

Halt(x) ==
  IF Halted(x) THEN x
  ELSE [FailClosed(SendTail(x)) EXCEPT
          !.pc = "halted", !.queue = <<>>, !.window = FALSE, !.giving = TRUE,
          !.beat = IF @ = "armed" THEN "none" ELSE @]

\* Refused: this leg never reads its source.
Refused(x) == [FailClosed(x) EXCEPT !.pc = "closed", !.beat = "none"]

\* A batch of transients alone needs no commit.
Flush(x) ==
  IF x.queue = <<>> THEN [x EXCEPT !.window = FALSE]
  ELSE IF InFlight(x) THEN [x EXCEPT !.window = FALSE, !.again = TRUE]
  ELSE [x EXCEPT !.window = FALSE, !.batch = x.queue, !.queue = <<>>,
                 !.commit = IF Records(x.queue) = <<>> THEN "committed" ELSE "sent"]

OvertakesHasty(x, frame) == ~Journaled(frame) /\ x.queue = <<>>
Overtakes(x, frame) == ~Journaled(frame) /\ x.queue = <<>> /\ ~InFlight(x)

Push(x, frame) ==
  IF Overtakes(x, frame) THEN Sent(x, <<frame>>)
  ELSE LET y == [x EXCEPT !.queue = Append(@, frame)]
       IN IF Len(y.queue) >= MaxBatch THEN Flush(y) ELSE [y EXCEPT !.window = TRUE]

\* What was committed while the leg ends waits until its lease went back.
PublishedAtOnce(x) == Sent(x, x.batch)
Published(x) ==
  IF x.pc \in Ending THEN [x EXCEPT !.tail = @ \o x.batch] ELSE Sent(x, x.batch)

\* The commit is over; what arrived meanwhile may have to go at once.
SettledIdly(x) == [x EXCEPT !.batch = <<>>, !.commit = "none", !.again = FALSE]
Settled(x) ==
  LET y == [x EXCEPT !.batch = <<>>, !.commit = "none"]
  IN IF ~Halted(x) /\ (x.again \/ Len(x.queue) >= MaxBatch)
     THEN Flush([y EXCEPT !.again = FALSE]) ELSE y

-----------------------------------------------------------------------------
(* The stored stream. *)

LastSeq == Len(stream.records) - 1

Opens(fence) == stream.token <= fence
Opened(fence) ==
  stream' = IF Opens(fence) THEN [stream EXCEPT !.token = fence] ELSE stream

CommitAnswerAnywhere(fence, records) ==
  IF stream.token > fence THEN "fenced" ELSE "committed"
CommitAnswer(fence, records) ==
  IF stream.token > fence THEN "fenced"
  ELSE IF records[1].seq # LastSeq + 1 THEN "conflict"
  ELSE "committed"

Committed(p, records) ==
  stream' =
    IF CommitAnswer(leg[p].fence, records) = "committed"
    THEN [token |-> leg[p].fence,
          records |-> stream.records \o
                      [i \in 1..Len(records) |-> [by |-> p, kind |-> records[i].kind]]]
    ELSE stream

-----------------------------------------------------------------------------
(* Opening. *)

To(p, x) == leg' = [leg EXCEPT ![p] = x]

Take(p) ==
  /\ leg[p].pc = "idle"
  /\ Acquire(p)
  /\ \/ To(p, [leg[p] EXCEPT !.pc = "opening", !.lease = Len(issued) + 1,
                             !.fence = NextToken]) /\ Fine
     \/ To(p, Refused(leg[p])) /\ Fault
  /\ UNCHANGED stream

TakeRefused(p) ==
  /\ leg[p].pc = "idle" /\ ~Acquirable
  /\ To(p, Refused(leg[p])) /\ Fine
  /\ UNCHANGED <<leaseVars, stream>>

RenewedBy(x) ==
  /\ Renewed(x.lease, FALSE)
  /\ believed' = IF Renewable(x.lease)
                 THEN [believed EXCEPT ![x.lease] = now + Ttl] ELSE believed
  /\ UNCHANGED onlyKey

\* Opened: the source is read, and the lease renewed on a timer.
Producing(x) ==
  [x EXCEPT !.pc = "producing", !.seq = LastSeq + 1, !.beat = "armed"]

Open(p) ==
  LET x == leg[p]
  IN /\ x.pc = "opening"
     /\ Opened(x.fence)
     /\ To(p, IF Opens(x.fence) THEN Producing(x)
              ELSE [x EXCEPT !.pc = "checking", !.fence = stream.token + 1])
     /\ UNCHANGED leaseVars /\ Fine

\* Only the key's holder may fence past the stored token.
Check(p) ==
  LET x == leg[p]
  IN /\ x.pc = "checking"
     /\ RenewedBy(x)
     /\ To(p, IF Renewable(x.lease)
              THEN [x EXCEPT !.pc = "reopening"] ELSE [x EXCEPT !.pc = "refusing"])
     /\ UNCHANGED stream /\ Fine

\* Another producer may have derived the same fence: the renewal that follows
\* tells who holds the key now that this open landed.
ReopenedForGood(x) == Producing(x)
Reopened(x) == [x EXCEPT !.pc = "confirming", !.seq = LastSeq + 1]

Reopen(p) ==
  LET x == leg[p]
  IN /\ x.pc = "reopening"
     /\ Opened(x.fence)
     /\ To(p, IF Opens(x.fence) THEN Reopened(x) ELSE [x EXCEPT !.pc = "refusing"])
     /\ UNCHANGED leaseVars /\ Fine

Confirm(p) ==
  LET x == leg[p]
  IN /\ x.pc = "confirming"
     /\ RenewedBy(x)
     /\ To(p, IF Renewable(x.lease)
              THEN [x EXCEPT !.pc = "producing", !.beat = "armed"]
              ELSE [x EXCEPT !.pc = "refusing"])
     /\ UNCHANGED stream /\ Fine

OpenFails(p) ==
  LET x == leg[p]
  IN /\ x.pc \in Opening
     /\ \/ UNCHANGED <<leaseVars, stream>>
        \/ x.pc \in {"opening", "reopening"} /\ Opened(x.fence) /\ UNCHANGED leaseVars
        \/ x.pc \in {"checking", "confirming"} /\ RenewedBy(x) /\ UNCHANGED stream
     /\ To(p, [x EXCEPT !.pc = "refusing"])
     /\ Fault

\* A release that fails is not told: the lease lapses on its own.
ReleasedOrNot(x) ==
  /\ \/ Released(x.lease) /\ Fine
     \/ UNCHANGED row /\ Fault
  /\ UNCHANGED onlyKey /\ UNCHANGED <<believed, owed, stream>>

Refuse(p) ==
  /\ leg[p].pc = "refusing"
  /\ ReleasedOrNot(leg[p])
  /\ To(p, Refused(leg[p]))

-----------------------------------------------------------------------------
(* Producing. *)

Local(p, x) == To(p, x) /\ UNCHANGED <<leaseVars, stream, mishaps>>

Handed(x, frame) ==
  LET y == Push([x EXCEPT !.made = Append(@, frame)], frame)
  IN IF Journaled(frame) THEN [y EXCEPT !.seq = @ + 1] ELSE y

Make(p) ==
  LET x == leg[p]
  IN /\ x.pc = "producing" /\ Len(x.made) < MaxFrames
     /\ \E frame \in {Part(x.seq)} \cup (IF Transients THEN {Transient} ELSE {}) :
          Local(p, Handed(x, frame))

Window(p) == leg[p].window /\ Local(p, Flush(leg[p]))

\* The effect of a commit in flight; its producer may have halted since.
Commit(p) ==
  LET x == leg[p]
      records == Records(x.batch)
  IN /\ x.commit = "sent"
     /\ \/ /\ Committed(p, records) /\ Fine
           /\ To(p, [x EXCEPT !.commit = CommitAnswer(x.fence, records)])
        \/ /\ Committed(p, records) \/ UNCHANGED stream
           /\ Fault
           /\ To(p, [x EXCEPT !.commit = "failed"])
     /\ UNCHANGED leaseVars

AnswerAnyway(p) ==
  /\ leg[p].commit \in {"committed", "fenced", "conflict", "failed"}
  /\ Local(p, Settled(IF Halted(leg[p]) THEN leg[p] ELSE Published(leg[p])))

Answer(p) ==
  LET x == leg[p]
  IN /\ x.commit \in {"committed", "fenced", "conflict", "failed"}
     /\ Local(p, Settled(IF x.commit # "committed" THEN Halt(x)
                         ELSE IF Halted(x) THEN x ELSE Published(x)))

\* The source ended (or threw, without a sentinel): all of the queue is
\* committed, then the lease goes back, then the client reads the end.
End(p) ==
  LET x == leg[p]
  IN /\ x.pc = "producing"
     /\ \E y \in {Handed(x, Done(x.seq)), x} : Local(p, [y EXCEPT !.pc = "ending"])

DrainsQueueOnly(x) == x.queue = <<>>
Drains(x) == x.queue = <<>> /\ ~InFlight(x)

Drain(p) ==
  LET x == leg[p]
  IN /\ x.pc = "ending"
     /\ \/ ~InFlight(x) /\ x.queue # <<>> /\ Local(p, Flush(x))
        \/ Drains(x) /\ Local(p, [x EXCEPT !.pc = "releasing", !.window = FALSE,
                                           !.beat = IF @ = "armed" THEN "none" ELSE @])

Return(p) ==
  /\ leg[p].pc = "releasing"
  /\ ReleasedOrNot(leg[p])
  /\ To(p, [leg[p] EXCEPT !.pc = "returned"])

Close(p) ==
  LET x == leg[p]
  IN x.pc = "returned" /\ Local(p, [SendTail(x) EXCEPT !.pc = "closed", !.gone = TRUE])

GiveBack(p) ==
  /\ leg[p].giving
  /\ ReleasedOrNot(leg[p])
  /\ To(p, [leg[p] EXCEPT !.giving = FALSE])

-----------------------------------------------------------------------------
(* The lease, renewed on a timer.  Its effect and its answer may be late. *)

Beat(p) == leg[p].beat = "armed" /\ Local(p, [leg[p] EXCEPT !.beat = "sent"])

Beaten(p) ==
  LET x == leg[p]
  IN /\ x.beat = "sent"
     /\ \/ /\ RenewedBy(x) /\ Fine
           /\ To(p, [x EXCEPT !.beat = IF Renewable(x.lease) THEN "held" ELSE "lost"])
        \/ /\ RenewedBy(x) \/ UNCHANGED leaseVars
           /\ Fault
           /\ To(p, [x EXCEPT !.beat = "failed"])
     /\ UNCHANGED stream

\* A hiccup is not the end: the timer is set again.
RearmsWhenHeld(x) == ~Halted(x) /\ x.pc \notin Ended /\ x.beat = "held"
Rearms(x) == ~Halted(x) /\ x.pc \notin Ended

Beating(p) ==
  LET x == leg[p]
  IN /\ x.beat \in {"held", "lost", "failed"}
     /\ Local(p, IF x.beat = "lost" THEN [Halt(x) EXCEPT !.beat = "none"]
                 ELSE [x EXCEPT !.beat = IF Rearms(x) THEN "armed" ELSE "none"])

-----------------------------------------------------------------------------
(* The world. *)

Leave(p) ==
  /\ mishaps.leaves < MaxLeaves /\ leg[p].pc \in {"producing"} \cup Ending
  /\ ~leg[p].gone
  /\ leg' = [leg EXCEPT ![p].gone = TRUE]
  /\ mishaps' = [mishaps EXCEPT !.leaves = @ + 1]
  /\ UNCHANGED <<leaseVars, stream>>

Crash(p) ==
  /\ mishaps.crashes < MaxCrashes /\ leg[p].pc \notin {"idle", "closed", "dead"}
  /\ To(p, [NoLeg EXCEPT !.pc = "dead", !.lease = leg[p].lease, !.fence = leg[p].fence,
                         !.made = leg[p].made, !.wire = leg[p].wire])
  /\ mishaps' = [mishaps EXCEPT !.crashes = @ + 1]
  /\ UNCHANGED <<leaseVars, stream>>

JournalPrune(before) == Prune(before) /\ UNCHANGED <<leg, stream, mishaps>>

JournalTick == Tick /\ UNCHANGED <<leg, stream, mishaps>>

-----------------------------------------------------------------------------
JournalInit ==
  /\ LeaseInit
  /\ leg = [p \in Producers |-> NoLeg]
  /\ stream \in [token : StoredFences, records : {<<>>}]
  /\ mishaps = [faults |-> 0, leaves |-> 0, crashes |-> 0]

\* What a producer goes on to do by itself: calls answer, timers fire.
Steps(p) ==
  \/ Open(p) \/ Check(p) \/ Reopen(p) \/ Confirm(p) \/ Refuse(p)
  \/ Window(p) \/ Commit(p) \/ Answer(p)
  \/ Drain(p) \/ Return(p) \/ Close(p) \/ GiveBack(p)
Heart(p) == Beat(p) \/ Beaten(p) \/ Beating(p)

JournalNext ==
  \/ \E p \in Producers :
       \/ Take(p) \/ TakeRefused(p) \/ OpenFails(p) \/ Make(p) \/ End(p)
       \/ Steps(p) \/ Heart(p)
       \/ Leave(p) \/ Crash(p)
  \/ \E before \in 1..(MaxClock + Ttl) : JournalPrune(before)
  \/ JournalTick

JournalSpec == JournalInit /\ [][JournalNext]_journalVars

FairJournalSpec ==
  /\ JournalSpec
  /\ \A p \in Producers : WF_journalVars(Steps(p)) /\ WF_journalVars(Heart(p))

-----------------------------------------------------------------------------
StoredBy(p) == {i \in DOMAIN stream.records : stream.records[i].by = p}
IsOpen(p) == leg[p].pc \in {"producing", "ending", "releasing", "returned"}

\* A client never holds a frame the store lacks: what is on a wire under an
\* event id is stored under that seq by the same leg
\* (internal/durable-journal.ts:16-17).
PersistBeforePublish ==
  \A p \in Producers : \A i \in DOMAIN leg[p].wire :
    LET frame == leg[p].wire[i]
    IN Journaled(frame) => /\ frame.seq + 1 \in StoredBy(p)
                           /\ stream.records[frame.seq + 1].kind = frame.kind

\* What a client read is what the source made, from the first frame on,
\* transient frames in their place, with an error frame at most at the end.
WireKeepsOrder ==
  \A p \in Producers :
    LET wire == leg[p].wire
        told == IF wire # <<>> /\ Last(wire) = Error THEN Front(wire) ELSE wire
    IN IsPrefix(told, leg[p].made)

\* However producers took over from each other, shared a fence or died, the
\* records of a leg are contiguous: no two legs interleave in a stream.
LegsDoNotInterleave ==
  \A p \in Producers : \A i, j \in StoredBy(p) : i..j \subseteq StoredBy(p)

\* q goes on from p in one era of the key.
Follows(q, p) ==
  /\ leg[p].lease # 0 /\ IsOpen(q) /\ leg[q].lease > leg[p].lease
  /\ issued[leg[q].lease].era = issued[leg[p].lease].era

\* q's own token is the fence p once derived above its token.
CaughtUp(q, p) ==
  leg[q].fence = leg[p].fence /\ leg[q].fence = issued[leg[q].lease].token

\* A stale producer's commit is refused: once a later holder of the key has
\* opened the stream, nothing of an earlier one is stored
\* (types/stream-durable.ts:5-7), a prune in between aside (ibid.:115-116).
StaleCommitIsRefused ==
  [][\A p, q \in Producers : Follows(q, p) => StoredBy(p)' = StoredBy(p)]_journalVars

\* So it is, unless the later holder's token happens to be the earlier one's
\* derived fence (internal/durable-journal.ts:141-147).
OlderFenceIsRefused ==
  [][\A p, q \in Producers :
       Follows(q, p) /\ ~CaughtUp(q, p) => StoredBy(p)' = StoredBy(p)]_journalVars

\* A stream is stored by one leg at a time, and only by the latest to open it.
OneLegAtATime == []LegsDoNotInterleave /\ OlderFenceIsRefused

\* A client that reads the end of a leg finds the lease free for the next
\* one (internal/durable-journal.ts:45-47).
EndMeansFree ==
  \A p \in Producers :
    /\ leg[p].wire # <<>> /\ Last(leg[p].wire).kind = "done" /\ mishaps.faults = 0
    => ~(Held /\ row.grant = leg[p].lease)

\* Whatever a source made is stored unless its journal fails closed, without
\* waiting for more to come.
EverythingIsCommitted ==
  \A p \in Producers : \A n \in 1..(MaxFrames + 1) :
    Len(Records(leg[p].made)) >= n
      ~> Cardinality(StoredBy(p)) >= n \/ leg[p].pc \in {"halted", "dead"}

\* A leg that ends closes with all its source made on the wire, or fails
\* closed.
EndedLegCloses ==
  \A p \in Producers :
    leg[p].pc = "ending" ~>
      \/ leg[p].pc = "closed" /\ (mishaps.leaves = 0 => leg[p].wire = leg[p].made)
      \/ leg[p].pc \in {"halted", "dead"}

\* A producer another one replaced notices, however quiet its source is.
StaleProducerStops ==
  \A p \in Producers :
    leg[p].lease # 0 /\ ~SameHolder(leg[p].lease) ~> ~IsOpen(p)

=============================================================================

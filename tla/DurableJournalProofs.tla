------------------------ MODULE DurableJournalProofs ------------------------
(***************************************************************************)
(* Proofs about DurableJournal, for any producers, batches, bounds and     *)
(* stored fences.  Every step is one of a few moves of one leg (Moves,     *)
(* Takes, Lands), which say what becomes of its frames, its name and its   *)
(* fence; each result has an invariant over a leg (Ledger, Order, Ends,    *)
(* FenceOf) that every move keeps.                                         *)
(***************************************************************************)
EXTENDS DurableJournal, LeaseProviderProofs, WellFoundedInduction

-----------------------------------------------------------------------------
(* The records of a sequence of frames. *)

(* A set of numbers that has 0 and the successor of each has them all: the   *)
(* least number outside of it would have a predecessor outside.              *)
LEMMA CountingUp ==
  ASSUME NEW N, N \subseteq Nat, 0 \in N, \A n \in N : n + 1 \in N
  PROVE  N = Nat
<1> DEFINE T == Nat \ N
           R == {d \in Nat \X Nat : d[1] < d[2]}
<1>1. R = OpToRel(<, Nat)
  BY DEF OpToRel
<1>2. ASSUME T # {} PROVE FALSE
  <2> HIDE DEF T, R
  <2>1. IsWellFoundedOn(R, Nat)
    BY <1>1, NatLessThanWellFounded
  <2>2. PICK n \in T : \A m \in T : ~(<<m, n>> \in R)
    <3>1. T \subseteq Nat
      BY DEF T
    <3> QED BY <1>2, <2>1, <3>1, WFMin
  <2>3. n \in Nat /\ n \notin N /\ n # 0
    BY <2>2 DEF T
  <2>4. n - 1 \in Nat /\ n - 1 \notin N
    <3>1. n - 1 \in Nat /\ (n - 1) + 1 = n
      BY <2>3
    <3> QED BY <2>3, <3>1
  <2>5. <<n - 1, n>> \in R
    BY <2>3, <2>4 DEF R
  <2> QED BY <2>2, <2>4, <2>5 DEF T
<1> QED BY <1>2

\* What Records computes: the journaled among the first n frames.
Among(frames, f) ==
  f = [n \in 0..Len(frames) |->
         IF n = 0 THEN <<>>
         ELSE IF Journaled(frames[n]) THEN Append(f[n - 1], frames[n])
         ELSE f[n - 1]]

\* The same, up to the frame k only.
AmongUpTo(frames, k, f) ==
  f = [n \in 0..k |->
         IF n = 0 THEN <<>>
         ELSE IF Journaled(frames[n]) THEN Append(f[n - 1], frames[n])
         ELSE f[n - 1]]

LEMMA AmongExists ==
  ASSUME NEW S, NEW frames \in Seq(S)
  PROVE  \E f : Among(frames, f)
<1> DEFINE N == {k \in Nat : \E f : AmongUpTo(frames, k, f)}
<1>1. 0 \in N
  <2>1. AmongUpTo(frames, 0, [n \in 0..0 |-> <<>>])
    BY DEF AmongUpTo
  <2> QED BY <2>1
<1>2. ASSUME NEW k \in N PROVE k + 1 \in N
  <2>1. PICK f : AmongUpTo(frames, k, f)
    BY <1>2
  <2> DEFINE last == IF Journaled(frames[k + 1]) THEN Append(f[k], frames[k + 1]) ELSE f[k]
             g == [n \in 0..(k + 1) |-> IF n = k + 1 THEN last ELSE f[n]]
  <2>2. k \in Nat
    BY <1>2
  <2>3. ASSUME NEW n \in 0..(k + 1)
        PROVE g[n] = IF n = 0 THEN <<>>
                     ELSE IF Journaled(frames[n]) THEN Append(g[n - 1], frames[n])
                     ELSE g[n - 1]
    <3>1. CASE n = k + 1
      BY <2>2, <3>1
    <3>2. CASE n # k + 1
      <4>1. n \in 0..k /\ (n # 0 => n - 1 \in 0..k)
        BY <2>2, <3>2
      <4>2. g[n] = f[n] /\ (n # 0 => g[n - 1] = f[n - 1])
        BY <2>2, <3>2, <4>1
      <4>3. f[n] = IF n = 0 THEN <<>>
                   ELSE IF Journaled(frames[n]) THEN Append(f[n - 1], frames[n])
                   ELSE f[n - 1]
        BY <2>1, <4>1 DEF AmongUpTo
      <4> QED BY <4>1, <4>2, <4>3
    <3> QED BY <3>1, <3>2
  <2>4. AmongUpTo(frames, k + 1, g)
    <3> HIDE DEF last
    <3>1. g = [n \in 0..(k + 1) |-> g[n]]
      OBVIOUS
    <3> HIDE DEF g
    <3> QED BY <2>3, <3>1 DEF AmongUpTo
  <2> QED BY <2>2, <2>4
<1>3. N = Nat
  <2>1. N \subseteq Nat
    OBVIOUS
  <2> HIDE DEF N
  <2> QED BY <1>1, <1>2, <2>1, CountingUp
<1>4. Len(frames) \in N
  <2>1. Len(frames) \in Nat
    OBVIOUS
  <2> HIDE DEF N
  <2> QED BY <1>3, <2>1
<1> QED BY <1>4 DEF Among, AmongUpTo

LEMMA AmongIs ==
  ASSUME NEW S, NEW frames \in Seq(S)
  PROVE  \E f : Among(frames, f) /\ Records(frames) = f[Len(frames)]
<1> DEFINE f == CHOOSE f : Among(frames, f)
<1>1. Among(frames, f)
  <2>1. \E g : Among(frames, g)
    BY AmongExists
  <2> QED BY <2>1
<1>2. Records(frames) = f[Len(frames)]
  BY Zenon DEF Records, Among
<1> QED BY <1>1, <1>2

LEMMA AmongFirst ==
  ASSUME NEW S, NEW frames \in Seq(S), NEW f, Among(frames, f)
  PROVE  f[0] = <<>>
<1>1. 0 \in 0..Len(frames)
  OBVIOUS
<1> QED BY <1>1 DEF Among

LEMMA AmongNext ==
  ASSUME NEW S, NEW frames \in Seq(S), NEW f, Among(frames, f),
         NEW n \in Nat, n + 1 <= Len(frames)
  PROVE  f[n + 1] = IF Journaled(frames[n + 1]) THEN Append(f[n], frames[n + 1]) ELSE f[n]
<1> DEFINE m == n + 1
<1>1. m \in 0..Len(frames) /\ m # 0 /\ m - 1 = n
  OBVIOUS
<1> HIDE DEF m
<1>2. f[m] = IF Journaled(frames[m]) THEN Append(f[m - 1], frames[m]) ELSE f[m - 1]
  BY <1>1 DEF Among
<1>3. f[m] = IF Journaled(frames[m]) THEN Append(f[n], frames[m]) ELSE f[n]
  BY <1>1, <1>2
<1> QED BY <1>3 DEF m

\* Up to a frame, what is among one sequence is among another that agrees.
LEMMA AmongAgree ==
  ASSUME NEW S, NEW s \in Seq(S), NEW t \in Seq(S), NEW f, NEW g,
         Among(s, f), Among(t, g), NEW k \in Nat, k <= Len(s), k <= Len(t),
         \A n \in 1..k : s[n] = t[n]
  PROVE  f[k] = g[k]
<1> DEFINE N == {n \in Nat : n <= k => f[n] = g[n]}
<1>1. 0 \in N
  BY AmongFirst
<1>2. ASSUME NEW n \in N PROVE n + 1 \in N
  <2>1. CASE n + 1 <= k
    <3>1. n \in Nat /\ f[n] = g[n]
      BY <1>2, <2>1
    <3>2. s[n + 1] = t[n + 1] /\ n + 1 <= Len(s) /\ n + 1 <= Len(t)
      BY <2>1, <3>1
    <3>3. f[n + 1] = IF Journaled(s[n + 1]) THEN Append(f[n], s[n + 1]) ELSE f[n]
      BY <3>1, <3>2, AmongNext
    <3>4. g[n + 1] = IF Journaled(t[n + 1]) THEN Append(g[n], t[n + 1]) ELSE g[n]
      BY <3>1, <3>2, AmongNext
    <3> QED BY <3>1, <3>2, <3>3, <3>4
  <2>2. CASE ~(n + 1 <= k)
    BY <2>2, <1>2
  <2> QED BY <2>1, <2>2
<1>3. N = Nat
  <2>1. N \subseteq Nat
    OBVIOUS
  <2> HIDE DEF N
  <2> QED BY <1>1, <1>2, <2>1, CountingUp
<1>4. k \in N
  BY <1>3
<1> QED BY <1>4

\* The journaled frames among the first n of s, and no other, are in r.
Finds(S, s, n, r) ==
  /\ r \in Seq(S)
  /\ \A i \in 1..n : Journaled(s[i]) => \E j \in 1..Len(r) : r[j] = s[i]
  /\ \A j \in 1..Len(r) : \E i \in 1..n : Journaled(s[i]) /\ r[j] = s[i]

LEMMA FindsOneMore ==
  ASSUME NEW S, NEW s \in Seq(S), NEW n \in Nat, n + 1 <= Len(s),
         NEW r, Finds(S, s, n, r)
  PROVE  Finds(S, s, n + 1, IF Journaled(s[n + 1]) THEN Append(r, s[n + 1]) ELSE r)
<1>1. r \in Seq(S) /\ s[n + 1] \in S /\ n + 1 \in 1..(n + 1)
  BY DEF Finds
<1>2. CASE Journaled(s[n + 1])
  <2> DEFINE q == Append(r, s[n + 1])
  <2>1. /\ q \in Seq(S) /\ Len(q) = Len(r) + 1
        /\ \A j \in 1..Len(r) : q[j] = r[j]
        /\ q[Len(r) + 1] = s[n + 1]
    BY <1>1, AppendProperties
  <2> HIDE DEF q
  <2>2. ASSUME NEW i \in 1..(n + 1), Journaled(s[i])
        PROVE  \E j \in 1..Len(q) : q[j] = s[i]
    <3>1. CASE i = n + 1
      <4>1. Len(r) + 1 \in 1..Len(q)
        BY <1>1, <2>1
      <4> QED BY <3>1, <4>1, <2>1
    <3>2. CASE i # n + 1
      <4>1. i \in 1..n
        BY <3>2
      <4>2. PICK j \in 1..Len(r) : r[j] = s[i]
        BY <4>1, <2>2 DEF Finds
      <4>3. j \in 1..Len(q)
        BY <1>1, <2>1, <4>2
      <4> QED BY <4>2, <4>3, <2>1
    <3> QED BY <3>1, <3>2
  <2>3. ASSUME NEW j \in 1..Len(q)
        PROVE  \E i \in 1..(n + 1) : Journaled(s[i]) /\ q[j] = s[i]
    <3>1. CASE j = Len(r) + 1
      BY <3>1, <2>1, <1>1, <1>2
    <3>2. CASE j # Len(r) + 1
      <4>1. j \in 1..Len(r)
        BY <3>2, <2>1, <1>1
      <4>2. PICK i \in 1..n : Journaled(s[i]) /\ r[j] = s[i]
        BY <4>1 DEF Finds
      <4>3. i \in 1..(n + 1)
        BY <4>2
      <4> QED BY <4>1, <4>2, <4>3, <2>1
    <3> QED BY <3>1, <3>2
  <2>4. Finds(S, s, n + 1, q)
    BY <2>1, <2>2, <2>3 DEF Finds
  <2> QED BY <1>2, <2>4 DEF q
<1>3. CASE ~Journaled(s[n + 1])
  <2>1. \A i \in 1..(n + 1) : Journaled(s[i]) => i \in 1..n
    BY <1>3
  <2>2. \A i \in 1..n : i \in 1..(n + 1)
    OBVIOUS
  <2>3. Finds(S, s, n + 1, r)
    BY <2>1, <2>2 DEF Finds
  <2> QED BY <1>3, <2>3
<1> QED BY <1>2, <1>3

LEMMA AmongFinds ==
  ASSUME NEW S, NEW s \in Seq(S), NEW f, Among(s, f)
  PROVE  Finds(S, s, Len(s), f[Len(s)])
<1> DEFINE N == {n \in Nat : n <= Len(s) => Finds(S, s, n, f[n])}
<1>1. 0 \in N
  <2>1. f[0] = <<>>
    BY AmongFirst
  <2>2. Finds(S, s, 0, <<>>)
    BY DEF Finds
  <2> QED BY <2>1, <2>2
<1>2. ASSUME NEW n \in N PROVE n + 1 \in N
  <2>1. CASE n + 1 <= Len(s)
    <3>1. n \in Nat /\ Finds(S, s, n, f[n]) /\ n + 1 \in 0..Len(s)
      BY <1>2, <2>1
    <3>2. f[n + 1] = IF Journaled(s[n + 1]) THEN Append(f[n], s[n + 1]) ELSE f[n]
      BY <2>1, <3>1, AmongNext
    <3>3. Finds(S, s, n + 1, f[n + 1])
      BY <2>1, <3>1, <3>2, FindsOneMore
    <3> QED BY <3>1, <3>3
  <2>2. CASE ~(n + 1 <= Len(s))
    BY <2>2, <1>2
  <2> QED BY <2>1, <2>2
<1>3. N = Nat
  <2>1. N \subseteq Nat
    OBVIOUS
  <2> HIDE DEF N
  <2> QED BY <1>1, <1>2, <2>1, CountingUp
<1>4. Len(s) \in N
  BY <1>3
<1> QED BY <1>4

(* Records of no frames. *)
LEMMA RecordsEmpty == Records(<<>>) = <<>>
<1>1. <<>> \in Seq({}) /\ Len(<<>>) = 0
  OBVIOUS
<1>2. PICK f : Among(<<>>, f) /\ Records(<<>>) = f[Len(<<>>)]
  BY <1>1, AmongIs
<1>3. f[0] = <<>>
  BY <1>1, <1>2, AmongFirst
<1> QED BY <1>1, <1>2, <1>3

(* Records of one more frame. *)
LEMMA RecordsAppend ==
  ASSUME NEW S, NEW s \in Seq(S), NEW e \in S
  PROVE  Records(Append(s, e)) =
           IF Journaled(e) THEN Append(Records(s), e) ELSE Records(s)
<1> DEFINE t == Append(s, e)
<1>1. /\ t \in Seq(S) /\ Len(t) = Len(s) + 1 /\ t[Len(s) + 1] = e
      /\ \A n \in 1..Len(s) : s[n] = t[n]
  OBVIOUS
<1> HIDE DEF t
<1>2. PICK f : Among(s, f) /\ Records(s) = f[Len(s)]
  BY AmongIs
<1>3. PICK g : Among(t, g) /\ Records(t) = g[Len(t)]
  BY <1>1, AmongIs
<1>4. f[Len(s)] = g[Len(s)]
  <2>1. Len(s) \in Nat /\ Len(s) <= Len(t)
    BY <1>1
  <2> QED BY <1>1, <1>2, <1>3, <2>1, AmongAgree
<1>5. g[Len(s) + 1] = IF Journaled(e) THEN Append(g[Len(s)], e) ELSE g[Len(s)]
  <2> DEFINE k == Len(s)
  <2>1. k \in Nat /\ k + 1 <= Len(t) /\ t[k + 1] = e
    BY <1>1
  <2> HIDE DEF k
  <2>2. g[k + 1] = IF Journaled(t[k + 1]) THEN Append(g[k], t[k + 1]) ELSE g[k]
    BY <1>1, <1>3, <2>1, AmongNext
  <2> QED BY <2>1, <2>2 DEF k
<1> QED BY <1>1, <1>2, <1>3, <1>4, <1>5 DEF t

(* Records has the journaled frames of a sequence, and no other. *)
LEMMA RecordsHas ==
  ASSUME NEW S, NEW s \in Seq(S)
  PROVE  Finds(S, s, Len(s), Records(s))
<1>1. PICK f : Among(s, f) /\ Records(s) = f[Len(s)]
  BY AmongIs
<1> QED BY <1>1, AmongFinds

-----------------------------------------------------------------------------
(* The legs. *)

Early == {"idle", "refusing"} \cup Opening
PCs == Early \cup {"producing", "halted", "dead"} \cup Ending
Frames == [kind : {"part", "done", "transient", "error"}, seq : Int]
Answers == {"committed", "fenced", "conflict", "failed"}
Beats == {"none", "armed", "sent", "held", "lost", "failed"}

Legs ==
  [pc : PCs, lease : Nat, fence : Nat, seq : Nat, made : Seq(Frames),
   queue : Seq(Frames), batch : Seq(Frames), commit : Answers \cup {"none", "sent"},
   again : BOOLEAN, window : BOOLEAN, tail : Seq(Frames), wire : Seq(Frames),
   gone : BOOLEAN, beat : Beats, giving : BOOLEAN]

\* What two moments of a leg have in common.
SameId(x, y) == y.lease = x.lease /\ y.fence = x.fence
SameBook(x, y) == SameId(x, y) /\ y.seq = x.seq /\ y.made = x.made
SameLine(x, y) == y.queue = x.queue /\ y.batch = x.batch /\ y.commit = x.commit
SameOut(x, y) == y.tail = x.tail /\ y.wire = x.wire /\ y.gone = x.gone
SameDuty(x, y) == y.beat = x.beat /\ y.giving = x.giving

\* The queue becomes the batch.
Batched(x, y) ==
  /\ x.commit = "none" /\ x.queue # <<>> /\ y.queue = <<>> /\ y.batch = x.queue
  /\ y.commit = IF Records(x.queue) = <<>> THEN "committed" ELSE "sent"

LEMMA SentIs ==
  ASSUME NEW x \in Legs, NEW frames \in Seq(Frames)
  PROVE  LET y == Sent(x, frames)
         IN /\ y \in Legs /\ y.pc = x.pc /\ SameBook(x, y) /\ SameLine(x, y)
            /\ SameDuty(x, y) /\ y.tail = x.tail /\ y.gone = x.gone
            /\ y.wire = IF x.gone THEN x.wire ELSE x.wire \o frames
<1> DEFINE w == x.wire \o frames
<1>1. w \in Seq(Frames)
  BY DEF Legs
<1> HIDE DEF w
<1>2. [x EXCEPT !.wire = w] \in Legs
  BY <1>1 DEF Legs
<1>3. Sent(x, frames) = IF x.gone THEN x ELSE [x EXCEPT !.wire = w]
  BY DEF Sent, w
<1>4. CASE x.gone
  BY <1>3, <1>4 DEF SameBook, SameId, SameLine, SameDuty
<1>5. CASE ~x.gone
  <2> DEFINE y == [x EXCEPT !.wire = w]
  <2>1. Sent(x, frames) = y
    BY <1>3, <1>5
  <2>2. y \in Legs /\ y.pc = x.pc /\ SameBook(x, y) /\ SameLine(x, y)
            /\ SameDuty(x, y) /\ y.tail = x.tail /\ y.gone = x.gone
            /\ y.wire = w
    BY <1>2 DEF SameBook, SameId, SameLine, SameDuty, Legs
  <2> HIDE DEF y
  <2> QED BY <1>5, <2>1, <2>2 DEF w
<1> QED BY <1>4, <1>5

LEMMA FailClosedIs ==
  ASSUME NEW x \in Legs
  PROVE  LET y == FailClosed(x)
         IN /\ y \in Legs /\ y.pc = x.pc /\ SameBook(x, y) /\ SameLine(x, y)
            /\ SameDuty(x, y) /\ y.tail = x.tail /\ y.gone
            /\ y.wire = IF x.gone THEN x.wire ELSE x.wire \o <<Error>>
<1> DEFINE z == Sent(x, <<Error>>)
           y == [z EXCEPT !.gone = TRUE]
<1>1. <<Error>> \in Seq(Frames)
  BY DEF Error, Frames
<1>2. /\ z \in Legs /\ z.pc = x.pc /\ SameBook(x, z) /\ SameLine(x, z)
      /\ SameDuty(x, z) /\ z.tail = x.tail
      /\ z.wire = IF x.gone THEN x.wire ELSE x.wire \o <<Error>>
  BY <1>1, SentIs
<1> HIDE DEF z
<1>3. y \in Legs /\ y.pc = z.pc /\ SameBook(z, y) /\ SameLine(z, y)
      /\ SameDuty(z, y) /\ y.tail = z.tail /\ y.gone /\ y.wire = z.wire
  BY <1>2 DEF Legs, SameBook, SameId, SameLine, SameDuty
<1>4. FailClosed(x) = y
  BY DEF FailClosed, z
<1> HIDE DEF y
<1> QED BY <1>2, <1>3, <1>4 DEF SameBook, SameId, SameLine, SameDuty

LEMMA SendTailIs ==
  ASSUME NEW x \in Legs
  PROVE  LET y == SendTail(x)
         IN /\ y \in Legs /\ y.pc = x.pc /\ SameBook(x, y) /\ SameLine(x, y)
            /\ SameDuty(x, y) /\ y.tail = <<>> /\ y.gone = x.gone
            /\ y.wire = IF x.gone THEN x.wire ELSE x.wire \o x.tail
<1> DEFINE z == Sent(x, x.tail)
           y == [z EXCEPT !.tail = <<>>]
<1>1. x.tail \in Seq(Frames) /\ <<>> \in Seq(Frames)
  BY DEF Legs
<1>2. /\ z \in Legs /\ z.pc = x.pc /\ SameBook(x, z) /\ SameLine(x, z)
      /\ SameDuty(x, z) /\ z.gone = x.gone
      /\ z.wire = IF x.gone THEN x.wire ELSE x.wire \o x.tail
  BY <1>1, SentIs
<1> HIDE DEF z
<1>3. y \in Legs /\ y.pc = z.pc /\ SameBook(z, y) /\ SameLine(z, y)
      /\ SameDuty(z, y) /\ y.tail = <<>> /\ y.gone = z.gone /\ y.wire = z.wire
  BY <1>1, <1>2 DEF Legs, SameBook, SameId, SameLine, SameDuty
<1>4. SendTail(x) = y
  BY DEF SendTail, z
<1> HIDE DEF y
<1> QED BY <1>2, <1>3, <1>4 DEF SameBook, SameId, SameLine, SameDuty

\* A leg that fails closed: what waits is sent, then an error.
Halts(x, y) ==
  /\ y.pc = "halted" /\ SameBook(x, y) /\ y.queue = <<>>
  /\ y.batch = x.batch /\ y.commit = x.commit
  /\ y.tail = <<>> /\ y.gone
  /\ y.wire = IF x.gone THEN x.wire ELSE (x.wire \o x.tail) \o <<Error>>

LEMMA HaltIs ==
  ASSUME NEW x \in Legs
  PROVE  LET y == Halt(x)
         IN /\ y \in Legs
            /\ x.pc = "halted" => y = x
            /\ x.pc # "halted" => Halts(x, y) /\ y.giving
                                  /\ y.beat = IF x.beat = "armed" THEN "none" ELSE x.beat
<1>1. CASE x.pc = "halted"
  BY <1>1 DEF Halt, Halted
<1>2. CASE x.pc # "halted"
  <2> DEFINE z == FailClosed(SendTail(x))
             b == IF x.beat = "armed" THEN "none" ELSE x.beat
             y == [z EXCEPT !.pc = "halted", !.queue = <<>>, !.window = FALSE,
                            !.giving = TRUE, !.beat = b]
  <2>1. /\ z \in Legs /\ SameBook(x, z) /\ SameLine(x, z) /\ SameDuty(x, z)
        /\ z.tail = <<>> /\ z.gone
        /\ z.wire = IF x.gone THEN x.wire ELSE (x.wire \o x.tail) \o <<Error>>
    BY SendTailIs, FailClosedIs DEF SameBook, SameId, SameLine, SameDuty
  <2>2. Halt(x) = [z EXCEPT !.pc = "halted", !.queue = <<>>, !.window = FALSE,
                            !.giving = TRUE, !.beat = IF @ = "armed" THEN "none" ELSE @]
    BY <1>2 DEF Halt, Halted
  <2>3. b \in Beats /\ b = IF z.beat = "armed" THEN "none" ELSE z.beat
    BY <2>1 DEF Legs, Beats, SameDuty
  <2> HIDE DEF z, b
  <2>4. Halt(x) = y
    BY <2>2, <2>3
  <2>5. <<>> \in Seq(Frames) /\ "halted" \in PCs
    BY DEF PCs
  <2>6. y \in Legs /\ y.pc = "halted" /\ SameBook(z, y) /\ y.queue = <<>> /\ y.batch = z.batch
        /\ y.commit = z.commit /\ y.tail = z.tail /\ y.gone = z.gone /\ y.wire = z.wire
        /\ y.giving /\ y.beat = b
    BY <2>1, <2>3, <2>5 DEF Legs, SameBook, SameId
  <2> HIDE DEF y
  <2> QED BY <1>2, <2>1, <2>4, <2>6 DEF Halts, SameBook, SameId, SameLine, b
<1> QED BY <1>1, <1>2

LEMMA FlushIs ==
  ASSUME NEW x \in Legs
  PROVE  LET y == Flush(x)
         IN /\ y \in Legs /\ y.pc = x.pc /\ SameBook(x, y) /\ SameOut(x, y)
            /\ SameDuty(x, y) /\ (SameLine(x, y) \/ Batched(x, y))
<1>1. CASE x.queue = <<>>
  BY <1>1 DEF Flush, Legs, SameBook, SameId, SameOut, SameDuty, SameLine
<1>2. CASE x.queue # <<>> /\ x.commit # "none"
  BY <1>2 DEF Flush, InFlight, Legs, SameBook, SameId, SameOut, SameDuty, SameLine
<1>3. CASE x.queue # <<>> /\ x.commit = "none"
  <2> DEFINE c == IF Records(x.queue) = <<>> THEN "committed" ELSE "sent"
             y == [x EXCEPT !.window = FALSE, !.batch = x.queue, !.queue = <<>>, !.commit = c]
  <2>1. Flush(x) = y
    BY <1>3 DEF Flush, InFlight
  <2>2. c \in Answers \cup {"none", "sent"} /\ <<>> \in Seq(Frames)
    BY DEF Answers
  <2> HIDE DEF c
  <2>3. y \in Legs /\ y.pc = x.pc /\ SameBook(x, y) /\ SameOut(x, y) /\ SameDuty(x, y)
        /\ y.queue = <<>> /\ y.batch = x.queue /\ y.commit = c
    BY <2>2 DEF Legs, SameBook, SameId, SameOut, SameDuty
  <2> HIDE DEF y
  <2> QED BY <1>3, <2>1, <2>3 DEF Batched, c
<1> QED BY <1>1, <1>2, <1>3

\* A frame joins the line: it overtakes an empty one, waits, or is flushed with it.
Joins(x, frame, y) ==
  \/ /\ ~Journaled(frame) /\ x.queue = <<>> /\ x.commit = "none"
     /\ SameLine(x, y) /\ y.tail = x.tail /\ y.gone = x.gone
     /\ y.wire = IF x.gone THEN x.wire ELSE x.wire \o <<frame>>
  \/ /\ SameOut(x, y) /\ y.queue = Append(x.queue, frame)
     /\ y.batch = x.batch /\ y.commit = x.commit
  \/ /\ SameOut(x, y) /\ x.commit = "none" /\ y.queue = <<>>
     /\ y.batch = Append(x.queue, frame)
     /\ y.commit = IF Records(Append(x.queue, frame)) = <<>> THEN "committed" ELSE "sent"

LEMMA PushIs ==
  ASSUME NEW x \in Legs, NEW frame \in Frames
  PROVE  LET y == Push(x, frame)
         IN /\ y \in Legs /\ y.pc = x.pc /\ SameBook(x, y) /\ SameDuty(x, y)
            /\ Joins(x, frame, y)
<1>1. CASE Overtakes(x, frame)
  <2>1. <<frame>> \in Seq(Frames)
    OBVIOUS
  <2>2. Push(x, frame) = Sent(x, <<frame>>)
    BY <1>1 DEF Push
  <2> DEFINE y == Sent(x, <<frame>>)
  <2>3. /\ y \in Legs /\ y.pc = x.pc /\ SameBook(x, y) /\ SameLine(x, y)
        /\ SameDuty(x, y) /\ y.tail = x.tail /\ y.gone = x.gone
        /\ y.wire = IF x.gone THEN x.wire ELSE x.wire \o <<frame>>
    BY <2>1, SentIs
  <2> HIDE DEF y
  <2> QED BY <1>1, <2>2, <2>3 DEF y, Joins, Overtakes, InFlight
<1>2. CASE ~Overtakes(x, frame)
  <2> DEFINE q == Append(x.queue, frame)
             z == [x EXCEPT !.queue = q]
  <2>1. q \in Seq(Frames)
    BY DEF Legs
  <2>2. Push(x, frame) = IF Len(z.queue) >= MaxBatch THEN Flush(z)
                         ELSE [z EXCEPT !.window = TRUE]
    BY <1>2 DEF Push
  <2> HIDE DEF q
  <2>3. /\ z \in Legs /\ z.pc = x.pc /\ SameBook(x, z) /\ SameOut(x, z) /\ SameDuty(x, z)
        /\ z.queue = q /\ z.batch = x.batch /\ z.commit = x.commit
    BY <2>1 DEF Legs, SameBook, SameId, SameOut, SameDuty
  <2> HIDE DEF z
  <2>4. CASE Len(z.queue) >= MaxBatch
    <3> DEFINE y == Flush(z)
    <3>1. /\ y \in Legs /\ y.pc = z.pc /\ SameBook(z, y) /\ SameOut(z, y)
          /\ SameDuty(z, y) /\ (SameLine(z, y) \/ Batched(z, y))
      BY <2>3, FlushIs
    <3>2. Push(x, frame) = y
      BY <2>2, <2>4
    <3> HIDE DEF y
    <3>3. y \in Legs /\ y.pc = x.pc /\ SameBook(x, y) /\ SameDuty(x, y) /\ SameOut(x, y)
      BY <2>3, <3>1 DEF SameBook, SameId, SameDuty, SameOut
    <3>4. Joins(x, frame, y)
      BY <2>3, <3>1, <3>3 DEF Joins, SameLine, Batched, q
    <3> QED BY <3>2, <3>3, <3>4
  <2>5. CASE ~(Len(z.queue) >= MaxBatch)
    <3> DEFINE y == [z EXCEPT !.window = TRUE]
    <3>1. Push(x, frame) = y
      BY <2>2, <2>5
    <3>2. /\ y \in Legs /\ y.pc = x.pc /\ SameBook(x, y) /\ SameOut(x, y) /\ SameDuty(x, y)
          /\ y.queue = q /\ y.batch = x.batch /\ y.commit = x.commit
      BY <2>3 DEF Legs, SameBook, SameId, SameOut, SameDuty
    <3> HIDE DEF y
    <3> QED BY <3>1, <3>2 DEF Joins, q
  <2> QED BY <2>4, <2>5
<1> QED BY <1>1, <1>2

LEMMA PublishedIs ==
  ASSUME NEW x \in Legs
  PROVE  LET y == Published(x)
         IN /\ y \in Legs /\ y.pc = x.pc /\ SameBook(x, y) /\ SameLine(x, y)
            /\ SameDuty(x, y) /\ y.gone = x.gone
            /\ IF x.pc \in Ending
               THEN y.tail = x.tail \o x.batch /\ y.wire = x.wire
               ELSE /\ y.tail = x.tail
                    /\ y.wire = IF x.gone THEN x.wire ELSE x.wire \o x.batch
<1>1. CASE x.pc \in Ending
  <2> DEFINE t == x.tail \o x.batch
             y == [x EXCEPT !.tail = t]
  <2>1. t \in Seq(Frames)
    BY DEF Legs
  <2>2. Published(x) = y
    BY <1>1 DEF Published
  <2> HIDE DEF t
  <2>3. /\ y \in Legs /\ y.pc = x.pc /\ SameBook(x, y) /\ SameLine(x, y)
        /\ SameDuty(x, y) /\ y.gone = x.gone /\ y.tail = t /\ y.wire = x.wire
    BY <2>1 DEF Legs, SameBook, SameId, SameLine, SameDuty
  <2> HIDE DEF y
  <2> QED BY <1>1, <2>2, <2>3 DEF t
<1>2. CASE x.pc \notin Ending
  <2>1. x.batch \in Seq(Frames)
    BY DEF Legs
  <2>2. Published(x) = Sent(x, x.batch)
    BY <1>2 DEF Published
  <2> QED BY <1>2, <2>1, <2>2, SentIs
<1> QED BY <1>1, <1>2

\* The batch is over and done with; the queue may be the next.
Cleared(x, y) ==
  /\ y.batch = <<>> /\ y.commit = "none" /\ y.queue = x.queue
Goes(x, y) ==
  /\ x.queue # <<>> /\ y.queue = <<>> /\ y.batch = x.queue
  /\ y.commit = IF Records(x.queue) = <<>> THEN "committed" ELSE "sent"

LEMMA SettledIs ==
  ASSUME NEW x \in Legs
  PROVE  LET y == Settled(x)
         IN /\ y \in Legs /\ y.pc = x.pc /\ SameBook(x, y) /\ SameOut(x, y)
            /\ SameDuty(x, y)
            /\ Cleared(x, y) \/ (x.pc # "halted" /\ Goes(x, y))
<1> DEFINE z == [x EXCEPT !.batch = <<>>, !.commit = "none"]
           v == [z EXCEPT !.again = FALSE]
<1>1. <<>> \in Seq(Frames) /\ "none" \in Answers \cup {"none", "sent"}
  OBVIOUS
<1>2. /\ z \in Legs /\ z.pc = x.pc /\ SameBook(x, z) /\ SameOut(x, z) /\ SameDuty(x, z)
      /\ Cleared(x, z)
  BY <1>1 DEF Legs, SameBook, SameId, SameOut, SameDuty, Cleared
<1>3. /\ v \in Legs /\ v.pc = x.pc /\ SameBook(x, v) /\ SameOut(x, v) /\ SameDuty(x, v)
      /\ Cleared(x, v)
  BY <1>1 DEF Legs, SameBook, SameId, SameOut, SameDuty, Cleared
<1>4. Settled(x) = z \/ (x.pc # "halted" /\ Settled(x) = Flush(v))
  BY DEF Settled, Halted
<1>5. CASE Settled(x) = z
  BY <1>2, <1>5
<1>6. CASE x.pc # "halted" /\ Settled(x) = Flush(v)
  <2> HIDE DEF v
  <2> DEFINE y == Flush(v)
  <2>1. /\ y \in Legs /\ y.pc = v.pc /\ SameBook(v, y) /\ SameOut(v, y)
        /\ SameDuty(v, y) /\ (SameLine(v, y) \/ Batched(v, y))
    BY <1>3, FlushIs
  <2> HIDE DEF y
  <2>2. y \in Legs /\ y.pc = x.pc /\ SameBook(x, y) /\ SameOut(x, y) /\ SameDuty(x, y)
    BY <1>3, <2>1 DEF SameBook, SameId, SameOut, SameDuty
  <2>3. Cleared(x, y) \/ Goes(x, y)
    BY <1>3, <2>1 DEF SameLine, Batched, Cleared, Goes
  <2> QED BY <1>6, <2>2, <2>3 DEF y
<1> QED BY <1>4, <1>5, <1>6

LEMMA HandedIs ==
  ASSUME NEW x \in Legs, NEW frame \in Frames
  PROVE  LET y == Handed(x, frame)
         IN /\ y \in Legs /\ y.pc = x.pc /\ SameId(x, y) /\ SameDuty(x, y)
            /\ y.made = Append(x.made, frame)
            /\ y.seq = IF Journaled(frame) THEN x.seq + 1 ELSE x.seq
            /\ Joins(x, frame, y)
<1> DEFINE m == Append(x.made, frame)
           v == [x EXCEPT !.made = m]
           z == Push(v, frame)
           y == IF Journaled(frame) THEN [z EXCEPT !.seq = @ + 1] ELSE z
<1>1. m \in Seq(Frames)
  BY DEF Legs
<1>2. Handed(x, frame) = y
  BY DEF Handed
<1> HIDE DEF m
<1>3. /\ v \in Legs /\ v.pc = x.pc /\ SameId(x, v) /\ v.seq = x.seq /\ SameLine(x, v)
      /\ SameDuty(x, v) /\ SameOut(x, v) /\ v.made = m
  BY <1>1 DEF Legs, SameId, SameLine, SameDuty, SameOut
<1> HIDE DEF v
<1>4. z \in Legs /\ z.pc = v.pc /\ SameBook(v, z) /\ SameDuty(v, z) /\ Joins(v, frame, z)
  BY <1>3, PushIs
<1> HIDE DEF z
<1>5. z.seq \in Nat /\ z.seq = x.seq /\ z.made = m /\ z.pc = x.pc /\ SameId(x, z)
      /\ SameDuty(x, z)
  BY <1>3, <1>4 DEF SameBook, SameId, SameDuty, Legs
<1>6. Joins(x, frame, z)
  BY <1>3, <1>4 DEF Joins, SameLine, SameOut
<1>7. CASE Journaled(frame)
  <2> DEFINE n == z.seq + 1
             u == [z EXCEPT !.seq = n]
  <2>1. n \in Nat /\ y = u
    BY <1>5, <1>7
  <2> HIDE DEF n
  <2>2. u \in Legs /\ u.pc = z.pc /\ SameId(z, u) /\ SameDuty(z, u) /\ u.made = z.made
        /\ SameLine(z, u) /\ SameOut(z, u) /\ u.seq = n
    BY <1>4, <2>1 DEF Legs, SameId, SameDuty, SameLine, SameOut
  <2>3. Joins(x, frame, u)
    BY <1>6, <2>2 DEF Joins, SameLine, SameOut
  <2> HIDE DEF u
  <2>4. y \in Legs /\ y.pc = x.pc /\ SameId(x, y) /\ SameDuty(x, y) /\ y.made = m
        /\ y.seq = x.seq + 1 /\ Joins(x, frame, y)
    BY <1>5, <2>1, <2>2, <2>3 DEF SameId, SameDuty, n
  <2> HIDE DEF y
  <2> QED BY <1>2, <1>7, <2>4 DEF m
<1>8. CASE ~Journaled(frame)
  <2>1. y \in Legs /\ y.pc = x.pc /\ SameId(x, y) /\ SameDuty(x, y) /\ y.made = m
        /\ y.seq = x.seq /\ Joins(x, frame, y)
    BY <1>4, <1>5, <1>6, <1>8
  <2> HIDE DEF y
  <2> QED BY <1>2, <1>8, <2>1 DEF m
<1> QED BY <1>7, <1>8

-----------------------------------------------------------------------------
(* What a step does to a leg, x before and y after. *)

\* Nothing that concerns its frames.
Rests(x, y) ==
  /\ SameBook(x, y) /\ SameLine(x, y) /\ SameOut(x, y)
  /\ \/ y.pc = x.pc
     \/ x.pc = "ending" /\ x.queue = <<>> /\ x.commit = "none" /\ y.pc = "releasing"
     \/ x.pc = "releasing" /\ y.pc = "returned"
\* The lease is taken, then the stream opened.
Takes(x, y) ==
  /\ x.pc = "idle" /\ y.pc = "opening" /\ y.lease # 0
  /\ SameLine(x, y) /\ SameOut(x, y) /\ y.made = x.made
Begins(x, y) ==
  /\ x.pc \in Opening /\ y.pc \in Opening \cup {"refusing", "producing"}
  /\ SameLine(x, y) /\ SameOut(x, y) /\ y.made = x.made /\ y.lease = x.lease
Refuses(x, y) ==
  /\ x.pc \in {"idle", "refusing"} /\ y.pc = "closed"
  /\ SameBook(x, y) /\ SameLine(x, y) /\ y.tail = x.tail /\ y.gone
  /\ y.wire = IF x.gone THEN x.wire ELSE x.wire \o <<Error>>
Flushes(x, y) ==
  y.pc = x.pc /\ SameBook(x, y) /\ SameOut(x, y) /\ Batched(x, y)
Makes(x, y) ==
  \E frame \in {Part(x.seq), Done(x.seq), Transient} :
    /\ x.pc = "producing"
    /\ y.pc = IF frame = Done(x.seq) THEN "ending" ELSE "producing"
    /\ SameId(x, y) /\ y.made = Append(x.made, frame)
    /\ y.seq = IF Journaled(frame) THEN x.seq + 1 ELSE x.seq
    /\ Joins(x, frame, y)
Stops(x, y) ==
  /\ x.pc = "producing" /\ y.pc = "ending"
  /\ SameBook(x, y) /\ SameLine(x, y) /\ SameOut(x, y)
Lands(x, y) ==
  /\ x.commit = "sent" /\ y.commit \in Answers
  /\ y.pc = x.pc /\ SameBook(x, y) /\ SameOut(x, y)
  /\ y.queue = x.queue /\ y.batch = x.batch
Publishes(x, y) ==
  /\ x.commit = "committed" /\ x.pc # "halted"
  /\ y.pc = x.pc /\ SameBook(x, y) /\ y.gone = x.gone
  /\ Cleared(x, y) \/ Goes(x, y)
  /\ IF x.pc \in Ending
     THEN y.tail = x.tail \o x.batch /\ y.wire = x.wire
     ELSE /\ y.tail = x.tail
          /\ y.wire = IF x.gone THEN x.wire ELSE x.wire \o x.batch
Forgets(x, y) ==
  /\ x.pc = "halted" /\ y.pc = "halted" /\ x.commit # "none"
  /\ SameBook(x, y) /\ SameOut(x, y) /\ Cleared(x, y)
Fails(x, y) ==
  /\ x.pc # "halted" /\ y.pc = "halted" /\ SameBook(x, y)
  /\ x.commit # "none" \/ x.beat # "none"
  /\ y.queue = <<>> /\ y.tail = <<>> /\ y.gone
  /\ \/ y.batch = x.batch /\ y.commit = x.commit
     \/ y.batch = <<>> /\ y.commit = "none"
  /\ y.wire = IF x.gone THEN x.wire ELSE (x.wire \o x.tail) \o <<Error>>
Closes(x, y) ==
  /\ x.pc = "returned" /\ y.pc = "closed"
  /\ SameBook(x, y) /\ SameLine(x, y) /\ y.tail = <<>> /\ y.gone
  /\ y.wire = IF x.gone THEN x.wire ELSE x.wire \o x.tail
Leaves(x, y) ==
  /\ x.pc \in {"producing"} \cup Ending /\ y.pc = x.pc /\ ~x.gone
  /\ SameBook(x, y) /\ SameLine(x, y) /\ y.tail = x.tail /\ y.wire = x.wire /\ y.gone
Dies(x, y) ==
  /\ x.pc \notin {"idle", "closed", "dead"} /\ y.pc = "dead"
  /\ SameId(x, y) /\ y.made = x.made /\ y.wire = x.wire
  /\ y.queue = <<>> /\ y.batch = <<>> /\ y.commit = "none" /\ y.tail = <<>> /\ ~y.gone
  /\ ~y.giving /\ y.beat = "none"

Moves(x, y) ==
  \/ Rests(x, y) \/ Begins(x, y) \/ Refuses(x, y) \/ Flushes(x, y) \/ Makes(x, y)
  \/ Stops(x, y) \/ Publishes(x, y) \/ Forgets(x, y) \/ Fails(x, y)
  \/ Closes(x, y) \/ Leaves(x, y) \/ Dies(x, y)

\* Only a leg that produces sets its timer, only one that halts gives back late.
Duty(x, y) ==
  /\ y.beat # "none" => x.beat # "none" \/ y.pc = "producing"
  /\ y.giving => x.giving \/ y.pc = "halted"

\* What a leg has depends on where it is.
LegShape(x) ==
  /\ x.pc \in Early =>
       /\ x.queue = <<>> /\ x.batch = <<>> /\ x.commit = "none" /\ x.tail = <<>>
       /\ x.wire = <<>> /\ x.made = <<>> /\ ~x.gone
       /\ x.beat = "none" /\ ~x.giving
  /\ x.commit # "none" => x.pc \in {"producing", "ending", "halted"}
  /\ x.commit = "none" => x.batch = <<>>
  /\ x.pc \in {"releasing", "returned", "closed", "dead", "halted"} => x.queue = <<>>
  /\ x.pc \in {"producing", "closed", "dead", "halted"} => x.tail = <<>>
  /\ x.pc \in {"closed", "halted"} => x.gone
  /\ x.pc \notin {"idle", "closed", "dead"} => x.lease # 0
  /\ x.beat # "none" \/ x.giving => x.lease # 0
  /\ x.pc = "idle" => x.lease = 0
  /\ x.pc = "dead" => x.beat = "none" /\ ~x.giving

Streams == [token : Nat, records : Seq([by : Producers, kind : {"part", "done"}])]
Mishaps == [faults : Nat, leaves : Nat, crashes : Nat]

JournalTypeOK ==
  /\ leg \in [Producers -> Legs]
  /\ stream \in Streams
  /\ mishaps \in Mishaps

\* Each producer takes the lease once, and its leg knows which one.
Named ==
  /\ \A p \in Producers : leg[p].lease # 0 =>
       leg[p].lease \in Grants /\ issued[leg[p].lease].owner = p
  /\ \A g \in Grants : leg[issued[g].owner].pc # "idle"
  /\ \A g, h \in Grants : issued[g].owner = issued[h].owner => g = h

JournalShape ==
  /\ LeaseInv /\ JournalTypeOK /\ Named
  /\ \A p \in Producers : LegShape(leg[p])

LEMMA MovesKeepShape ==
  ASSUME NEW x \in Legs, NEW y \in Legs, LegShape(x), Takes(x, y) \/ Moves(x, y) \/ Lands(x, y), Duty(x, y)
  PROVE  LegShape(y)
<1> USE DEF LegShape, Early, Opening, Ending, SameBook, SameId, SameLine, SameOut, Duty
<1>1. CASE Rests(x, y)
  BY <1>1 DEF Rests
<1>2. CASE Begins(x, y)
  BY <1>2 DEF Begins
<1>14. CASE Takes(x, y)
  BY <1>14 DEF Takes
<1>3. CASE Refuses(x, y)
  BY <1>3 DEF Refuses
<1>4. CASE Flushes(x, y)
  <2>1. y.pc = x.pc /\ x.queue # <<>> /\ y.queue = <<>> /\ y.commit # "none" /\ y.tail = x.tail
        /\ y.gone = x.gone /\ y.lease = x.lease
    BY <1>4 DEF Flushes, Batched
  <2>2. x.pc \in PCs
    BY DEF Legs
  <2>3. x.pc \in {"producing", "ending"}
    BY <2>1, <2>2 DEF PCs
  <2> QED BY <2>1, <2>3
<1>5. CASE Makes(x, y)
  BY <1>5 DEF Makes, Joins
<1>6. CASE Stops(x, y)
  BY <1>6 DEF Stops
<1>7. CASE Lands(x, y)
  BY <1>7 DEF Lands, Answers
<1>8. CASE Publishes(x, y)
  BY <1>8 DEF Publishes, Cleared, Goes
<1>9. CASE Forgets(x, y)
  BY <1>9 DEF Forgets, Cleared
<1>10. CASE Fails(x, y)
  BY <1>10 DEF Fails
<1>11. CASE Closes(x, y)
  BY <1>11 DEF Closes
<1>12. CASE Leaves(x, y)
  BY <1>12 DEF Leaves
<1>13. CASE Dies(x, y)
  BY <1>13 DEF Dies
<1> QED BY <1>1, <1>2, <1>3, <1>4, <1>5, <1>6, <1>7, <1>8, <1>9, <1>10, <1>11,
           <1>12, <1>13, <1>14 DEF Moves

\* A step of p makes a leg of it that moves as said.
LegMoves(p) ==
  \E y \in Legs : leg' = [leg EXCEPT ![p] = y] /\ Moves(leg[p], y) /\ Duty(leg[p], y)
LegTakes(p) ==
  \E y \in Legs :
    /\ leg' = [leg EXCEPT ![p] = y] /\ Takes(leg[p], y) /\ Duty(leg[p], y)
    /\ y.lease = Len(issued) + 1 /\ y.fence = NextToken

LEMMA TokensAreNumbers ==
  ASSUME JournalShape
  PROVE  /\ stream.token \in Nat /\ LastSeq + 1 \in Nat /\ LastSeq + 1 = Len(stream.records)
         /\ NextToken \in Nat /\ Len(issued) + 1 \in Nat \ {0}
<1>1. stream.token \in Nat /\ Len(stream.records) \in Nat
  BY DEF JournalShape, JournalTypeOK, Streams
<1>2. NextToken \in Nat
  BY RowShape DEF JournalShape, LeaseInv, LeaseTypeOK, NextToken, NoRow, Rows
<1>3. Len(issued) \in Nat
  BY IssuedShape DEF JournalShape, LeaseInv
<1> QED BY <1>1, <1>2, <1>3 DEF LastSeq

LEMMA OpeningMoves ==
  ASSUME JournalShape, NEW p \in Producers,
         \/ Take(p) \/ TakeRefused(p) \/ Open(p) \/ Check(p) \/ Reopen(p) \/ Confirm(p)
         \/ OpenFails(p) \/ Refuse(p)
  PROVE  LegMoves(p) \/ (Take(p) /\ LegTakes(p))
<1> DEFINE x == leg[p]
<1>0. x \in Legs /\ LegShape(x)
  BY DEF JournalShape, JournalTypeOK
<1>t. /\ stream.token \in Nat /\ LastSeq + 1 \in Nat
      /\ NextToken \in Nat /\ Len(issued) + 1 \in Nat \ {0} /\ stream.token + 1 \in Nat
  BY TokensAreNumbers
<1> DEFINE n == Len(issued) + 1
           next == NextToken
           seq == LastSeq + 1
           above == stream.token + 1
<1> HIDE DEF x, n, next, seq, above
\* The leg that opens on.
<1>1. ASSUME NEW y \in Legs, leg' = [leg EXCEPT ![p] = y], Begins(x, y), Duty(x, y)
      PROVE  LegMoves(p)
  BY <1>1 DEF LegMoves, Moves, x
\* A leg that is refused.
<1>2. ASSUME x.pc \in {"idle", "refusing"}, leg' = [leg EXCEPT ![p] = Refused(x)]
      PROVE  LegMoves(p)
  <2> DEFINE z == FailClosed(x)
             y == [z EXCEPT !.pc = "closed", !.beat = "none"]
  <2>1. /\ z \in Legs /\ z.pc = x.pc /\ SameBook(x, z) /\ SameLine(x, z)
        /\ SameDuty(x, z) /\ z.tail = x.tail /\ z.gone
        /\ z.wire = IF x.gone THEN x.wire ELSE x.wire \o <<Error>>
    BY <1>0, FailClosedIs
  <2>2. Refused(x) = y
    BY DEF Refused
  <2> HIDE DEF z
  <2>3. "closed" \in PCs /\ "none" \in Beats
    BY DEF PCs, Ending, Beats
  <2>4. /\ y \in Legs /\ y.pc = "closed" /\ SameBook(z, y) /\ SameLine(z, y)
        /\ SameOut(z, y) /\ y.beat = "none" /\ y.giving = z.giving
    BY <2>1, <2>3 DEF Legs, SameBook, SameId, SameLine, SameOut
  <2> HIDE DEF y
  <2>5. Refuses(x, y) /\ Duty(x, y)
    BY <1>2, <2>1, <2>4 DEF Refuses, Duty, SameBook, SameId, SameLine, SameOut, SameDuty
  <2> QED BY <1>2, <2>2, <2>4, <2>5 DEF LegMoves, Moves, x
<1>q. x.pc \in Opening => x.pc # "idle" /\ x.lease # 0
  BY <1>0 DEF LegShape, Opening
<1>n. n \in Nat \ {0} /\ next \in Nat /\ seq \in Nat /\ above \in Nat
  BY <1>t DEF n, next, seq, above
\* A leg that only turns to its next call.
<1>3. ASSUME NEW pc \in {"reopening", "refusing"}, x.pc \in Opening,
             leg' = [leg EXCEPT ![p] = [x EXCEPT !.pc = pc]]
      PROVE  LegMoves(p)
  <2> DEFINE y == [x EXCEPT !.pc = pc]
  <2>1. y \in Legs /\ Begins(x, y) /\ Duty(x, y)
    BY <1>0, <1>3, <1>q DEF Legs, Begins, Duty, SameLine, SameOut, PCs, Early, Opening
  <2>2. leg' = [leg EXCEPT ![p] = y]
    BY <1>3
  <2> HIDE DEF y
  <2> QED BY <1>1, <2>1, <2>2
<1>5. CASE Take(p)
  <2>1. x.pc = "idle" /\ \/ leg' = [leg EXCEPT ![p] = [x EXCEPT !.pc = "opening", !.lease = n, !.fence = next]]
                         \/ leg' = [leg EXCEPT ![p] = Refused(x)]
    BY <1>5 DEF Take, To, x, n, next
  <2>2. CASE leg' = [leg EXCEPT ![p] = [x EXCEPT !.pc = "opening", !.lease = n, !.fence = next]]
    <3> DEFINE y == [x EXCEPT !.pc = "opening", !.lease = n, !.fence = next]
    <3>1. y \in Legs /\ Takes(x, y) /\ Duty(x, y)
      BY <1>0, <1>n, <2>1 DEF Legs, Takes, Duty, SameLine, SameOut, PCs, Early, Opening, Beats
    <3>2. leg' = [leg EXCEPT ![p] = y]
      BY <2>2
    <3>3. y.lease = n /\ y.fence = next
      BY <1>0 DEF Legs, y
    <3> HIDE DEF y
    <3> QED BY <3>1, <3>2, <3>3, <1>5 DEF LegTakes, x, n, next
  <2> QED BY <1>2, <2>1, <2>2
<1>6. CASE TakeRefused(p)
  BY <1>2, <1>6 DEF TakeRefused, To, x
<1>7. CASE Open(p)
  <2>1. x.pc = "opening" /\ \/ leg' = [leg EXCEPT ![p] = [x EXCEPT !.pc = "producing", !.seq = seq, !.beat = "armed"]]
                            \/ leg' = [leg EXCEPT ![p] = [x EXCEPT !.pc = "checking", !.fence = above]]
    BY <1>7 DEF Open, Producing, To, x, seq, above
  <2>2. CASE leg' = [leg EXCEPT ![p] = [x EXCEPT !.pc = "producing", !.seq = seq, !.beat = "armed"]]
    <3> DEFINE y == [x EXCEPT !.pc = "producing", !.seq = seq, !.beat = "armed"]
    <3>1. y \in Legs /\ Begins(x, y) /\ Duty(x, y)
      BY <1>0, <1>q, <1>n, <2>1 DEF Legs, Begins, Duty, SameLine, SameOut, PCs, Early, Opening, Beats
    <3>2. leg' = [leg EXCEPT ![p] = y]
      BY <2>2
    <3> HIDE DEF y
    <3> QED BY <1>1, <3>1, <3>2
  <2>3. CASE leg' = [leg EXCEPT ![p] = [x EXCEPT !.pc = "checking", !.fence = above]]
    <3> DEFINE y == [x EXCEPT !.pc = "checking", !.fence = above]
    <3>1. y \in Legs /\ Begins(x, y) /\ Duty(x, y)
      BY <1>0, <1>q, <1>n, <2>1 DEF Legs, Begins, Duty, SameLine, SameOut, PCs, Early, Opening, Beats
    <3>2. leg' = [leg EXCEPT ![p] = y]
      BY <2>3
    <3> HIDE DEF y
    <3> QED BY <1>1, <3>1, <3>2
  <2> QED BY <2>1, <2>2, <2>3
<1>8. CASE Check(p)
  <2>1. x.pc \in Opening /\ \E pc \in {"reopening", "refusing"} : leg' = [leg EXCEPT ![p] = [x EXCEPT !.pc = pc]]
    BY <1>8 DEF Check, To, Opening, x
  <2> QED BY <1>3, <2>1
<1>9. CASE Reopen(p)
  <2>1. x.pc \in Opening /\ \/ leg' = [leg EXCEPT ![p] = [x EXCEPT !.pc = "confirming", !.seq = seq]]
                            \/ leg' = [leg EXCEPT ![p] = [x EXCEPT !.pc = "refusing"]]
    BY <1>9 DEF Reopen, Reopened, To, Opening, x, seq
  <2>2. CASE leg' = [leg EXCEPT ![p] = [x EXCEPT !.pc = "confirming", !.seq = seq]]
    <3> DEFINE y == [x EXCEPT !.pc = "confirming", !.seq = seq]
    <3>1. y \in Legs /\ Begins(x, y) /\ Duty(x, y)
      BY <1>0, <1>q, <1>n, <2>1 DEF Legs, Begins, Duty, SameLine, SameOut, PCs, Early, Opening, Beats
    <3>2. leg' = [leg EXCEPT ![p] = y]
      BY <2>2
    <3> HIDE DEF y
    <3> QED BY <1>1, <3>1, <3>2
  <2> QED BY <1>3, <2>1, <2>2
<1>10. CASE Confirm(p)
  <2>1. x.pc \in Opening /\ \/ leg' = [leg EXCEPT ![p] = [x EXCEPT !.pc = "producing", !.beat = "armed"]]
                            \/ leg' = [leg EXCEPT ![p] = [x EXCEPT !.pc = "refusing"]]
    BY <1>10 DEF Confirm, To, Opening, x
  <2>2. CASE leg' = [leg EXCEPT ![p] = [x EXCEPT !.pc = "producing", !.beat = "armed"]]
    <3> DEFINE y == [x EXCEPT !.pc = "producing", !.beat = "armed"]
    <3>1. y \in Legs /\ Begins(x, y) /\ Duty(x, y)
      BY <1>0, <1>q, <1>n, <2>1 DEF Legs, Begins, Duty, SameLine, SameOut, PCs, Early, Opening, Beats
    <3>2. leg' = [leg EXCEPT ![p] = y]
      BY <2>2
    <3> HIDE DEF y
    <3> QED BY <1>1, <3>1, <3>2
  <2> QED BY <1>3, <2>1, <2>2
<1>11. CASE OpenFails(p)
  BY <1>3, <1>11 DEF OpenFails, To, x
<1>12. CASE Refuse(p)
  BY <1>2, <1>12 DEF Refuse, To, x
<1> QED BY <1>5, <1>6, <1>7, <1>8, <1>9, <1>10, <1>11, <1>12

LEMMA LegIs ==
  ASSUME JournalShape, NEW p \in Producers
  PROVE  leg[p] \in Legs /\ LegShape(leg[p])
BY DEF JournalShape, JournalTypeOK

LEMMA PartsAreFrames ==
  ASSUME NEW n \in Nat
  PROVE  Part(n) \in Frames /\ Done(n) \in Frames /\ Transient \in Frames /\ Error \in Frames
BY DEF Part, Done, Transient, Error, Frames

LEMMA KindsDiffer ==
  ASSUME NEW n, NEW m
  PROVE  Part(n) # Done(m) /\ Transient # Done(m) /\ Error # Part(n) /\ Error # Done(n) /\ Error # Transient
<1>1. Part(n).kind = "part" /\ Done(m).kind = "done" /\ Transient.kind = "transient"
      /\ Error.kind = "error" /\ Done(n).kind = "done"
  BY DEF Part, Done, Transient, Error
<1> QED BY <1>1

LEMMA WorkMoves ==
  ASSUME JournalShape, NEW p \in Producers,
         Make(p) \/ End(p) \/ Window(p) \/ Answer(p) \/ Drain(p) \/ Close(p)
  PROVE  LegMoves(p)
<1> DEFINE x == leg[p]
<1>0. x \in Legs /\ LegShape(x) /\ x.seq \in Nat
  BY LegIs DEF Legs
<1> HIDE DEF x
<1>f. ASSUME NEW y \in Legs, leg' = [leg EXCEPT ![p] = y], Moves(x, y), Duty(x, y)
      PROVE  LegMoves(p)
  BY <1>f DEF LegMoves, x
<1>1. CASE Make(p)
  <2>1. x.pc = "producing" /\ \E frame \in {Part(x.seq), Transient} : leg' = [leg EXCEPT ![p] = Handed(x, frame)]
    BY <1>1 DEF Make, Local, To, x
  <2>2. PICK frame \in {Part(x.seq), Transient} : leg' = [leg EXCEPT ![p] = Handed(x, frame)]
    BY <2>1
  <2>3. frame \in Frames /\ frame # Done(x.seq)
    BY <1>0, PartsAreFrames, KindsDiffer
  <2> DEFINE y == Handed(x, frame)
  <2>4. /\ y \in Legs /\ y.pc = x.pc /\ SameId(x, y) /\ SameDuty(x, y)
        /\ y.made = Append(x.made, frame)
        /\ y.seq = IF Journaled(frame) THEN x.seq + 1 ELSE x.seq
        /\ Joins(x, frame, y)
    BY <1>0, <2>3, HandedIs
  <2>5. leg' = [leg EXCEPT ![p] = y]
    BY <2>2
  <2> HIDE DEF y
  <2>6. Makes(x, y)
    BY <2>1, <2>3, <2>4 DEF Makes
  <2>7. Duty(x, y)
    BY <2>4 DEF Duty, SameDuty
  <2> QED BY <1>f, <2>4, <2>5, <2>6, <2>7 DEF Moves
<1>2. CASE End(p)
  <2>1. x.pc = "producing" /\ \/ leg' = [leg EXCEPT ![p] = [Handed(x, Done(x.seq)) EXCEPT !.pc = "ending"]]
                              \/ leg' = [leg EXCEPT ![p] = [x EXCEPT !.pc = "ending"]]
    BY <1>2 DEF End, Local, To, x
  <2>2. CASE leg' = [leg EXCEPT ![p] = [Handed(x, Done(x.seq)) EXCEPT !.pc = "ending"]]
    <3> DEFINE frame == Done(x.seq)
               z == Handed(x, frame)
               y == [z EXCEPT !.pc = "ending"]
    <3>1. frame \in Frames
      BY <1>0, PartsAreFrames
    <3>2. /\ z \in Legs /\ z.pc = x.pc /\ SameId(x, z) /\ SameDuty(x, z)
          /\ z.made = Append(x.made, frame)
          /\ z.seq = IF Journaled(frame) THEN x.seq + 1 ELSE x.seq
          /\ Joins(x, frame, z)
      BY <1>0, <3>1, HandedIs
    <3>3. leg' = [leg EXCEPT ![p] = y]
      BY <2>2
    <3> HIDE DEF z, frame
    <3>4. /\ y \in Legs /\ y.pc = "ending" /\ SameBook(z, y) /\ SameLine(z, y) /\ SameOut(z, y)
          /\ SameDuty(z, y)
      BY <3>2 DEF Legs, PCs, Ending, SameBook, SameId, SameLine, SameOut, SameDuty
    <3> HIDE DEF y
    <3>5. Joins(x, frame, y)
      BY <3>2, <3>4 DEF Joins, SameLine, SameOut
    <3>6. SameId(x, y) /\ y.made = Append(x.made, frame)
          /\ y.seq = IF Journaled(frame) THEN x.seq + 1 ELSE x.seq
      BY <3>2, <3>4 DEF SameBook, SameId
    <3>7. Makes(x, y)
      BY <2>1, <3>4, <3>5, <3>6 DEF Makes, frame
    <3>8. Duty(x, y)
      BY <3>2, <3>4 DEF Duty, SameDuty
    <3> QED BY <1>f, <3>3, <3>4, <3>7, <3>8 DEF Moves
  <2>3. CASE leg' = [leg EXCEPT ![p] = [x EXCEPT !.pc = "ending"]]
    <3> DEFINE y == [x EXCEPT !.pc = "ending"]
    <3>1. y \in Legs /\ Stops(x, y) /\ Duty(x, y)
      BY <1>0, <2>1 DEF Legs, PCs, Ending, Stops, Duty, SameBook, SameId, SameLine, SameOut
    <3>2. leg' = [leg EXCEPT ![p] = y]
      BY <2>3
    <3> HIDE DEF y
    <3> QED BY <1>f, <3>1, <3>2 DEF Moves
  <2> QED BY <2>1, <2>2, <2>3
<1>3. ASSUME leg' = [leg EXCEPT ![p] = Flush(x)] PROVE LegMoves(p)
  <2> DEFINE y == Flush(x)
  <2>1. /\ y \in Legs /\ y.pc = x.pc /\ SameBook(x, y) /\ SameOut(x, y)
        /\ SameDuty(x, y) /\ (SameLine(x, y) \/ Batched(x, y))
    BY <1>0, FlushIs
  <2>2. leg' = [leg EXCEPT ![p] = y]
    BY <1>3
  <2> HIDE DEF y
  <2>3. Duty(x, y)
    BY <2>1 DEF Duty, SameDuty
  <2>4. Rests(x, y) \/ Flushes(x, y)
    BY <2>1 DEF Rests, Flushes
  <2> QED BY <1>f, <2>1, <2>2, <2>3, <2>4 DEF Moves
<1>4. CASE Window(p)
  BY <1>3, <1>4 DEF Window, Local, To, x
<1>5. CASE Answer(p)
  <2>1. x.commit \in Answers
    BY <1>5 DEF Answer, Answers, x
  <2>2. CASE x.commit # "committed"
    <3> DEFINE z == Halt(x)
               y == Settled(z)
    <3>1. leg' = [leg EXCEPT ![p] = y]
      BY <1>5, <2>2 DEF Answer, Local, To, x
    <3>2. /\ z \in Legs /\ (x.pc = "halted" => z = x)
          /\ (x.pc # "halted" => Halts(x, z) /\ z.giving
                                   /\ z.beat = IF x.beat = "armed" THEN "none" ELSE x.beat)
      BY <1>0, HaltIs
    <3> HIDE DEF z
    <3>3. z.pc = "halted"
      BY <3>2 DEF Halts
    <3>4. /\ y \in Legs /\ y.pc = z.pc /\ SameBook(z, y) /\ SameOut(z, y) /\ SameDuty(z, y)
          /\ Cleared(z, y)
      BY <3>2, <3>3, SettledIs
    <3> HIDE DEF y
    <3>5. CASE x.pc = "halted"
      <4>1. Forgets(x, y) /\ Duty(x, y)
        BY <2>1, <3>2, <3>4, <3>5 DEF Forgets, Duty, SameDuty, Answers
      <4> QED BY <1>f, <3>1, <3>4, <4>1 DEF Moves
    <3>6. CASE x.pc # "halted"
      <4>1. Fails(x, y)
        BY <2>1, <3>2, <3>4, <3>6 DEF Fails, Halts, SameBook, SameId, SameOut, Cleared, Answers
      <4>2. Duty(x, y)
        BY <3>2, <3>3, <3>4, <3>6 DEF Duty, SameDuty
      <4> QED BY <1>f, <3>1, <3>4, <4>1, <4>2 DEF Moves
    <3> QED BY <3>5, <3>6
  <2>3. CASE x.commit = "committed" /\ x.pc = "halted"
    <3> DEFINE y == Settled(x)
    <3>1. leg' = [leg EXCEPT ![p] = y]
      BY <1>5, <2>3 DEF Answer, Local, To, Halted, x
    <3>2. /\ y \in Legs /\ y.pc = x.pc /\ SameBook(x, y) /\ SameOut(x, y) /\ SameDuty(x, y)
          /\ Cleared(x, y)
      BY <1>0, <2>3, SettledIs
    <3> HIDE DEF y
    <3>3. Forgets(x, y) /\ Duty(x, y)
      BY <2>3, <3>2 DEF Forgets, Duty, SameDuty
    <3> QED BY <1>f, <3>1, <3>2, <3>3 DEF Moves
  <2>4. CASE x.commit = "committed" /\ x.pc # "halted"
    <3> DEFINE z == Published(x)
               y == Settled(z)
    <3>1. leg' = [leg EXCEPT ![p] = y]
      BY <1>5, <2>4 DEF Answer, Local, To, Halted, x
    <3>2. /\ z \in Legs /\ z.pc = x.pc /\ SameBook(x, z) /\ SameLine(x, z)
          /\ SameDuty(x, z) /\ z.gone = x.gone
          /\ IF x.pc \in Ending
             THEN z.tail = x.tail \o x.batch /\ z.wire = x.wire
             ELSE /\ z.tail = x.tail
                  /\ z.wire = IF x.gone THEN x.wire ELSE x.wire \o x.batch
      BY <1>0, PublishedIs
    <3> HIDE DEF z
    <3>3. /\ y \in Legs /\ y.pc = z.pc /\ SameBook(z, y) /\ SameOut(z, y) /\ SameDuty(z, y)
          /\ Cleared(z, y) \/ Goes(z, y)
      BY <3>2, SettledIs
    <3> HIDE DEF y
    <3>4. Cleared(x, y) \/ Goes(x, y)
      BY <3>2, <3>3 DEF Cleared, Goes, SameLine
    <3>5. SameBook(x, y) /\ SameDuty(x, y) /\ y.pc = x.pc /\ y.gone = x.gone
          /\ y.tail = z.tail /\ y.wire = z.wire
      BY <3>2, <3>3 DEF SameBook, SameId, SameDuty, SameOut
    <3>6. Publishes(x, y)
      BY <2>4, <3>2, <3>4, <3>5 DEF Publishes
    <3>7. Duty(x, y)
      BY <3>5 DEF Duty, SameDuty
    <3> QED BY <1>f, <3>1, <3>3, <3>6, <3>7 DEF Moves
  <2> QED BY <2>2, <2>3, <2>4
<1>6. CASE Drain(p)
  <2>1. x.pc = "ending"
    BY <1>6 DEF Drain, x
  <2>2. CASE leg' = [leg EXCEPT ![p] = Flush(x)]
    BY <1>3, <2>2
  <2>3. CASE Drains(x) /\ leg' = [leg EXCEPT ![p] = [x EXCEPT !.pc = "releasing", !.window = FALSE,
                                           !.beat = IF @ = "armed" THEN "none" ELSE @]]
    <3> DEFINE b == IF x.beat = "armed" THEN "none" ELSE x.beat
               y == [x EXCEPT !.pc = "releasing", !.window = FALSE, !.beat = b]
    <3>1. b \in Beats
      BY <1>0 DEF Legs, Beats
    <3>2. leg' = [leg EXCEPT ![p] = y] /\ x.queue = <<>> /\ x.commit = "none"
      BY <2>3 DEF Drains, InFlight
    <3>3. b # "none" => x.beat # "none"
      OBVIOUS
    <3> HIDE DEF b
    <3>4. y \in Legs /\ y.pc = "releasing" /\ SameBook(x, y) /\ SameLine(x, y) /\ SameOut(x, y)
          /\ y.beat = b /\ y.giving = x.giving
      BY <1>0, <3>1 DEF Legs, PCs, Ending, SameBook, SameId, SameLine, SameOut
    <3> HIDE DEF y
    <3>5. Rests(x, y) /\ Duty(x, y)
      BY <2>1, <3>2, <3>3, <3>4 DEF Rests, Duty
    <3> QED BY <1>f, <3>2, <3>4, <3>5 DEF Moves
  <2> QED BY <1>6, <2>2, <2>3 DEF Drain, Local, To, x
<1>7. CASE Close(p)
  <2> DEFINE z == SendTail(x)
             y == [z EXCEPT !.pc = "closed", !.gone = TRUE]
  <2>1. x.pc = "returned" /\ leg' = [leg EXCEPT ![p] = y]
    BY <1>7 DEF Close, Local, To, x
  <2>2. /\ z \in Legs /\ z.pc = x.pc /\ SameBook(x, z) /\ SameLine(x, z)
        /\ SameDuty(x, z) /\ z.tail = <<>> /\ z.gone = x.gone
        /\ z.wire = IF x.gone THEN x.wire ELSE x.wire \o x.tail
    BY <1>0, SendTailIs
  <2> HIDE DEF z
  <2>3. /\ y \in Legs /\ y.pc = "closed" /\ SameBook(z, y) /\ SameLine(z, y)
        /\ SameDuty(z, y) /\ y.tail = z.tail /\ y.gone /\ y.wire = z.wire
    BY <2>2 DEF Legs, PCs, Ending, SameBook, SameId, SameLine, SameDuty
  <2> HIDE DEF y
  <2>4. SameBook(x, y) /\ SameLine(x, y) /\ SameDuty(x, y)
    BY <2>2, <2>3 DEF SameBook, SameId, SameLine, SameDuty
  <2>5. Closes(x, y) /\ Duty(x, y)
    BY <2>1, <2>2, <2>3, <2>4 DEF Closes, Duty, SameDuty
  <2> QED BY <1>f, <2>1, <2>3, <2>5 DEF Moves
<1> QED BY <1>1, <1>2, <1>4, <1>5, <1>6, <1>7

LEMMA DutyMoves ==
  ASSUME JournalShape, NEW p \in Producers,
         Return(p) \/ GiveBack(p) \/ Beat(p) \/ Beaten(p) \/ Beating(p) \/ Leave(p) \/ Crash(p)
  PROVE  LegMoves(p)
<1> DEFINE x == leg[p]
<1>0. x \in Legs /\ LegShape(x)
  BY LegIs
<1> HIDE DEF x
<1>f. ASSUME NEW y \in Legs, leg' = [leg EXCEPT ![p] = y], Moves(x, y), Duty(x, y)
      PROVE  LegMoves(p)
  BY <1>f DEF LegMoves, x
<1>1. CASE Return(p)
  <2> DEFINE y == [x EXCEPT !.pc = "returned"]
  <2>1. x.pc = "releasing" /\ leg' = [leg EXCEPT ![p] = y]
    BY <1>1 DEF Return, To, x
  <2>2. y \in Legs /\ Rests(x, y) /\ Duty(x, y)
    BY <1>0, <2>1 DEF Legs, PCs, Ending, Rests, Duty, SameBook, SameId, SameLine, SameOut
  <2> HIDE DEF y
  <2> QED BY <1>f, <2>1, <2>2 DEF Moves
<1>2. CASE GiveBack(p)
  <2> DEFINE y == [x EXCEPT !.giving = FALSE]
  <2>1. leg' = [leg EXCEPT ![p] = y]
    BY <1>2 DEF GiveBack, To, x
  <2>2. y \in Legs /\ Rests(x, y) /\ Duty(x, y)
    BY <1>0, <2>1 DEF Legs, Rests, Duty, SameBook, SameId, SameLine, SameOut
  <2> HIDE DEF y
  <2> QED BY <1>f, <2>1, <2>2 DEF Moves
<1>b. ASSUME NEW b \in Beats, leg' = [leg EXCEPT ![p] = [x EXCEPT !.beat = b]],
             b # "none" => x.beat # "none"
      PROVE  LegMoves(p)
  <2> DEFINE y == [x EXCEPT !.beat = b]
  <2>1. y \in Legs /\ Rests(x, y) /\ Duty(x, y)
    BY <1>0, <1>b DEF Legs, Rests, Duty, SameBook, SameId, SameLine, SameOut
  <2>2. leg' = [leg EXCEPT ![p] = y]
    BY <1>b
  <2> HIDE DEF y
  <2> QED BY <1>f, <2>1, <2>2 DEF Moves
<1>3. CASE Beat(p)
  BY <1>b, <1>3 DEF Beat, Local, To, Beats, x
<1>4. CASE Beaten(p)
  <2>1. x.beat = "sent"
    BY <1>4 DEF Beaten, x
  <2> DEFINE b == IF Renewable(x.lease) THEN "held" ELSE "lost"
  <2>2. b \in Beats /\ "failed" \in Beats
    BY DEF Beats
  <2>3. \/ leg' = [leg EXCEPT ![p] = [x EXCEPT !.beat = b]]
        \/ leg' = [leg EXCEPT ![p] = [x EXCEPT !.beat = "failed"]]
    BY <1>4 DEF Beaten, To, x
  <2> HIDE DEF b
  <2> QED BY <1>b, <2>1, <2>2, <2>3
<1>5. CASE Beating(p)
  <2>1. x.beat \in {"held", "lost", "failed"}
    BY <1>5 DEF Beating, x
  <2>2. CASE x.beat = "lost"
    <3> DEFINE z == Halt(x)
               y == [z EXCEPT !.beat = "none"]
    <3>1. leg' = [leg EXCEPT ![p] = y]
      BY <1>5, <2>2 DEF Beating, Local, To, x
    <3>2. /\ z \in Legs /\ (x.pc = "halted" => z = x)
          /\ (x.pc # "halted" => Halts(x, z) /\ z.giving)
      BY <1>0, HaltIs
    <3> HIDE DEF z
    <3>3. "none" \in Beats
      BY DEF Beats
    <3>4. /\ y \in Legs /\ y.pc = z.pc /\ SameBook(z, y) /\ SameLine(z, y) /\ SameOut(z, y)
          /\ y.beat = "none" /\ y.giving = z.giving
      BY <3>2, <3>3 DEF Legs, SameBook, SameId, SameLine, SameOut
    <3> HIDE DEF y
    <3>5. CASE x.pc = "halted"
      <4>1. Rests(x, y) /\ Duty(x, y)
        BY <3>2, <3>4, <3>5 DEF Rests, Duty
      <4> QED BY <1>f, <3>1, <3>4, <4>1 DEF Moves
    <3>6. CASE x.pc # "halted"
      <4>1. Fails(x, y)
        BY <2>2, <3>2, <3>4, <3>6 DEF Fails, Halts, SameBook, SameId, SameOut, SameLine
      <4>2. Duty(x, y)
        BY <3>2, <3>4, <3>6 DEF Duty, Halts
      <4> QED BY <1>f, <3>1, <3>4, <4>1, <4>2 DEF Moves
    <3> QED BY <3>5, <3>6
  <2>3. CASE x.beat # "lost"
    <3> DEFINE b == IF Rearms(x) THEN "armed" ELSE "none"
    <3>1. b \in Beats
      BY DEF Beats
    <3>2. leg' = [leg EXCEPT ![p] = [x EXCEPT !.beat = b]]
      BY <1>5, <2>3 DEF Beating, Local, To, x
    <3> HIDE DEF b
    <3> QED BY <1>b, <2>1, <3>1, <3>2
  <2> QED BY <2>2, <2>3
<1>6. CASE Leave(p)
  <2> DEFINE y == [x EXCEPT !.gone = TRUE]
  <2>1. x.pc \in {"producing"} \cup Ending /\ ~x.gone /\ leg' = [leg EXCEPT ![p] = y]
    BY <1>6 DEF Leave, x
  <2>2. y \in Legs /\ Leaves(x, y) /\ Duty(x, y)
    BY <1>0, <2>1 DEF Legs, Leaves, Duty, SameBook, SameId, SameLine
  <2> HIDE DEF y
  <2> QED BY <1>f, <2>1, <2>2 DEF Moves
<1>7. CASE Crash(p)
  <2> DEFINE y == [NoLeg EXCEPT !.pc = "dead", !.lease = x.lease, !.fence = x.fence,
                                !.made = x.made, !.wire = x.wire]
  <2>1. x.pc \notin {"idle", "closed", "dead"} /\ leg' = [leg EXCEPT ![p] = y]
    BY <1>7 DEF Crash, To, x
  <2>2. <<>> \in Seq(Frames) /\ x.lease \in Nat /\ x.fence \in Nat /\ x.made \in Seq(Frames)
        /\ x.wire \in Seq(Frames)
    BY <1>0 DEF Legs
  <2>3. y \in Legs /\ Dies(x, y) /\ Duty(x, y)
    BY <2>1, <2>2 DEF NoLeg, Legs, PCs, Early, Beats, Answers, Dies, Duty, SameId
  <2> HIDE DEF y
  <2> QED BY <1>f, <2>1, <2>3 DEF Moves
<1> QED BY <1>1, <1>2, <1>3, <1>4, <1>5, <1>6, <1>7

-----------------------------------------------------------------------------
(* What a step does to the key. *)

\* The key keeps its holder.
KeyKept == LeaseInv' /\ SameRow /\ UNCHANGED <<now, issued, era>>

LEMMA RenewedByKeeps ==
  ASSUME LeaseInv, NEW x, x.lease \in Grants, RenewedBy(x)
  PROVE  KeyKept
<1>1. Renew(x.lease, FALSE)
  <2>1. believed' = IF TRUE /\ Renewable(x.lease)
                    THEN [believed EXCEPT ![x.lease] = now + Ttl] ELSE believed
    BY DEF RenewedBy
  <2> QED BY <2>1 DEF RenewedBy, Renew, onlyKey
<1>2. LeaseInv'
  BY <1>1, StepInv DEF LeaseNext
<1>3. SameRow
  BY RenewedKeeps DEF RenewedBy, LeaseInv
<1> QED BY <1>2, <1>3 DEF KeyKept, RenewedBy, onlyKey

LEMMA ReleasedOrNotKeeps ==
  ASSUME LeaseInv, NEW x, x.lease \in Grants, ReleasedOrNot(x)
  PROVE  KeyKept
<1>0. LeaseTypeOK
  BY DEF LeaseInv
<1>1. SameRow
  <2>1. CASE Released(x.lease)
    BY <1>0, <2>1, ReleasedKeeps
  <2>2. CASE UNCHANGED row
    BY <1>0, <2>2 DEF SameRow, LeaseTypeOK
  <2> QED BY <2>1, <2>2 DEF ReleasedOrNot
<1>2. UNCHANGED <<now, issued, era, drainFor, believed, owed>>
  BY DEF ReleasedOrNot, onlyKey
<1>3. RowIsIssued' /\ TokensGrow'
  BY <1>1, <1>2, FencingKept
<1>4. LeaseTypeOK'
  BY <1>0, <1>1, <1>2 DEF LeaseTypeOK, SameRow
<1> QED BY <1>1, <1>2, <1>3, <1>4 DEF KeyKept, LeaseInv

LEMMA UnchangedKeeps ==
  ASSUME LeaseInv, UNCHANGED leaseVars
  PROVE  KeyKept
<1>1. LeaseInv'
  BY StepInv
<1>2. SameRow
  BY DEF leaseVars, SameRow, LeaseInv, LeaseTypeOK
<1> QED BY <1>1, <1>2 DEF KeyKept, leaseVars

\* A leg that deals with the key has a lease of it.
LEMMA LeaseOfLeg ==
  ASSUME JournalShape, NEW p \in Producers,
         leg[p].pc \notin {"idle", "closed", "dead"} \/ leg[p].beat # "none" \/ leg[p].giving
  PROVE  leg[p].lease \in Grants
<1>1. leg[p].lease # 0
  BY LegIs DEF LegShape
<1> QED BY <1>1 DEF JournalShape, Named

\* Whatever a producer does but taking the lease.
Works(p) ==
  \/ TakeRefused(p) \/ OpenFails(p) \/ Make(p) \/ End(p)
  \/ Steps(p) \/ Heart(p) \/ Leave(p) \/ Crash(p)

LEMMA WorksKeepKey ==
  ASSUME JournalShape, NEW p \in Producers, Works(p)
  PROVE  KeyKept
<1>0. LeaseInv
  BY DEF JournalShape
<1> DEFINE x == leg[p]
<1>x. x = leg[p]
  OBVIOUS
<1> HIDE DEF x
<1>l. ASSUME x.pc \notin {"idle", "closed", "dead"} \/ x.beat # "none" \/ x.giving
      PROVE  x.lease \in Grants
  BY <1>l, <1>x, LeaseOfLeg
<1>1. ASSUME RenewedBy(x), x.lease \in Grants PROVE KeyKept
  BY <1>0, <1>1, RenewedByKeeps
<1>2. ASSUME ReleasedOrNot(x), x.lease \in Grants PROVE KeyKept
  BY <1>0, <1>2, ReleasedOrNotKeeps
<1>3. ASSUME UNCHANGED leaseVars PROVE KeyKept
  BY <1>0, <1>3, UnchangedKeeps
<1>4. CASE TakeRefused(p)
  BY <1>3, <1>4 DEF TakeRefused
<1>5. CASE OpenFails(p)
  <2>1. x.pc \in Opening /\ (UNCHANGED leaseVars \/ RenewedBy(x))
    BY <1>5, <1>x DEF OpenFails
  <2>2. x.pc \notin {"idle", "closed", "dead"}
    BY <2>1 DEF Opening
  <2> QED BY <2>1, <2>2, <1>l, <1>1, <1>3
<1>6. CASE Make(p) \/ End(p) \/ Leave(p) \/ Crash(p)
  BY <1>3, <1>6 DEF Make, End, Local, Leave, Crash
<1>7. CASE Open(p) \/ Reopen(p) \/ Window(p) \/ Commit(p) \/ Answer(p) \/ Drain(p) \/ Close(p)
  BY <1>3, <1>7 DEF Open, Reopen, Window, Commit, Answer, Drain, Close, Local
<1>8. CASE Check(p) \/ Confirm(p)
  <2>1. x.pc \in {"checking", "confirming"} /\ RenewedBy(x)
    BY <1>8, <1>x DEF Check, Confirm
  <2> QED BY <2>1, <1>l, <1>1
<1>9. CASE Refuse(p) \/ Return(p) \/ GiveBack(p)
  <2>1. (x.pc \in {"refusing", "releasing"} \/ x.giving) /\ ReleasedOrNot(x)
    BY <1>9, <1>x DEF Refuse, Return, GiveBack
  <2> QED BY <2>1, <1>l, <1>2
<1>10. CASE Beat(p) \/ Beating(p)
  BY <1>3, <1>10 DEF Beat, Beating, Local
<1>11. CASE Beaten(p)
  <2>1. x.beat = "sent" /\ (RenewedBy(x) \/ UNCHANGED leaseVars)
    BY <1>11, <1>x DEF Beaten
  <2> QED BY <2>1, <1>l, <1>1, <1>3
<1> QED BY <1>4, <1>5, <1>6, <1>7, <1>8, <1>9, <1>10, <1>11 DEF Works, Steps, Heart

-----------------------------------------------------------------------------
(* What a step does to the stored stream. *)

\* What a batch adds to the stored stream.
Landing(p, x) ==
  [i \in 1..Len(Records(x.batch)) |-> [by |-> p, kind |-> Records(x.batch)[i].kind]]

Stores(p, x) ==
  /\ stream.token <= x.fence
  /\ Records(x.batch)[1].seq = Len(stream.records)
  /\ stream' = [token |-> x.fence, records |-> stream.records \o Landing(p, x)]

LegLands(p) ==
  \E y \in Legs :
    /\ leg' = [leg EXCEPT ![p] = y] /\ Lands(leg[p], y) /\ Duty(leg[p], y)
    /\ \/ Stores(p, leg[p]) /\ y.commit \in {"committed", "failed"}
       \/ stream' = stream /\ y.commit # "committed"

LEMMA CommitLands ==
  ASSUME JournalShape, NEW p \in Producers, Commit(p)
  PROVE  LegLands(p)
<1> DEFINE x == leg[p]
           records == Records(x.batch)
           c == CommitAnswer(x.fence, records)
<1>0. x \in Legs /\ x.fence \in Nat /\ stream.token \in Nat
      /\ LastSeq + 1 = Len(stream.records)
  BY LegIs, TokensAreNumbers DEF Legs
<1>1. x.commit = "sent"
  BY DEF Commit
<1>2. c \in Answers
  BY DEF CommitAnswer, Answers
<1>3. c = "committed" => stream.token <= x.fence /\ records[1].seq = Len(stream.records)
  BY <1>0 DEF CommitAnswer
<1>4. \/ Committed(p, records) /\ leg' = [leg EXCEPT ![p] = [x EXCEPT !.commit = c]]
      \/ /\ Committed(p, records) \/ stream' = stream
         /\ leg' = [leg EXCEPT ![p] = [x EXCEPT !.commit = "failed"]]
  BY DEF Commit, To
<1>5. Committed(p, records) =>
        IF c = "committed" THEN Stores(p, x) ELSE stream' = stream
  BY <1>3 DEF Committed, Stores, Landing
<1> HIDE DEF c
<1>6. ASSUME NEW a \in Answers, leg' = [leg EXCEPT ![p] = [x EXCEPT !.commit = a]],
             \/ Stores(p, x) /\ a \in {"committed", "failed"}
             \/ stream' = stream /\ a # "committed"
      PROVE  LegLands(p)
  <2> HIDE DEF x
  <2> DEFINE y == [x EXCEPT !.commit = a]
  <2>1. y \in Legs /\ Lands(x, y) /\ Duty(x, y) /\ y.commit = a
    BY <1>0, <1>1, <1>6 DEF Legs, Lands, Duty, SameBook, SameId, SameOut
  <2>2. leg' = [leg EXCEPT ![p] = y]
    BY <1>6
  <2> HIDE DEF y
  <2> QED BY <1>6, <2>1, <2>2 DEF LegLands, x
<1>7. "failed" \in Answers
  BY DEF Answers
<1> HIDE DEF x
<1> QED BY <1>2, <1>4, <1>5, <1>6, <1>7

\* An open leaves the records alone, and its fence is no lower.
StreamOpens ==
  /\ stream' \in Streams /\ stream'.records = stream.records
  /\ stream.token <= stream'.token

LEMMA OpenedKeeps ==
  ASSUME stream \in Streams, NEW fence \in Nat, Opened(fence) \/ UNCHANGED stream
  PROVE  StreamOpens
<1>1. CASE stream' = stream
  BY <1>1 DEF StreamOpens, Streams
<1>2. CASE Opens(fence) /\ stream' = [stream EXCEPT !.token = fence]
  BY <1>2 DEF StreamOpens, Streams, Opens
<1> QED BY <1>1, <1>2 DEF Opened

LEMMA WorksKeepRecords ==
  ASSUME JournalShape, NEW p \in Producers, Works(p), ~Commit(p)
  PROVE  StreamOpens
<1>0. stream \in Streams /\ leg[p].fence \in Nat
  BY LegIs DEF JournalShape, JournalTypeOK, Legs
<1>1. Opened(leg[p].fence) \/ UNCHANGED stream
  BY DEF Works, Steps, Heart, TakeRefused, OpenFails, Make, End, Leave, Crash, Open, Check,
         Reopen, Confirm, Refuse, Window, Answer, Drain, Return, Close, GiveBack,
         Beat, Beaten, Beating, Local, ReleasedOrNot
<1> QED BY <1>0, <1>1, OpenedKeeps

LEMMA WorksMove ==
  ASSUME JournalShape, NEW p \in Producers, Works(p)
  PROVE  \/ LegMoves(p) /\ StreamOpens
         \/ LegLands(p)
<1>1. CASE Commit(p)
  BY <1>1, CommitLands
<1>2. CASE ~Commit(p)
  <2>1. StreamOpens
    BY <1>2, WorksKeepRecords
  <2>2. CASE \/ TakeRefused(p) \/ Open(p) \/ Check(p) \/ Reopen(p) \/ Confirm(p)
             \/ OpenFails(p) \/ Refuse(p)
    <3>1. ASSUME Take(p) PROVE LegMoves(p)
      <4>1. Acquirable /\ leg[p].pc = "idle"
        BY <3>1 DEF Take, Acquire
      <4> QED BY <2>2, <4>1 DEF TakeRefused, Open, Check, Reopen, Confirm, OpenFails, Refuse, Opening
    <3>2. LegMoves(p)
      BY <2>2, <3>1, OpeningMoves
    <3> QED BY <2>1, <3>2
  <2>3. CASE Make(p) \/ End(p) \/ Window(p) \/ Answer(p) \/ Drain(p) \/ Close(p)
    BY <2>1, <2>3, WorkMoves
  <2>4. CASE Return(p) \/ GiveBack(p) \/ Beat(p) \/ Beaten(p) \/ Beating(p) \/ Leave(p) \/ Crash(p)
    BY <2>1, <2>4, DutyMoves
  <2> QED BY <1>2, <2>2, <2>3, <2>4 DEF Works, Steps, Heart
<1> QED BY <1>1, <1>2

LEMMA LandingIs ==
  ASSUME NEW p \in Producers, NEW x \in Legs
  PROVE  /\ Records(x.batch) \in Seq(Frames)
         /\ \A j \in 1..Len(Records(x.batch)) : Journaled(Records(x.batch)[j])
         /\ Landing(p, x) \in Seq([by : Producers, kind : {"part", "done"}])
         /\ Len(Landing(p, x)) = Len(Records(x.batch))
         /\ \A j \in 1..Len(Records(x.batch)) :
              Landing(p, x)[j] = [by |-> p, kind |-> Records(x.batch)[j].kind]
<1> DEFINE r == Records(x.batch)
<1>1. x.batch \in Seq(Frames)
  BY DEF Legs
<1>2. Finds(Frames, x.batch, Len(x.batch), r)
  BY <1>1, RecordsHas
<1>3. r \in Seq(Frames) /\ \A j \in 1..Len(r) : Journaled(r[j])
  BY <1>2 DEF Finds
<1> HIDE DEF r
<1>4. \A j \in 1..Len(r) : r[j].kind \in {"part", "done"}
  BY <1>3 DEF Journaled
<1>5. Landing(p, x) = [i \in 1..Len(r) |-> [by |-> p, kind |-> r[i].kind]]
  BY DEF Landing, r
<1>6. \A j \in 1..Len(r) : [by |-> p, kind |-> r[j].kind] \in [by : Producers, kind : {"part", "done"}]
  BY <1>4
<1>7. Len(r) \in Nat
  BY <1>3
<1>8. Landing(p, x) \in Seq([by : Producers, kind : {"part", "done"}])
      /\ Len(Landing(p, x)) = Len(r)
      /\ \A j \in 1..Len(r) : Landing(p, x)[j] = [by |-> p, kind |-> r[j].kind]
  BY <1>5, <1>6, <1>7
<1> QED BY <1>3, <1>8 DEF r

LEMMA StoresKeep ==
  ASSUME stream \in Streams, NEW p \in Producers, NEW x \in Legs, Stores(p, x)
  PROVE  stream' \in Streams
<1>1. Landing(p, x) \in Seq([by : Producers, kind : {"part", "done"}])
  BY LandingIs
<1>2. stream.records \in Seq([by : Producers, kind : {"part", "done"}]) /\ x.fence \in Nat
  BY DEF Streams, Legs
<1>3. stream.records \o Landing(p, x) \in Seq([by : Producers, kind : {"part", "done"}])
  BY <1>1, <1>2
<1> QED BY <1>2, <1>3 DEF Stores, Streams

LEMMA MishapsKeep ==
  ASSUME mishaps \in Mishaps,
         \/ UNCHANGED mishaps
         \/ mishaps' = [mishaps EXCEPT !.faults = @ + 1]
         \/ mishaps' = [mishaps EXCEPT !.leaves = @ + 1]
         \/ mishaps' = [mishaps EXCEPT !.crashes = @ + 1]
  PROVE  mishaps' \in Mishaps /\ mishaps.faults <= mishaps'.faults
BY DEF Mishaps

LEMMA MishapsMove ==
  ASSUME NEW p \in Producers, Take(p) \/ Works(p)
  PROVE  \/ UNCHANGED mishaps
         \/ mishaps' = [mishaps EXCEPT !.faults = @ + 1]
         \/ mishaps' = [mishaps EXCEPT !.leaves = @ + 1]
         \/ mishaps' = [mishaps EXCEPT !.crashes = @ + 1]
BY DEF Take, Works, Steps, Heart, TakeRefused, OpenFails, Make, End, Leave, Crash, Open, Check,
         Reopen, Confirm, Refuse, Window, Commit, Answer, Drain, Return, Close, GiveBack,
         Beat, Beaten, Beating, Local, ReleasedOrNot, Fine, Fault

\* Only the lease it took names a leg, and it is never idle again.
LEMMA MovesKeepName ==
  ASSUME NEW x \in Legs, NEW y \in Legs, Moves(x, y) \/ Lands(x, y)
  PROVE  y.lease = x.lease /\ (y.pc = "idle" => x.pc = "idle")
<1> USE DEF SameBook, SameId, Opening, Ending
<1>1. CASE Rests(x, y)
  BY <1>1 DEF Rests
<1>2. CASE Begins(x, y)
  BY <1>2 DEF Begins
<1>3. CASE Refuses(x, y)
  BY <1>3 DEF Refuses
<1>4. CASE Flushes(x, y)
  BY <1>4 DEF Flushes
<1>5. CASE Makes(x, y)
  BY <1>5 DEF Makes
<1>6. CASE Stops(x, y)
  BY <1>6 DEF Stops
<1>7. CASE Lands(x, y)
  BY <1>7 DEF Lands
<1>8. CASE Publishes(x, y)
  BY <1>8 DEF Publishes
<1>9. CASE Forgets(x, y)
  BY <1>9 DEF Forgets
<1>10. CASE Fails(x, y)
  BY <1>10 DEF Fails
<1>11. CASE Closes(x, y)
  BY <1>11 DEF Closes
<1>12. CASE Leaves(x, y)
  BY <1>12 DEF Leaves
<1>13. CASE Dies(x, y)
  BY <1>13 DEF Dies
<1> QED BY <1>1, <1>2, <1>3, <1>4, <1>5, <1>6, <1>7, <1>8, <1>9, <1>10, <1>11,
           <1>12, <1>13 DEF Moves

LEMMA NamedKept ==
  ASSUME JournalTypeOK, JournalTypeOK', Named, NEW p \in Producers, NEW y,
         leg' = [leg EXCEPT ![p] = y], y.lease = leg[p].lease, y.pc = "idle" => leg[p].pc = "idle",
         UNCHANGED issued
  PROVE  Named'
<1>1. leg' \in [Producers -> Legs] /\ leg \in [Producers -> Legs] /\ Grants' = Grants
  BY DEF JournalTypeOK, Grants
<1>2. \A q \in Producers : leg'[q] = IF q = p THEN y ELSE leg[q]
  BY <1>1
<1>3. \A q \in Producers : leg'[q].lease = leg[q].lease /\ (leg'[q].pc = "idle" => leg[q].pc = "idle")
  BY <1>2
<1>4. \A q \in Producers : leg'[q].lease # 0 => leg'[q].lease \in Grants /\ issued[leg'[q].lease].owner = q
  BY <1>3 DEF Named
<1>5. \A g \in Grants : leg'[issued[g].owner].pc # "idle"
  <2> TAKE g \in Grants
  <2>1. leg[issued[g].owner].pc # "idle"
    BY DEF Named
  <2>2. CASE issued[g].owner \in Producers
    BY <1>3, <2>1, <2>2
  <2>3. CASE issued[g].owner # p
    BY <1>1, <2>1, <2>3
  <2>4. CASE issued[g].owner = p
    BY <1>3, <2>1, <2>4
  <2> QED BY <2>2, <2>3, <2>4
<1> QED BY <1>1, <1>4, <1>5 DEF Named

LEMMA RefusedIs ==
  ASSUME NEW x \in Legs
  PROVE  Refused(x) \in Legs /\ Refused(x).pc = "closed" /\ Refused(x).lease = x.lease
<1> DEFINE z == FailClosed(x)
           y == [z EXCEPT !.pc = "closed", !.beat = "none"]
<1>1. z \in Legs /\ z.lease = x.lease
  BY FailClosedIs DEF SameBook, SameId
<1>2. Refused(x) = y
  BY DEF Refused
<1> HIDE DEF z
<1>3. y \in Legs /\ y.pc = "closed" /\ y.lease = z.lease
  BY <1>1 DEF Legs, PCs, Ending, Beats
<1> QED BY <1>1, <1>2, <1>3

\* The lease that is taken is the producer's first.
LEMMA TakeKeepsNames ==
  ASSUME JournalShape, JournalTypeOK', NEW p \in Producers, Take(p)
  PROVE  Named'
<1> DEFINE n == Len(issued) + 1
           lease == [owner |-> p, token |-> NextToken, era |-> era]
<1>0. LeaseTypeOK /\ JournalTypeOK /\ Named /\ leg[p] \in Legs /\ LegShape(leg[p])
  BY LegIs DEF JournalShape, LeaseInv
<1>1. leg[p].pc = "idle" /\ Acquire(p) /\ leg[p].lease = 0
  BY <1>0 DEF Take, LegShape
<1>2. issued \in Seq(Leases) /\ issued' = Append(issued, lease)
  BY <1>0, <1>1 DEF Acquire, LeaseTypeOK
<1>3. Grants = 1..Len(issued) /\ Len(issued) \in Nat
  BY <1>0, IssuedShape
<1> HIDE DEF lease
<1>4. /\ Grants' = 1..n /\ issued'[n] = lease /\ n \in Nat
      /\ \A g \in Grants : g \in Grants' /\ issued'[g] = issued[g] /\ g # n
      /\ \A g \in Grants' : g \in Grants \/ g = n
  BY <1>2, <1>3 DEF Grants
<1>5. lease.owner = p
  BY DEF lease
<1>6. \A g \in Grants : issued[g].owner # p
  BY <1>0, <1>1 DEF Named
<1>7. PICK y : /\ leg' = [leg EXCEPT ![p] = y] /\ y.pc # "idle"
               /\ y.lease = n \/ y.lease = 0
  <2>1. CASE leg' = [leg EXCEPT ![p] = Refused(leg[p])]
    BY <1>0, <1>1, <2>1, RefusedIs
  <2>2. CASE LegTakes(p)
    BY <2>2 DEF LegTakes, Takes
  <2>3. \/ leg' = [leg EXCEPT ![p] = Refused(leg[p])]
        \/ leg' = [leg EXCEPT ![p] = [leg[p] EXCEPT !.pc = "opening", !.lease = n, !.fence = NextToken]]
    BY DEF Take, To
  <2>4. CASE leg' = [leg EXCEPT ![p] = [leg[p] EXCEPT !.pc = "opening", !.lease = n, !.fence = NextToken]]
    <3> DEFINE y == [leg[p] EXCEPT !.pc = "opening", !.lease = n, !.fence = NextToken]
    <3> HIDE DEF n
    <3>1. y.pc = "opening" /\ y.lease = n
      BY <1>0 DEF Legs
    <3> QED BY <2>4, <3>1
  <2> QED BY <2>1, <2>3, <2>4
<1> HIDE DEF n
<1>8. \A q \in Producers : leg'[q] = IF q = p THEN y ELSE leg[q]
  BY <1>0, <1>7 DEF JournalTypeOK
<1>9. \A q \in Producers : leg'[q].lease # 0 =>
         leg'[q].lease \in Grants' /\ issued'[leg'[q].lease].owner = q
  <2> SUFFICES ASSUME NEW q \in Producers, leg'[q].lease # 0
               PROVE  leg'[q].lease \in Grants' /\ issued'[leg'[q].lease].owner = q
    OBVIOUS
  <2>1. CASE q = p
    <3>1. leg'[q].lease = n
      BY <1>7, <1>8, <2>1
    <3>2. n \in Grants'
      BY <1>3, <1>4 DEF n
    <3> QED BY <1>4, <1>5, <2>1, <3>1, <3>2
  <2>2. CASE q # p
    <3>1. leg'[q] = leg[q]
      BY <1>8, <2>2
    <3>2. leg[q].lease \in Grants /\ issued[leg[q].lease].owner = q
      BY <1>0, <3>1 DEF Named
    <3> QED BY <1>4, <3>1, <3>2
  <2> QED BY <2>1, <2>2
<1>10. \A g \in Grants' : leg'[issued'[g].owner].pc # "idle"
  <2> TAKE g \in Grants'
  <2>1. CASE g = n
    BY <1>4, <1>5, <1>7, <1>8, <2>1
  <2>2. CASE g \in Grants
    <3>1. issued'[g] = issued[g] /\ issued[g].owner # p /\ leg[issued[g].owner].pc # "idle"
      BY <1>0, <1>4, <1>6, <2>2 DEF Named
    <3>2. leg'[issued[g].owner] = leg[issued[g].owner]
      BY <1>0, <1>7, <3>1, <2>2, IssuedShape DEF JournalTypeOK
    <3> QED BY <3>1, <3>2
  <2> QED BY <1>4, <2>1, <2>2
<1>11. \A g, h \in Grants' : issued'[g].owner = issued'[h].owner => g = h
  BY <1>0, <1>4, <1>5, <1>6 DEF Named
<1> QED BY <1>9, <1>10, <1>11 DEF Named

LEMMA TakeKeepsShape ==
  ASSUME JournalShape, NEW p \in Producers, Take(p)
  PROVE  JournalShape'
<1>1. Acquire(p) /\ UNCHANGED stream
  BY DEF Take
<1>2. LeaseInv'
  BY <1>1, AcquireInv DEF JournalShape, Producers
<1>3. PICK y \in Legs : /\ leg' = [leg EXCEPT ![p] = y]
                        /\ (Takes(leg[p], y) \/ Moves(leg[p], y)) /\ Duty(leg[p], y)
  <2>1. LegMoves(p) \/ LegTakes(p)
    BY OpeningMoves
  <2> QED BY <2>1 DEF LegMoves, LegTakes
<1>4. leg \in [Producers -> Legs] /\ leg[p] \in Legs /\ LegShape(leg[p])
  BY LegIs DEF JournalShape, JournalTypeOK
<1>5. JournalTypeOK'
  <2>1. leg' \in [Producers -> Legs]
    BY <1>3, <1>4
  <2>2. mishaps' \in Mishaps
    BY MishapsMove, MishapsKeep DEF JournalShape, JournalTypeOK
  <2> QED BY <1>1, <2>1, <2>2 DEF JournalShape, JournalTypeOK
<1>6. LegShape(y)
  BY <1>3, <1>4, MovesKeepShape
<1>7. \A q \in Producers : LegShape(leg'[q])
  BY <1>3, <1>4, <1>6 DEF JournalShape
<1>8. Named'
  BY <1>5, TakeKeepsNames
<1> QED BY <1>2, <1>5, <1>7, <1>8 DEF JournalShape

LEMMA WorksKeepShape ==
  ASSUME JournalShape, NEW p \in Producers, Works(p)
  PROVE  JournalShape'
<1>1. KeyKept
  BY WorksKeepKey
<1>2. PICK y \in Legs : /\ leg' = [leg EXCEPT ![p] = y]
                        /\ (Moves(leg[p], y) \/ Lands(leg[p], y)) /\ Duty(leg[p], y)
                        /\ stream' \in Streams
  <2>1. CASE LegMoves(p) /\ StreamOpens
    BY <2>1 DEF LegMoves, StreamOpens
  <2>2. CASE LegLands(p)
    <3>1. stream \in Streams /\ leg[p] \in Legs
      BY LegIs DEF JournalShape, JournalTypeOK
    <3>2. stream' \in Streams
      BY <2>2, <3>1, StoresKeep DEF LegLands
    <3> QED BY <2>2, <3>2 DEF LegLands
  <2> QED BY <2>1, <2>2, WorksMove
<1>4. leg \in [Producers -> Legs] /\ leg[p] \in Legs /\ LegShape(leg[p])
  BY LegIs DEF JournalShape, JournalTypeOK
<1>5. JournalTypeOK'
  <2>1. leg' \in [Producers -> Legs]
    BY <1>2, <1>4
  <2>2. mishaps' \in Mishaps
    BY MishapsMove, MishapsKeep DEF JournalShape, JournalTypeOK
  <2> QED BY <1>2, <2>1, <2>2 DEF JournalTypeOK
<1>6. LegShape(y)
  BY <1>2, <1>4, MovesKeepShape
<1>7. \A q \in Producers : LegShape(leg'[q])
  BY <1>2, <1>4, <1>6 DEF JournalShape
<1>8. y.lease = leg[p].lease /\ (y.pc = "idle" => leg[p].pc = "idle")
  BY <1>2, <1>4, MovesKeepName
<1>9. Named'
  BY <1>1, <1>2, <1>5, <1>8, NamedKept DEF JournalShape, KeyKept
<1> QED BY <1>1, <1>5, <1>7, <1>9 DEF JournalShape, KeyKept

\* The key lapses or is pruned, and no leg moves.
LEMMA WorldKeepsShape ==
  ASSUME JournalShape, \/ \E before \in 1..(MaxClock + Ttl) : JournalPrune(before)
                       \/ JournalTick
                       \/ UNCHANGED journalVars
  PROVE  JournalShape' /\ UNCHANGED <<leg, stream, mishaps, issued>>
<1>1. LeaseInv' /\ UNCHANGED issued
  <2>1. (\E before \in 1..(MaxClock + Ttl) : Prune(before)) \/ Tick \/ UNCHANGED leaseVars
    BY DEF JournalPrune, JournalTick, journalVars
  <2>2. LeaseInv'
    BY <2>1, StepInv DEF JournalShape, LeaseNext
  <2> QED BY <2>1, <2>2 DEF Prune, Tick, leaseVars
<1>2. UNCHANGED <<leg, stream, mishaps>>
  BY DEF JournalPrune, JournalTick, journalVars
<1> QED BY <1>1, <1>2 DEF JournalShape, JournalTypeOK, Named, Grants

LEMMA StepsAre ==
  ASSUME [JournalNext]_journalVars
  PROVE  \/ \E p \in Producers : Take(p) \/ Works(p)
         \/ \E before \in 1..(MaxClock + Ttl) : JournalPrune(before)
         \/ JournalTick
         \/ UNCHANGED journalVars
BY DEF JournalNext, Works

LEMMA ShapeStep ==
  JournalShape /\ [JournalNext]_journalVars => JournalShape'
BY StepsAre, TakeKeepsShape, WorksKeepShape, WorldKeepsShape

LEMMA ShapeInit == JournalInit => JournalShape
<1> SUFFICES ASSUME JournalInit PROVE JournalShape
  OBVIOUS
<1>1. LeaseInv
  BY InitInv DEF JournalInit
<1>2. NoLeg \in Legs /\ LegShape(NoLeg) /\ NoLeg.lease = 0
  BY DEF NoLeg, Legs, PCs, Early, Beats, LegShape, Opening
<1>3. leg \in [Producers -> Legs] /\ \A p \in Producers : leg[p] = NoLeg
  BY <1>2 DEF JournalInit
<1>4. stream \in Streams
  <2>1. stream.token \in Nat /\ stream.records = <<>>
    BY JournalAssumption DEF JournalInit
  <2>2. stream = [token |-> stream.token, records |-> stream.records]
    BY DEF JournalInit
  <2>3. <<>> \in Seq([by : Producers, kind : {"part", "done"}])
    OBVIOUS
  <2> HIDE DEF JournalInit
  <2> QED BY <2>1, <2>2, <2>3 DEF Streams
<1>5. mishaps \in Mishaps
  BY DEF JournalInit, Mishaps
<1>6. Named
  BY <1>2, <1>3 DEF JournalInit, LeaseInit, Unused, Named, Grants
<1> QED BY <1>1, <1>2, <1>3, <1>4, <1>5, <1>6 DEF JournalShape, JournalTypeOK

\* Every variable has its type, the key is fenced (LeaseInv), each leg knows its
\* own lease, and its frames, timer and lease are as its pc says: nothing is in
\* flight before the stream is open, nothing queued once it halted or ended
\* (internal/durable-journal.ts:108-335).
THEOREM Shape == JournalSpec => []JournalShape
BY ShapeInit, ShapeStep, PTL DEF JournalSpec

-----------------------------------------------------------------------------
(* Stored before it is published, and without a gap. *)

\* The records of the frames count up to seq.
Run(frames, seq) ==
  \A i \in 1..Len(Records(frames)) : Records(frames)[i].seq = seq - Len(Records(frames)) + i - 1

LEMMA RecordsAre ==
  ASSUME NEW frames \in Seq(Frames)
  PROVE  /\ Records(frames) \in Seq(Frames) /\ Len(Records(frames)) \in Nat
         /\ \A i \in DOMAIN frames : Journaled(frames[i]) =>
              \E j \in 1..Len(Records(frames)) : Records(frames)[j] = frames[i]
         /\ \A j \in 1..Len(Records(frames)) : Records(frames)[j].seq \in Int
<1> DEFINE r == Records(frames)
<1>1. Finds(Frames, frames, Len(frames), r) /\ DOMAIN frames = 1..Len(frames)
  BY RecordsHas
<1> HIDE DEF r
<1>2. r \in Seq(Frames) /\ \A i \in DOMAIN frames : Journaled(frames[i]) =>
                               \E j \in 1..Len(r) : r[j] = frames[i]
  BY <1>1 DEF Finds
<1>3. \A j \in 1..Len(r) : r[j].seq \in Int
  <2>1. \A j \in 1..Len(r) : r[j] \in Frames
    BY <1>2
  <2>2. \A f \in Frames : f.seq \in Int
    BY DEF Frames
  <2> QED BY <2>1, <2>2
<1>4. Len(r) \in Nat
  BY <1>2
<1> QED BY <1>2, <1>3, <1>4 DEF r

LEMMA RunOn ==
  ASSUME NEW frames \in Seq(Frames), NEW frame \in Frames, NEW seq \in Nat,
         Run(frames, seq), Journaled(frame) => frame.seq = seq
  PROVE  LET all == Append(frames, frame)
         IN IF Journaled(frame)
            THEN Run(all, seq + 1) /\ Len(Records(all)) = Len(Records(frames)) + 1
            ELSE Run(all, seq) /\ Len(Records(all)) = Len(Records(frames))
<1> DEFINE r == Records(frames)
           all == Append(frames, frame)
           t == Records(all)
<1>1. t = IF Journaled(frame) THEN Append(r, frame) ELSE r
  BY RecordsAppend
<1>2. r \in Seq(Frames) /\ Len(r) \in Nat
  BY RecordsAre
<1>3. \A i \in 1..Len(r) : r[i].seq = seq - Len(r) + i - 1
  BY DEF Run
<1> HIDE DEF r, t, all
<1>4. CASE Journaled(frame)
  <2>1. Len(t) = Len(r) + 1 /\ t[Len(r) + 1] = frame /\ \A i \in 1..Len(r) : t[i] = r[i]
    BY <1>1, <1>2, <1>4
  <2>2. \A i \in 1..Len(t) : t[i].seq = (seq + 1) - Len(t) + i - 1
    <3> TAKE i \in 1..Len(t)
    <3>1. CASE i = Len(r) + 1
      BY <1>2, <1>4, <2>1, <3>1
    <3>2. CASE i \in 1..Len(r)
      BY <1>2, <1>3, <2>1, <3>2
    <3> QED BY <1>2, <2>1, <3>1, <3>2
  <2> QED BY <1>4, <2>1, <2>2 DEF Run, t, all, r
<1>5. CASE ~Journaled(frame)
  BY <1>1, <1>3, <1>5 DEF Run, t, all, r
<1> QED BY <1>4, <1>5

\* A run counts up from its first.
LEMMA RunFromFirst ==
  ASSUME NEW frames \in Seq(Frames), NEW seq \in Nat, Run(frames, seq),
         Records(frames) # <<>>
  PROVE  /\ Len(Records(frames)) > 0 /\ Len(Records(frames)) \in Nat
         /\ Records(frames)[1].seq = seq - Len(Records(frames))
         /\ Run(frames, Records(frames)[1].seq + Len(Records(frames)))
<1> DEFINE r == Records(frames)
<1>1. r \in Seq(Frames) /\ r # <<>>
  BY RecordsAre
<1>2. \A i \in 1..Len(r) : r[i].seq = seq - Len(r) + i - 1
  BY DEF Run
<1> HIDE DEF r
<1>3. Len(r) \in Nat /\ Len(r) > 0
  BY <1>1
<1>4. r[1].seq = seq - Len(r)
  BY <1>2, <1>3
<1>5. r[1].seq + Len(r) = seq
  BY <1>3, <1>4
<1> QED BY <1>3, <1>4, <1>5 DEF r

\* The frame is stored under its event id, as p's.
IsStored(p, records, frame) ==
  Journaled(frame) => /\ frame.seq + 1 \in DOMAIN records
                      /\ records[frame.seq + 1] = [by |-> p, kind |-> frame.kind]

AllStored(p, records, frames) == \A i \in DOMAIN frames : IsStored(p, records, frames[i])

Mine(p, records) == {i \in DOMAIN records : records[i].by = p}

\* What reached the client, or will as soon as its commit is answered, is stored.
Out(p, records, x) ==
  /\ AllStored(p, records, x.wire) /\ AllStored(p, records, x.tail)
  /\ x.commit = "committed" => AllStored(p, records, x.batch)

\* What waits, and what is in flight, goes on where p's last stored record left.
NextSeq(x) == x.seq - Len(Records(x.queue))
First(x) == Records(x.batch)[1].seq
GoesOn(p, records, seq) == Mine(p, records) = {} \/ seq \in Mine(p, records)

Line(p, records, x) ==
  /\ Run(x.queue, x.seq)
  /\ x.commit = "sent" =>
       /\ Records(x.batch) # <<>> /\ Run(x.batch, First(x) + Len(Records(x.batch)))
       /\ GoesOn(p, records, First(x))
       /\ x.pc \in {"producing", "ending"} => NextSeq(x) = First(x) + Len(Records(x.batch))
  /\ x.pc \in {"producing", "ending"} /\ x.commit \in {"none", "committed"} =>
       GoesOn(p, records, NextSeq(x))
  /\ x.pc \in Early => Mine(p, records) = {}

LEMMA AllStoredJoin ==
  ASSUME NEW p, NEW records, NEW s \in Seq(Frames), NEW t \in Seq(Frames),
         AllStored(p, records, s), AllStored(p, records, t)
  PROVE  AllStored(p, records, s \o t)
<1> SUFFICES ASSUME NEW i \in DOMAIN (s \o t) PROVE IsStored(p, records, (s \o t)[i])
  BY DEF AllStored
<1>1. CASE i \in DOMAIN s
  <2>1. (s \o t)[i] = s[i]
    BY <1>1
  <2> QED BY <1>1, <2>1 DEF AllStored
<1>2. CASE i \notin DOMAIN s
  <2>1. i - Len(s) \in DOMAIN t /\ (s \o t)[i] = t[i - Len(s)]
    BY <1>2
  <2> QED BY <2>1 DEF AllStored
<1> QED BY <1>1, <1>2

LEMMA AllStoredOne ==
  ASSUME NEW p, NEW records, NEW frame \in Frames, ~Journaled(frame)
  PROVE  AllStored(p, records, <<frame>>) /\ AllStored(p, records, <<>>)
<1>1. \A i \in DOMAIN <<frame>> : <<frame>>[i] = frame
  OBVIOUS
<1> QED BY <1>1 DEF AllStored, IsStored

LEMMA ErrorIsNot ==
  Error \in Frames /\ Transient \in Frames /\ ~Journaled(Error) /\ ~Journaled(Transient)
BY DEF Error, Transient, Journaled, Frames

\* A batch without a record asks nothing of the store.
LEMMA NoRecords ==
  ASSUME NEW p, NEW records, NEW frames \in Seq(Frames), Records(frames) = <<>>
  PROVE  AllStored(p, records, frames)
<1>1. Len(Records(frames)) = 0
  OBVIOUS
<1>2. \A i \in DOMAIN frames : ~Journaled(frames[i])
  BY <1>1, RecordsAre
<1> QED BY <1>2 DEF AllStored, IsStored

LEMMA WireStored ==
  ASSUME NEW p, NEW records, NEW x \in Legs, NEW y \in Legs, NEW frames \in Seq(Frames),
         AllStored(p, records, x.wire), AllStored(p, records, frames),
         y.wire = IF x.gone THEN x.wire ELSE x.wire \o frames
  PROVE  AllStored(p, records, y.wire)
<1>1. x.wire \in Seq(Frames)
  BY DEF Legs
<1>2. AllStored(p, records, x.wire \o frames)
  BY <1>1, AllStoredJoin
<1> QED BY <1>2

LEMMA Assoc ==
  ASSUME NEW s \in Seq(Frames), NEW t \in Seq(Frames), NEW u \in Seq(Frames)
  PROVE  (s \o t) \o u = s \o (t \o u)
BY ConcatAssociative

LEMMA MovesKeepOut ==
  ASSUME NEW p, NEW records, NEW x \in Legs, NEW y \in Legs, LegShape(x),
         Out(p, records, x), Moves(x, y) \/ Takes(x, y)
  PROVE  Out(p, records, y)
<1>s. /\ x.wire \in Seq(Frames) /\ x.tail \in Seq(Frames) /\ x.batch \in Seq(Frames)
      /\ x.queue \in Seq(Frames)
  BY DEF Legs
<1>e. /\ <<Error>> \in Seq(Frames) /\ AllStored(p, records, <<Error>>)
      /\ AllStored(p, records, <<>>)
  BY ErrorIsNot, AllStoredOne
<1>o. /\ AllStored(p, records, x.wire) /\ AllStored(p, records, x.tail)
      /\ x.commit = "committed" => AllStored(p, records, x.batch)
  BY DEF Out
<1>1. CASE Rests(x, y)
  BY <1>o, <1>1 DEF Rests, SameOut, SameLine, Out
<1>2. CASE Begins(x, y) \/ Takes(x, y)
  BY <1>o, <1>2 DEF Begins, Takes, SameOut, SameLine, Out
<1>3. CASE Refuses(x, y)
  <2>1. AllStored(p, records, y.wire)
    BY <1>o, <1>e, <1>3, WireStored DEF Refuses
  <2> QED BY <1>o, <1>3, <2>1 DEF Refuses, SameLine, Out
<1>4. CASE Flushes(x, y)
  <2>1. y.commit = "committed" => Records(x.queue) = <<>>
    BY <1>4 DEF Flushes, Batched
  <2>2. y.commit = "committed" => AllStored(p, records, y.batch)
    BY <1>s, <1>4, <2>1, NoRecords DEF Flushes, Batched
  <2> QED BY <1>o, <1>4, <2>2 DEF Flushes, SameOut, Out
<1>5. CASE Makes(x, y)
  <2>1. PICK frame \in {Part(x.seq), Done(x.seq), Transient} : Joins(x, frame, y)
    BY <1>5 DEF Makes
  <2>f. frame \in Frames
    BY <2>1, PartsAreFrames DEF Legs
  <2>2. CASE /\ ~Journaled(frame) /\ x.queue = <<>> /\ x.commit = "none"
             /\ SameLine(x, y) /\ y.tail = x.tail /\ y.gone = x.gone
             /\ y.wire = IF x.gone THEN x.wire ELSE x.wire \o <<frame>>
    <3>1. <<frame>> \in Seq(Frames) /\ AllStored(p, records, <<frame>>)
      BY <2>2, <2>f, AllStoredOne
    <3>2. AllStored(p, records, y.wire)
      BY <1>o, <2>2, <3>1, WireStored
    <3> QED BY <1>o, <2>2, <3>2 DEF SameLine, Out
  <2>3. CASE /\ SameOut(x, y) /\ y.batch = x.batch /\ y.commit = x.commit
    BY <1>o, <2>3 DEF SameOut, Out
  <2>4. CASE /\ SameOut(x, y) /\ x.commit = "none" /\ y.queue = <<>>
             /\ y.batch = Append(x.queue, frame)
             /\ y.commit = IF Records(Append(x.queue, frame)) = <<>> THEN "committed" ELSE "sent"
    <3> DEFINE all == Append(x.queue, frame)
    <3>1. all \in Seq(Frames)
      BY <1>s, <2>f
    <3>2. y.commit = "committed" => Records(all) = <<>>
      BY <2>4
    <3>3. y.batch = all
      BY <2>4
    <3> HIDE DEF all
    <3>4. y.commit = "committed" => AllStored(p, records, y.batch)
      BY <3>1, <3>2, <3>3, NoRecords
    <3> QED BY <1>o, <2>4, <3>4 DEF SameOut, Out
  <2> QED BY <2>1, <2>2, <2>3, <2>4 DEF Joins
<1>6. CASE Stops(x, y)
  BY <1>o, <1>6 DEF Stops, SameOut, SameLine, Out
<1>8. CASE Publishes(x, y)
  <2>1. AllStored(p, records, x.batch)
    BY <1>o, <1>8 DEF Publishes
  <2>2. AllStored(p, records, y.wire) /\ AllStored(p, records, y.tail)
    <3>1. CASE x.pc \in Ending
      BY <1>s, <1>o, <1>8, <2>1, <3>1, AllStoredJoin DEF Publishes
    <3>2. CASE x.pc \notin Ending
      BY <1>s, <1>o, <1>8, <2>1, <3>2, WireStored DEF Publishes
    <3> QED BY <3>1, <3>2
  <2>3. y.commit = "committed" => AllStored(p, records, y.batch)
    <3>1. CASE Cleared(x, y)
      BY <3>1 DEF Cleared
    <3>2. CASE Goes(x, y)
      BY <1>s, <3>2, NoRecords DEF Goes
    <3> QED BY <1>8, <3>1, <3>2 DEF Publishes
  <2> QED BY <2>2, <2>3 DEF Out
<1>9. CASE Forgets(x, y)
  BY <1>o, <1>9 DEF Forgets, SameOut, Cleared, Out
<1>10. CASE Fails(x, y)
  <2> DEFINE last == <<Error>>
             f == x.tail \o last
  <2>0. last \in Seq(Frames) /\ AllStored(p, records, last)
    BY <1>e
  <2>w. y.wire = IF x.gone THEN x.wire ELSE (x.wire \o x.tail) \o last
    BY <1>10 DEF Fails
  <2> HIDE DEF last
  <2>1. f \in Seq(Frames) /\ AllStored(p, records, f)
    BY <1>s, <1>o, <2>0, AllStoredJoin
  <2>2. (x.wire \o x.tail) \o last = x.wire \o f
    BY ZenonT(30), <1>s, <2>0, Assoc
  <2>3. y.wire = IF x.gone THEN x.wire ELSE x.wire \o f
    BY <2>w, <2>2
  <2> HIDE DEF f
  <2>4. AllStored(p, records, y.wire)
    BY <1>o, <2>1, <2>3, WireStored
  <2> QED BY <1>o, <1>e, <1>10, <2>4 DEF Fails, Out
<1>11. CASE Closes(x, y)
  <2>1. AllStored(p, records, y.wire)
    BY <1>s, <1>o, <1>11, WireStored DEF Closes
  <2> QED BY <1>o, <1>e, <1>11, <2>1 DEF Closes, SameLine, Out
<1>12. CASE Leaves(x, y)
  BY <1>o, <1>12 DEF Leaves, SameLine, Out
<1>13. CASE Dies(x, y)
  BY <1>o, <1>e, <1>13 DEF Dies, Out
<1> QED BY <1>1, <1>2, <1>3, <1>4, <1>5, <1>6, <1>8, <1>9, <1>10, <1>11,
           <1>12, <1>13 DEF Moves

\* A queue that becomes the batch is in flight where it waited.
LEMMA LineBatched ==
  ASSUME NEW p, NEW records, NEW x \in Legs, NEW y \in Legs,
         NEW queue \in Seq(Frames), NEW seq \in Nat,
         Run(queue, seq), GoesOn(p, records, seq - Len(Records(queue))),
         y.queue = <<>>, y.batch = queue, y.seq = seq, y.pc \in {"producing", "ending"},
         y.commit = IF Records(queue) = <<>> THEN "committed" ELSE "sent"
  PROVE  Line(p, records, y)
<1>1. Records(y.queue) = <<>> /\ Len(Records(y.queue)) = 0
  BY RecordsEmpty
<1>2. Run(y.queue, y.seq)
  BY <1>1 DEF Run
<1>3. NextSeq(y) = seq
  BY <1>1 DEF NextSeq
<1>4. y.pc \notin Early
  BY DEF Early, Opening
<1>5. CASE Records(queue) = <<>>
  <2>1. Len(Records(queue)) = 0
    BY <1>5
  <2>2. GoesOn(p, records, seq)
    BY <2>1
  <2> QED BY <1>2, <1>3, <1>4, <1>5, <2>2 DEF Line
<1>6. CASE Records(queue) # <<>>
  <2>1. /\ Len(Records(queue)) > 0 /\ Len(Records(queue)) \in Nat
        /\ Records(queue)[1].seq = seq - Len(Records(queue))
        /\ Run(queue, Records(queue)[1].seq + Len(Records(queue)))
    BY <1>6, RunFromFirst
  <2>2. First(y) = seq - Len(Records(queue)) /\ First(y) = Records(queue)[1].seq
    BY <2>1 DEF First
  <2>3. NextSeq(y) = First(y) + Len(Records(y.batch))
    BY <1>3, <2>1, <2>2
  <2> QED BY <1>2, <1>4, <1>6, <2>1, <2>2, <2>3 DEF Line
<1> QED BY <1>5, <1>6

\* A leg with nothing waiting or in flight, that is not producing.
LEMMA IdleLine ==
  ASSUME NEW p, NEW records, NEW y, y.queue = <<>>, y.commit # "sent",
         y.pc \notin {"producing", "ending"}, y.pc \in Early => Mine(p, records) = {}
  PROVE  Line(p, records, y)
<1>1. Run(y.queue, y.seq)
  BY RecordsEmpty DEF Run
<1> QED BY <1>1 DEF Line

LEMMA MovesKeepLine ==
  ASSUME NEW p, NEW records, NEW x \in Legs, NEW y \in Legs, LegShape(x),
         Line(p, records, x), Moves(x, y) \/ Takes(x, y)
  PROVE  Line(p, records, y)
<1>s. x.batch \in Seq(Frames) /\ x.queue \in Seq(Frames) /\ x.seq \in Nat /\ x.pc \in PCs
  BY DEF Legs
<1>e. "producing" \notin Early /\ "ending" \notin Early /\ "halted" \notin Early
  BY DEF Early, Opening
<1>1. CASE Rests(x, y)
  <2>1. Records(y.queue) = Records(x.queue) /\ Records(y.batch) = Records(x.batch)
        /\ y.seq = x.seq /\ y.commit = x.commit /\ y.queue = x.queue /\ y.batch = x.batch
    BY <1>1 DEF Rests, SameBook, SameLine
  <2>2. NextSeq(y) = NextSeq(x) /\ First(y) = First(x)
    BY <2>1 DEF NextSeq, First
  <2>3. CASE y.pc = x.pc
    BY <2>1, <2>2, <2>3 DEF Line
  <2>4. CASE y.pc \in {"releasing", "returned"} /\ x.pc \in {"ending", "releasing"}
    BY <2>1, <2>2, <2>4 DEF Line, Early, Opening
  <2> QED BY <1>1, <2>3, <2>4 DEF Rests
<1>2. CASE Begins(x, y) \/ Takes(x, y)
  <2>1. x.pc \in Early /\ y.pc \in Early \cup {"producing"}
    BY <1>2 DEF Begins, Takes, Early, Opening
  <2>2. x.queue = <<>> /\ x.commit = "none"
    BY <2>1 DEF LegShape
  <2>3. Mine(p, records) = {}
    BY <2>1 DEF Line
  <2>4. y.queue = <<>> /\ y.commit = "none"
    BY <1>2, <2>2 DEF Begins, Takes, SameLine
  <2>5. Run(y.queue, y.seq)
    BY <2>4, RecordsEmpty DEF Run
  <2> QED BY <2>3, <2>4, <2>5 DEF Line, GoesOn
<1>3. CASE Refuses(x, y)
  <2>1. x.pc \in Early /\ y.pc \notin {"producing", "ending"} /\ y.pc \notin Early
    BY <1>3 DEF Refuses, Early, Opening
  <2>2. y.queue = <<>> /\ y.commit = "none"
    BY <1>3, <2>1 DEF Refuses, SameLine, LegShape
  <2> QED BY <2>1, <2>2, IdleLine
<1>4. CASE Flushes(x, y)
  <2>1. x.pc \in {"producing", "ending"}
    BY <1>4, <1>s DEF Flushes, Batched, LegShape, PCs, Ending
  <2>2. x.commit = "none" /\ Run(x.queue, x.seq) /\ GoesOn(p, records, NextSeq(x))
    BY <1>4, <2>1 DEF Flushes, Batched, Line
  <2>3. /\ y.queue = <<>> /\ y.batch = x.queue /\ y.seq = x.seq /\ y.pc = x.pc
        /\ y.commit = IF Records(x.queue) = <<>> THEN "committed" ELSE "sent"
    BY <1>4 DEF Flushes, Batched, SameBook
  <2> QED BY <1>s, <2>1, <2>2, <2>3, LineBatched DEF NextSeq
<1>5. CASE Makes(x, y)
  <2>1. PICK frame \in {Part(x.seq), Done(x.seq), Transient} :
          /\ x.pc = "producing"
          /\ y.pc = IF frame = Done(x.seq) THEN "ending" ELSE "producing"
          /\ y.seq = IF Journaled(frame) THEN x.seq + 1 ELSE x.seq
          /\ Joins(x, frame, y)
    BY <1>5 DEF Makes
  <2>f. frame \in Frames /\ (Journaled(frame) => frame.seq = x.seq)
    <3>1. Part(x.seq).seq = x.seq /\ Done(x.seq).seq = x.seq
      BY DEF Part, Done
    <3> QED BY <1>s, <2>1, <3>1, PartsAreFrames, ErrorIsNot
  <2> DEFINE all == Append(x.queue, frame)
  <2>a. all \in Seq(Frames)
    BY <1>s, <2>f
  <2>2. Run(x.queue, x.seq)
    BY DEF Line
  <2>3. /\ Run(all, y.seq) /\ y.seq \in Nat
        /\ Len(Records(all)) = IF Journaled(frame) THEN Len(Records(x.queue)) + 1 ELSE Len(Records(x.queue))
    BY <1>s, <2>1, <2>2, <2>f, RunOn
  <2>4. y.seq - Len(Records(all)) = NextSeq(x)
    <3>1. Len(Records(x.queue)) \in Nat
      BY <1>s, RecordsAre
    <3> QED BY <1>s, <2>1, <2>3, <3>1 DEF NextSeq
  <2>5. y.pc \in {"producing", "ending"}
    BY <2>1
  <2>6. x.commit \in {"none", "committed"} => GoesOn(p, records, NextSeq(x))
    BY <2>1 DEF Line
  <2> HIDE DEF all
  <2>7. CASE /\ ~Journaled(frame) /\ SameLine(x, y)
    <3>1. y.seq = x.seq /\ Records(y.queue) = Records(x.queue) /\ Records(y.batch) = Records(x.batch)
          /\ y.commit = x.commit /\ y.queue = x.queue /\ y.batch = x.batch
      BY <2>1, <2>7 DEF SameLine
    <3>2. NextSeq(y) = NextSeq(x) /\ First(y) = First(x)
      BY <3>1 DEF NextSeq, First
    <3>3. y.pc \notin Early
      BY <1>e, <2>5
    <3> QED BY <2>1, <2>5, <3>1, <3>2, <3>3 DEF Line
  <2>8. CASE y.queue = all /\ y.batch = x.batch /\ y.commit = x.commit
    <3>1. NextSeq(y) = NextSeq(x)
      BY <2>4, <2>8 DEF NextSeq
    <3>2. First(y) = First(x)
      BY <2>8 DEF First
    <3>3. y.pc \notin Early
      BY <1>e, <2>5
    <3> QED BY <2>1, <2>3, <2>5, <2>6, <2>8, <3>1, <3>2, <3>3 DEF Line
  <2>9. CASE /\ x.commit = "none" /\ y.queue = <<>> /\ y.batch = all
             /\ y.commit = IF Records(all) = <<>> THEN "committed" ELSE "sent"
    <3>1. GoesOn(p, records, y.seq - Len(Records(all)))
      BY <2>4, <2>6, <2>9
    <3> QED BY <2>a, <2>3, <2>5, <2>9, <3>1, LineBatched
  <2> QED BY <2>1, <2>7, <2>8, <2>9 DEF Joins, all
<1>6. CASE Stops(x, y)
  <2>1. Records(y.queue) = Records(x.queue) /\ Records(y.batch) = Records(x.batch)
        /\ y.seq = x.seq /\ y.commit = x.commit /\ y.queue = x.queue /\ y.batch = x.batch
        /\ x.pc = "producing" /\ y.pc = "ending"
    BY <1>6 DEF Stops, SameBook, SameLine
  <2>2. NextSeq(y) = NextSeq(x) /\ First(y) = First(x)
    BY <2>1 DEF NextSeq, First
  <2> QED BY <1>e, <2>1, <2>2 DEF Line
<1>8. CASE Publishes(x, y)
  <2>1. x.commit = "committed" /\ y.pc = x.pc /\ y.seq = x.seq
    BY <1>8 DEF Publishes, SameBook
  <2>2. x.pc \in {"producing", "ending"}
    BY <1>8, <2>1 DEF LegShape, Publishes
  <2>3. Run(x.queue, x.seq) /\ GoesOn(p, records, NextSeq(x))
    BY <2>1, <2>2 DEF Line
  <2>4. CASE Cleared(x, y)
    <3>1. y.queue = x.queue /\ y.commit = "none"
      BY <2>4 DEF Cleared
    <3>2. NextSeq(y) = NextSeq(x)
      BY <2>1, <3>1 DEF NextSeq
    <3> QED BY <1>e, <2>1, <2>2, <2>3, <3>1, <3>2 DEF Line
  <2>5. CASE Goes(x, y)
    BY <1>s, <2>1, <2>2, <2>3, <2>5, LineBatched DEF Goes, NextSeq
  <2> QED BY <1>8, <2>4, <2>5 DEF Publishes
<1>9. CASE Forgets(x, y)
  <2>1. y.queue = <<>> /\ y.commit = "none" /\ y.pc = "halted"
    BY <1>9 DEF Forgets, Cleared, LegShape
  <2> QED BY <1>e, <2>1, IdleLine
<1>10. CASE Fails(x, y)
  <2>1. y.queue = <<>> /\ y.pc = "halted"
    BY <1>10 DEF Fails
  <2>2. CASE y.commit # "sent"
    BY <1>e, <2>1, <2>2, IdleLine
  <2>3. CASE y.commit = "sent"
    <3>1. x.commit = "sent" /\ y.batch = x.batch
      BY <1>10, <2>3 DEF Fails
    <3>2. First(y) = First(x)
      BY <3>1 DEF First
    <3>3. Run(y.queue, y.seq)
      BY <2>1, RecordsEmpty DEF Run
    <3> QED BY <1>e, <2>1, <2>3, <3>1, <3>2, <3>3 DEF Line
  <2> QED BY <2>2, <2>3
<1>11. CASE Closes(x, y)
  <2>1. y.queue = <<>> /\ y.commit = "none" /\ y.pc = "closed"
    BY <1>11 DEF Closes, SameLine, LegShape
  <2> QED BY <2>1, IdleLine DEF Early, Opening
<1>12. CASE Leaves(x, y)
  <2>1. Records(y.queue) = Records(x.queue) /\ Records(y.batch) = Records(x.batch)
        /\ y.seq = x.seq /\ y.commit = x.commit /\ y.queue = x.queue /\ y.batch = x.batch
        /\ y.pc = x.pc
    BY <1>12 DEF Leaves, SameBook, SameLine
  <2>2. NextSeq(y) = NextSeq(x) /\ First(y) = First(x)
    BY <2>1 DEF NextSeq, First
  <2> QED BY <2>1, <2>2 DEF Line
<1>13. CASE Dies(x, y)
  <2>1. y.queue = <<>> /\ y.commit = "none" /\ y.pc = "dead"
    BY <1>13 DEF Dies
  <2> QED BY <2>1, IdleLine DEF Early, Opening
<1> QED BY <1>1, <1>2, <1>3, <1>4, <1>5, <1>6, <1>8, <1>9, <1>10, <1>11,
           <1>12, <1>13 DEF Moves

Stored == [by : Producers, kind : {"part", "done"}]

\* What a commit adds to the stored records.
LEMMA Added ==
  ASSUME NEW old \in Seq(Stored), NEW p \in Producers, NEW x \in Legs
  PROVE  LET new == old \o Landing(p, x)
             k == Len(Records(x.batch))
         IN /\ k \in Nat /\ DOMAIN new = 1..(Len(old) + k) /\ DOMAIN old = 1..Len(old)
            /\ Len(old) \in Nat
            /\ \A i \in DOMAIN old : new[i] = old[i]
            /\ \A j \in 1..k : new[Len(old) + j] = [by |-> p, kind |-> Records(x.batch)[j].kind]
<1> DEFINE land == Landing(p, x)
           new == old \o land
           r == Records(x.batch)
<1>1. land \in Seq(Stored) /\ Len(land) = Len(r) /\ Len(r) \in Nat
      /\ \A j \in 1..Len(r) : land[j] = [by |-> p, kind |-> r[j].kind]
  <2>1. r \in Seq(Frames)
    BY LandingIs
  <2>2. Len(r) \in Nat
    BY <2>1
  <2> QED BY <2>2, LandingIs DEF Stored
<1> HIDE DEF land, r
<1>2. /\ new \in Seq(Stored) /\ Len(new) = Len(old) + Len(land)
      /\ \A i \in 1..Len(old) : new[i] = old[i]
      /\ \A j \in 1..Len(land) : new[Len(old) + j] = land[j]
  <2>1. new \in Seq(Stored) /\ Len(new) = Len(old) + Len(land) /\ Len(old) \in Nat
    BY <1>1
  <2>2. ASSUME NEW i \in 1..Len(old) PROVE new[i] = old[i]
    BY <1>1, <2>1
  <2>3. ASSUME NEW j \in 1..Len(land) PROVE new[Len(old) + j] = land[j]
    <3>1. Len(old) + j \in 1..(Len(old) + Len(land)) /\ ~(Len(old) + j <= Len(old))
          /\ Len(old) + j - Len(old) = j
      BY <1>1, <2>1
    <3> QED BY <1>1, <2>1, <3>1
  <2> QED BY <2>1, <2>2, <2>3
<1> HIDE DEF new
<1>3. DOMAIN new = 1..(Len(old) + Len(r)) /\ DOMAIN old = 1..Len(old) /\ Len(old) \in Nat
  BY <1>1, <1>2
<1>4. \A j \in 1..Len(r) : new[Len(old) + j] = [by |-> p, kind |-> r[j].kind]
  BY <1>1, <1>2
<1> QED BY <1>1, <1>2, <1>3, <1>4 DEF new, land, r

LEMMA StoredStays ==
  ASSUME NEW old \in Seq(Stored), NEW p \in Producers, NEW x \in Legs, NEW q, NEW frames,
         AllStored(q, old, frames)
  PROVE  AllStored(q, old \o Landing(p, x), frames)
<1> DEFINE new == old \o Landing(p, x)
           k == Len(Records(x.batch))
<1>1. /\ k \in Nat /\ DOMAIN new = 1..(Len(old) + k) /\ DOMAIN old = 1..Len(old)
      /\ Len(old) \in Nat /\ \A i \in DOMAIN old : new[i] = old[i]
  BY Added
<1> HIDE DEF new, k
<1>2. \A i \in DOMAIN old : i \in DOMAIN new
  BY <1>1
<1>3. ASSUME NEW i \in DOMAIN frames PROVE IsStored(q, new, frames[i])
  <2>1. IsStored(q, old, frames[i])
    BY DEF AllStored
  <2> QED BY <1>1, <1>2, <2>1 DEF IsStored
<1> QED BY <1>3 DEF AllStored, new

LEMMA MineGrows ==
  ASSUME NEW old \in Seq(Stored), NEW p \in Producers, NEW x \in Legs, NEW q
  PROVE  Mine(q, old \o Landing(p, x)) =
           IF q = p THEN Mine(q, old) \cup (Len(old) + 1)..(Len(old) + Len(Records(x.batch)))
           ELSE Mine(q, old)
<1> DEFINE new == old \o Landing(p, x)
           k == Len(Records(x.batch))
<1>1. /\ k \in Nat /\ DOMAIN new = 1..(Len(old) + k) /\ DOMAIN old = 1..Len(old)
      /\ Len(old) \in Nat /\ \A i \in DOMAIN old : new[i] = old[i]
      /\ \A j \in 1..k : new[Len(old) + j] = [by |-> p, kind |-> Records(x.batch)[j].kind]
  BY Added
<1> HIDE DEF new, k
<1>2. \A i \in (Len(old) + 1)..(Len(old) + k) : new[i].by = p
  <2> TAKE i \in (Len(old) + 1)..(Len(old) + k)
  <2> DEFINE m == i - Len(old)
  <2>1. m \in 1..k /\ Len(old) + m = i
    BY <1>1
  <2> HIDE DEF m
  <2>2. new[Len(old) + m].by = p
    <3>1. new[Len(old) + m] = [by |-> p, kind |-> Records(x.batch)[m].kind]
      BY <1>1, <2>1
    <3> QED BY <3>1
  <2> QED BY <2>1, <2>2
<1>3. \A i \in 1..Len(old) : new[i].by = old[i].by
  BY <1>1
<1>4. \A i : i \in DOMAIN new <=> i \in 1..Len(old) \/ i \in (Len(old) + 1)..(Len(old) + k)
  BY <1>1
<1>5. Mine(q, new) = IF q = p THEN Mine(q, old) \cup (Len(old) + 1)..(Len(old) + k) ELSE Mine(q, old)
  BY <1>1, <1>2, <1>3, <1>4 DEF Mine
<1> QED BY <1>5 DEF new, k

\* A batch that lands is stored under the event ids its frames have.
LEMMA BatchLands ==
  ASSUME NEW old \in Seq(Stored), NEW p \in Producers, NEW x \in Legs,
         Line(p, old, x), x.commit = "sent", First(x) = Len(old)
  PROVE  AllStored(p, old \o Landing(p, x), x.batch)
<1> DEFINE new == old \o Landing(p, x)
           r == Records(x.batch)
<1>1. /\ Len(r) \in Nat /\ DOMAIN new = 1..(Len(old) + Len(r)) /\ Len(old) \in Nat
      /\ \A j \in 1..Len(r) : new[Len(old) + j] = [by |-> p, kind |-> r[j].kind]
  BY Added
<1>2. Run(x.batch, First(x) + Len(r))
  BY DEF Line
<1>3. \A j \in 1..Len(r) : r[j].seq = First(x) + Len(r) - Len(r) + j - 1
  BY <1>2 DEF Run
<1>4. x.batch \in Seq(Frames)
  BY DEF Legs
<1>5. \A i \in DOMAIN x.batch : Journaled(x.batch[i]) => \E j \in 1..Len(r) : r[j] = x.batch[i]
  BY <1>4, RecordsAre
<1> HIDE DEF r, new
<1>6. \A j \in 1..Len(r) : r[j].seq + 1 = Len(old) + j /\ Len(old) + j \in DOMAIN new
  BY <1>1, <1>3
<1>7. ASSUME NEW i \in DOMAIN x.batch, Journaled(x.batch[i])
      PROVE  IsStored(p, new, x.batch[i])
  <2>1. PICK j \in 1..Len(r) : r[j] = x.batch[i]
    BY <1>5, <1>7
  <2>2. x.batch[i].seq + 1 = Len(old) + j /\ Len(old) + j \in DOMAIN new
    BY <1>6, <2>1
  <2>3. new[Len(old) + j] = [by |-> p, kind |-> x.batch[i].kind]
    BY <1>1, <2>1
  <2> QED BY <2>2, <2>3 DEF IsStored
<1> QED BY <1>7 DEF AllStored, IsStored, new

\* A producer's records have no gap.
Whole(p, records) == \A i, j \in Mine(p, records) : i..j \subseteq Mine(p, records)

LEMMA LandsKeepLine ==
  ASSUME NEW old \in Seq(Stored), NEW p \in Producers, NEW x \in Legs, NEW y \in Legs,
         LegShape(x), Out(p, old, x), Line(p, old, x), Whole(p, old), Lands(x, y),
         First(x) = Len(old), y.commit \in {"committed", "failed"}
  PROVE  LET new == old \o Landing(p, x)
         IN Out(p, new, y) /\ Line(p, new, y) /\ Whole(p, new)
<1> DEFINE new == old \o Landing(p, x)
           k == Len(Records(x.batch))
           n == Len(old)
<1>1. Mine(p, new) = Mine(p, old) \cup (n + 1)..(n + k)
  BY MineGrows
<1>2. AllStored(p, new, x.wire) /\ AllStored(p, new, x.tail)
  BY StoredStays DEF Out
<1>3. AllStored(p, new, x.batch)
  BY BatchLands DEF Lands
<1>4. n \in Nat /\ k \in Nat /\ Mine(p, old) \subseteq 1..n
  BY Added DEF Mine
<1>5. k > 0
  <2>1. Records(x.batch) # <<>> /\ Records(x.batch) \in Seq(Frames)
    BY RecordsAre DEF Line, Lands, Legs
  <2> QED BY <2>1
<1>6. Mine(p, old) = {} \/ n \in Mine(p, old)
  BY DEF Line, Lands, GoesOn
<1>7. x.pc \in {"producing", "ending"} => NextSeq(x) = n + k
  BY DEF Line, Lands
<1> HIDE DEF new, k, n
<1>8. Out(p, new, y)
  BY <1>2, <1>3 DEF Lands, SameOut, Out
<1>9. Line(p, new, y)
  <2>1. Run(y.queue, y.seq) /\ NextSeq(y) = NextSeq(x) /\ y.pc = x.pc
    BY DEF Line, Lands, SameBook, NextSeq
  <2>2. y.pc \in {"producing", "ending"} => GoesOn(p, new, NextSeq(y))
    <3>1. n + k \in Mine(p, new)
      BY <1>1, <1>4, <1>5
    <3> QED BY <1>7, <2>1, <3>1 DEF GoesOn
  <2>3. y.pc \notin Early
    BY <2>1 DEF Lands, LegShape, Early, Opening
  <2> QED BY <2>1, <2>2, <2>3 DEF Line
<1>10. Whole(p, new)
  <2> SUFFICES ASSUME NEW i \in Mine(p, new), NEW j \in Mine(p, new), NEW m \in i..j
               PROVE  m \in Mine(p, new)
    BY DEF Whole
  <2>1. i \in 1..(n + k) /\ j \in 1..(n + k) /\ m \in Int
    BY <1>1, <1>4
  <2>2. CASE m > n
    BY <1>1, <1>4, <2>1, <2>2
  <2>3. CASE m <= n
    <3>1. i \in Mine(p, old)
      BY <1>1, <1>4, <2>1, <2>3
    <3>2. n \in Mine(p, old)
      BY <1>6, <3>1
    <3>3. m \in i..n
      BY <1>4, <2>1, <2>3
    <3> QED BY <1>1, <3>1, <3>2, <3>3 DEF Whole
  <2> QED BY <1>4, <2>1, <2>2, <2>3
<1> QED BY <1>8, <1>9, <1>10 DEF new

\* The legs of the others, and their records, are as they were.
LEMMA OthersKeep ==
  ASSUME NEW old \in Seq(Stored), NEW p \in Producers, NEW x \in Legs,
         NEW q \in Producers, q # p, NEW z,
         Out(q, old, z), Line(q, old, z), Whole(q, old)
  PROVE  LET new == old \o Landing(p, x)
         IN Out(q, new, z) /\ Line(q, new, z) /\ Whole(q, new)
<1> DEFINE new == old \o Landing(p, x)
<1>1. Mine(q, new) = Mine(q, old)
  BY MineGrows
<1>2. AllStored(q, new, z.wire) /\ AllStored(q, new, z.tail)
      /\ (z.commit = "committed" => AllStored(q, new, z.batch))
  BY StoredStays DEF Out
<1> HIDE DEF new
<1>3. Out(q, new, z) /\ Line(q, new, z) /\ Whole(q, new)
  BY <1>1, <1>2 DEF Out, Line, Whole, GoesOn
<1> QED BY <1>3 DEF new

LedgerInv ==
  \A p \in Producers :
    Out(p, stream.records, leg[p]) /\ Line(p, stream.records, leg[p]) /\ Whole(p, stream.records)

LEMMA LedgerInit == JournalInit => LedgerInv
<1> SUFFICES ASSUME JournalInit, NEW p \in Producers
             PROVE Out(p, stream.records, leg[p]) /\ Line(p, stream.records, leg[p])
                   /\ Whole(p, stream.records)
  BY DEF LedgerInv
<1>1. stream.records = <<>> /\ leg[p] = NoLeg
  BY DEF JournalInit
<1>2. Mine(p, stream.records) = {}
  BY <1>1 DEF Mine
<1>3. NoLeg.queue = <<>> /\ NoLeg.wire = <<>> /\ NoLeg.tail = <<>> /\ NoLeg.commit = "none"
      /\ NoLeg.pc = "idle"
  BY DEF NoLeg
<1>4. Line(p, stream.records, leg[p])
  BY <1>1, <1>2, <1>3, IdleLine
<1>5. Out(p, stream.records, leg[p])
  BY <1>1, <1>3 DEF Out, AllStored
<1> QED BY <1>2, <1>4, <1>5 DEF Whole

LEMMA LegsThen ==
  ASSUME JournalShape, NEW p \in Producers, NEW y, leg' = [leg EXCEPT ![p] = y]
  PROVE  \A q \in Producers : leg'[q] = IF q = p THEN y ELSE leg[q]
BY DEF JournalShape, JournalTypeOK

LEMMA LedgerStep ==
  JournalShape /\ LedgerInv /\ [JournalNext]_journalVars => LedgerInv'
<1> SUFFICES ASSUME JournalShape, LedgerInv, [JournalNext]_journalVars PROVE LedgerInv'
  OBVIOUS
<1> DEFINE old == stream.records
<1>0. old \in Seq(Stored)
  BY DEF JournalShape, JournalTypeOK, Streams, Stored
<1>1. ASSUME NEW p \in Producers, NEW y \in Legs, leg' = [leg EXCEPT ![p] = y],
             Moves(leg[p], y) \/ Takes(leg[p], y), stream'.records = stream.records
      PROVE  LedgerInv'
  <2>1. leg[p] \in Legs /\ LegShape(leg[p])
    BY LegIs
  <2>2. Out(p, old, y) /\ Line(p, old, y)
    BY <1>1, <2>1, MovesKeepOut, MovesKeepLine DEF LedgerInv
  <2>3. \A q \in Producers : leg'[q] = IF q = p THEN y ELSE leg[q]
    BY <1>1, LegsThen
  <2> QED BY <1>1, <2>2, <2>3 DEF LedgerInv
<1>2. ASSUME NEW p \in Producers, LegLands(p) PROVE LedgerInv'
  <2>1. leg[p] \in Legs /\ LegShape(leg[p])
    BY LegIs
  <2>2. PICK y \in Legs :
          /\ leg' = [leg EXCEPT ![p] = y] /\ Lands(leg[p], y)
          /\ \/ Stores(p, leg[p]) /\ y.commit \in {"committed", "failed"}
             \/ stream' = stream /\ y.commit # "committed"
    BY <1>2 DEF LegLands
  <2>3. \A q \in Producers : leg'[q] = IF q = p THEN y ELSE leg[q]
    BY <2>2, LegsThen
  <2>4. CASE Stores(p, leg[p]) /\ y.commit \in {"committed", "failed"}
    <3> DEFINE x == leg[p]
               new == old \o Landing(p, x)
    <3>1. stream'.records = new /\ First(x) = Len(old)
      BY <2>4 DEF Stores, First
    <3>2. Out(p, new, y) /\ Line(p, new, y) /\ Whole(p, new)
      BY <1>0, <2>1, <2>2, <2>4, <3>1, LandsKeepLine DEF LedgerInv
    <3>3. \A q \in Producers : q # p =>
             Out(q, new, leg[q]) /\ Line(q, new, leg[q]) /\ Whole(q, new)
      BY <1>0, <2>1, OthersKeep DEF LedgerInv
    <3> HIDE DEF new
    <3> QED BY <2>3, <3>1, <3>2, <3>3 DEF LedgerInv
  <2>5. CASE stream' = stream /\ y.commit # "committed"
    <3> DEFINE x == leg[p]
    <3>1. Out(p, old, x) /\ Line(p, old, x)
      BY DEF LedgerInv
    <3>2. Out(p, old, y)
      BY <2>2, <2>5, <3>1 DEF Out, Lands, SameOut
    <3>3. Line(p, old, y)
      <4>1. y.queue = x.queue /\ y.seq = x.seq /\ y.pc = x.pc /\ y.commit \in Answers \ {"committed"}
            /\ x.commit = "sent"
        BY <2>2, <2>5 DEF Lands, SameBook
      <4>2. y.pc \notin Early
        BY <2>1, <4>1 DEF LegShape, Early, Opening
      <4> QED BY <3>1, <4>1, <4>2 DEF Line, Answers
    <3> QED BY <2>3, <2>5, <3>2, <3>3 DEF LedgerInv
  <2> QED BY <2>2, <2>4, <2>5
<1>3. ASSUME NEW p \in Producers, Take(p) PROVE LedgerInv'
  <2>1. LegMoves(p) \/ LegTakes(p)
    BY <1>3, OpeningMoves
  <2>2. PICK y \in Legs : leg' = [leg EXCEPT ![p] = y] /\ (Moves(leg[p], y) \/ Takes(leg[p], y))
    BY <2>1 DEF LegMoves, LegTakes
  <2>3. stream' = stream
    BY <1>3 DEF Take
  <2> QED BY <1>1, <2>2, <2>3
<1>4. ASSUME NEW p \in Producers, Works(p) PROVE LedgerInv'
  <2>1. CASE LegMoves(p) /\ StreamOpens
    <3>1. PICK y \in Legs : leg' = [leg EXCEPT ![p] = y] /\ Moves(leg[p], y)
      BY <2>1 DEF LegMoves
    <3> QED BY <1>1, <2>1, <3>1 DEF StreamOpens
  <2> QED BY <1>2, <1>4, <2>1, WorksMove
<1>5. ASSUME UNCHANGED <<leg, stream>> PROVE LedgerInv'
  BY <1>5 DEF LedgerInv
<1> QED BY <1>3, <1>4, <1>5, StepsAre, WorldKeepsShape

\* What a leg queued, sent and published are seqs in a row that follow the
\* records it stored: a commit that lands extends them by one batch
\* (internal/durable-journal.ts:207-273, stream-durable.ts:86-100).
THEOREM Ledgers == JournalSpec => [](JournalShape /\ LedgerInv)
<1>1. JournalShape /\ LedgerInv /\ [JournalNext]_journalVars => (JournalShape /\ LedgerInv)'
  BY ShapeStep, LedgerStep
<1> QED BY <1>1, ShapeInit, LedgerInit, PTL DEF JournalSpec

LEMMA LedgerPersists == LedgerInv => PersistBeforePublish
<1> SUFFICES ASSUME LedgerInv, NEW p \in Producers, NEW i \in DOMAIN leg[p].wire,
                    Journaled(leg[p].wire[i])
             PROVE  LET frame == leg[p].wire[i]
                    IN /\ frame.seq + 1 \in StoredBy(p)
                       /\ stream.records[frame.seq + 1].kind = frame.kind
  BY DEF PersistBeforePublish
<1> DEFINE frame == leg[p].wire[i]
<1>1. IsStored(p, stream.records, frame)
  BY DEF LedgerInv, Out, AllStored
<1> HIDE DEF frame
<1>2. Journaled(frame)
  BY DEF frame
<1>3. frame.seq + 1 \in DOMAIN stream.records
      /\ stream.records[frame.seq + 1] = [by |-> p, kind |-> frame.kind]
  BY <1>1, <1>2 DEF IsStored
<1>4. stream.records[frame.seq + 1].by = p /\ stream.records[frame.seq + 1].kind = frame.kind
  BY <1>3
<1> QED BY <1>3, <1>4 DEF StoredBy, frame

\* Nothing is on a client's wire under an event id that the store lacks
\* (internal/durable-journal.ts:16-17).
THEOREM Persists == JournalSpec => []PersistBeforePublish
BY Ledgers, LedgerPersists, PTL

\* Whoever took over, shared a fence or died, the records of a leg are in one
\* piece: the compare of the first seq keeps every other leg out of the middle
\* (stream-durable.ts:86-92).
THEOREM DoNotInterleave == JournalSpec => []LegsDoNotInterleave
<1>1. LedgerInv => LegsDoNotInterleave
  BY DEF LedgerInv, Whole, Mine, LegsDoNotInterleave, StoredBy
<1> QED BY <1>1, Ledgers, PTL

-----------------------------------------------------------------------------
(* What a client reads. *)

Leads(w, made) == \E rest \in Seq(Frames) : made = w \o rest

Over == {"halted", "closed", "dead"}

Rest(x) == x.tail \o (x.batch \o x.queue)

Order(x) ==
  /\ \A i \in DOMAIN x.made : x.made[i] # Error
  /\ x.pc \notin Over /\ ~x.gone => x.made = x.wire \o Rest(x)
  /\ \/ Leads(x.wire, x.made)
     \/ x.pc \in Over /\ \E w \in Seq(Frames) : Leads(w, x.made) /\ x.wire = w \o <<Error>>

LEMMA EmptyEnds ==
  ASSUME NEW s \in Seq(Frames)
  PROVE  s \o <<>> = s /\ <<>> \o s = s /\ <<>> \in Seq(Frames)
OBVIOUS

LEMMA LeadsMore ==
  ASSUME NEW w \in Seq(Frames), NEW made \in Seq(Frames), NEW frame \in Frames, Leads(w, made)
  PROVE  Leads(w, Append(made, frame))
<1>1. PICK rest \in Seq(Frames) : made = w \o rest
  BY DEF Leads
<1> DEFINE one == <<frame>>
<1>2. one \in Seq(Frames) /\ Append(made, frame) = made \o one
  OBVIOUS
<1> HIDE DEF one
<1>3. made \o one = w \o (rest \o one)
  BY <1>1, <1>2, Assoc
<1>4. rest \o one \in Seq(Frames)
  BY <1>2
<1> QED BY <1>2, <1>3, <1>4 DEF Leads

LEMMA MadeIs ==
  ASSUME NEW made \in Seq(Frames), NEW frame \in Frames, frame # Error,
         \A i \in DOMAIN made : made[i] # Error
  PROVE  \A i \in DOMAIN Append(made, frame) : Append(made, frame)[i] # Error
OBVIOUS

LEMMA MovesKeepOrder ==
  ASSUME NEW x \in Legs, NEW y \in Legs, LegShape(x), Order(x),
         Moves(x, y) \/ Takes(x, y) \/ Lands(x, y)
  PROVE  Order(y)
<1>s. /\ x.wire \in Seq(Frames) /\ x.tail \in Seq(Frames) /\ x.batch \in Seq(Frames)
      /\ x.queue \in Seq(Frames) /\ x.made \in Seq(Frames) /\ x.seq \in Nat
  BY DEF Legs
<1>w. x.wire \in Seq(Frames)
  BY DEF Legs
<1>t. x.tail \in Seq(Frames)
  BY DEF Legs
<1>e. <<Error>> \in Seq(Frames)
  BY ErrorIsNot
<1>r. /\ Rest(x) \in Seq(Frames) /\ x.batch \o x.queue \in Seq(Frames)
  BY <1>s DEF Rest
<1> DEFINE bq == x.batch \o x.queue
           all == Rest(x)
<1>b. all = x.tail \o bq
  BY DEF Rest
<1>c. bq \in Seq(Frames)
  BY <1>r
<1>d. all \in Seq(Frames)
  BY <1>r
<1> HIDE DEF bq, all
<1>l. x.pc \notin Over => Leads(x.wire, x.made)
  BY DEF Order
\* What is made and read stays.
<1>0. ASSUME y.made = x.made, y.wire = x.wire,
             x.pc \in Over => y.pc \in Over,
             y.pc \notin Over /\ ~y.gone => ~x.gone /\ Rest(y) = Rest(x)
      PROVE  Order(y)
  <2>1. y.pc \notin Over => x.pc \notin Over
    BY <1>0
  <2> QED BY <1>0, <2>1 DEF Order
<1>1. CASE Rests(x, y)
  <2>1. Rest(y) = Rest(x)
    BY <1>1 DEF Rests, SameLine, SameOut, Rest
  <2> QED BY <1>0, <1>1, <2>1 DEF Rests, SameBook, SameOut, Over
<1>2. CASE Begins(x, y) \/ Takes(x, y)
  <2>1. Rest(y) = Rest(x)
    BY <1>2 DEF Begins, Takes, SameLine, SameOut, Rest
  <2>2. x.pc \notin Over
    BY <1>2 DEF Begins, Takes, Opening, Over
  <2> QED BY <1>0, <1>2, <2>1, <2>2 DEF Begins, Takes, SameOut
<1>3. CASE Refuses(x, y)
  <2>1. x.pc \in Early
    BY <1>3 DEF Refuses, Early
  <2>2. x.wire = <<>> /\ x.made = <<>> /\ ~x.gone
    BY <2>1 DEF LegShape
  <2> DEFINE last == <<Error>>
  <2>3. y.made = <<>> /\ y.wire = x.wire \o last /\ y.pc = "closed"
    BY <1>3, <2>2 DEF Refuses, SameBook
  <2>4. Leads(x.wire, y.made)
    <3>1. <<>> = <<>> \o <<>> /\ <<>> \in Seq(Frames)
      OBVIOUS
    <3> QED BY <2>2, <2>3, <3>1 DEF Leads
  <2>5. y.pc \in Over
    BY <2>3 DEF Over
  <2> HIDE DEF last
  <2>6. \A i \in DOMAIN y.made : y.made[i] # Error
    BY <2>3
  <2> QED BY <1>s, <2>3, <2>4, <2>5, <2>6 DEF Order, last
<1>4. CASE Flushes(x, y)
  <2>1. x.batch = <<>> /\ y.tail = x.tail /\ y.batch = x.queue /\ y.queue = <<>>
    BY <1>4 DEF Flushes, Batched, SameOut, LegShape
  <2>2. x.batch \o x.queue = y.batch \o y.queue
    BY <1>s, <2>1, EmptyEnds
  <2>3. Rest(y) = Rest(x)
    BY <2>1, <2>2 DEF Rest
  <2> QED BY <1>0, <1>4, <2>3 DEF Flushes, SameBook, SameOut
<1>5. CASE Makes(x, y)
  <2>1. PICK frame \in {Part(x.seq), Done(x.seq), Transient} :
          /\ x.pc = "producing"
          /\ y.pc = IF frame = Done(x.seq) THEN "ending" ELSE "producing"
          /\ y.made = Append(x.made, frame)
          /\ Joins(x, frame, y)
    BY <1>5 DEF Makes
  <2>f. frame \in Frames /\ frame # Error
    BY <1>s, <2>1, PartsAreFrames, KindsDiffer
  <2>p. x.pc \notin Over /\ y.pc \notin Over /\ x.tail = <<>>
    BY <2>1 DEF Over, LegShape
  <2>2. \A i \in DOMAIN y.made : y.made[i] # Error
    <3>1. \A i \in DOMAIN x.made : x.made[i] # Error
      BY DEF Order
    <3> QED BY <1>s, <2>1, <2>f, <3>1, MadeIs
  <2>3. Leads(x.wire, y.made)
    BY <1>s, <1>l, <2>1, <2>f, <2>p, LeadsMore
  <2> DEFINE one == <<frame>>
  <2>4. one \in Seq(Frames) /\ y.made = x.made \o one
    BY SMTT(20), <1>s, <2>1, <2>f
  <2>o. one \in Seq(Frames)
    BY <2>f
  <2>5. Append(x.queue, frame) = x.queue \o one
    BY <1>s, <2>f
  <2>6. CASE /\ ~Journaled(frame) /\ x.queue = <<>> /\ x.commit = "none"
             /\ SameLine(x, y) /\ y.tail = x.tail /\ y.gone = x.gone
             /\ y.wire = IF x.gone THEN x.wire ELSE x.wire \o <<frame>>
    <3>1. /\ y.wire = (IF x.gone THEN x.wire ELSE x.wire \o one)
          /\ y.queue = <<>> /\ y.batch = <<>> /\ y.tail = <<>> /\ x.batch = <<>> /\ y.gone = x.gone
      BY <2>6, <2>p DEF SameLine, LegShape
    <3>2. Rest(y) = <<>> /\ Rest(x) = <<>>
      BY <2>6, <2>p, <3>1 DEF Rest
    <3> HIDE DEF one
    <3>3. CASE x.gone
      BY <2>2, <2>3, <3>1, <3>3 DEF Order
    <3>4. CASE ~x.gone
      <4>1. x.made = x.wire
        BY <1>s, <2>p, <3>2, <3>4, EmptyEnds DEF Order
      <4>2. y.made = y.wire
        BY <2>4, <3>1, <3>4, <4>1
      <4>3. y.made = y.wire \o Rest(y) /\ y.wire \in Seq(Frames)
        BY <3>2, <4>2, EmptyEnds DEF Legs
      <4>4. Leads(y.wire, y.made)
        BY <3>2, <4>3, EmptyEnds DEF Leads
      <4> QED BY <2>2, <4>3, <4>4 DEF Order
    <3> QED BY <3>3, <3>4
  <2>7. ASSUME SameOut(x, y), Rest(y) = Rest(x) \o one PROVE Order(y)
    <3> HIDE DEF one
    <3>1. ~x.gone => x.made = x.wire \o Rest(x)
      BY <2>p DEF Order
    <3>2. ~x.gone => y.made = x.wire \o (Rest(x) \o one)
      <4>1. (x.wire \o all) \o one = x.wire \o (all \o one)
        BY <1>w, <1>d, <2>o, Assoc
      <4> QED BY <2>4, <3>1, <4>1 DEF all
    <3> QED BY <2>2, <2>3, <2>7, <3>2 DEF Order, SameOut
  <2>8. CASE /\ SameOut(x, y) /\ y.queue = Append(x.queue, frame)
             /\ y.batch = x.batch /\ y.commit = x.commit
    <3>1. y.queue = x.queue \o one /\ y.tail = x.tail
      BY <2>5, <2>8 DEF SameOut
    <3> HIDE DEF one
    <3>2. x.batch \o (x.queue \o one) = (x.batch \o x.queue) \o one
      BY ZenonT(30), <1>s, <2>4, Assoc
    <3>3. x.tail \o ((x.batch \o x.queue) \o one) = (x.tail \o (x.batch \o x.queue)) \o one
      <4>1. x.tail \o (bq \o one) = (x.tail \o bq) \o one
        BY <1>t, <1>c, <2>o, Assoc
      <4> QED BY <4>1 DEF bq
    <3>4. Rest(y) = Rest(x) \o one
      BY <2>8, <3>1, <3>2, <3>3 DEF Rest
    <3> QED BY <2>7, <2>8, <3>4
  <2>9. CASE /\ SameOut(x, y) /\ x.commit = "none" /\ y.queue = <<>>
             /\ y.batch = Append(x.queue, frame)
    <3>1. y.batch = x.queue \o one /\ y.tail = x.tail /\ x.batch = <<>> /\ y.queue = <<>>
      BY <2>5, <2>9 DEF SameOut, LegShape
    <3> HIDE DEF one
    <3>2. x.queue \o one \in Seq(Frames)
      BY <1>s, <2>4
    <3>3. y.batch \o y.queue = x.queue \o one
      BY <3>1, <3>2, EmptyEnds
    <3>4. x.batch \o x.queue = x.queue
      BY <1>s, <3>1, EmptyEnds
    <3>5. x.tail \o (x.queue \o one) = (x.tail \o x.queue) \o one
      BY ZenonT(30), <1>s, <2>4, Assoc
    <3>6. Rest(y) = Rest(x) \o one
      BY <3>1, <3>3, <3>4, <3>5 DEF Rest
    <3> QED BY <2>7, <2>9, <3>6
  <2> QED BY <2>1, <2>6, <2>8, <2>9 DEF Joins
<1>6. CASE Stops(x, y)
  <2>1. Rest(y) = Rest(x)
    BY <1>6 DEF Stops, SameLine, SameOut, Rest
  <2> QED BY <1>0, <1>6, <2>1 DEF Stops, SameBook, SameOut, Over
<1>7. CASE Lands(x, y)
  <2>1. Rest(y) = Rest(x)
    BY <1>7 DEF Lands, SameOut, Rest
  <2> QED BY <1>0, <1>7, <2>1 DEF Lands, SameBook, SameOut
<1>8. CASE Publishes(x, y)
  <2>1. x.pc \in {"producing", "ending"}
    BY <1>8 DEF Publishes, LegShape
  <2>2. x.pc \notin Over /\ y.pc = x.pc /\ y.made = x.made /\ y.gone = x.gone
    BY <1>8, <2>1 DEF Publishes, SameBook, Over
  <2>3. y.batch \o y.queue = x.queue
    <3>1. CASE Cleared(x, y)
      BY <1>s, <3>1, EmptyEnds DEF Cleared
    <3>2. CASE Goes(x, y)
      BY <1>s, <3>2, EmptyEnds DEF Goes
    <3> QED BY <1>8, <3>1, <3>2 DEF Publishes
  <2>4. CASE x.pc \in Ending
    <3>1. y.tail = x.tail \o x.batch /\ y.wire = x.wire
      BY <1>8, <2>4 DEF Publishes
    <3>2. (x.tail \o x.batch) \o x.queue = x.tail \o (x.batch \o x.queue)
      BY ZenonT(30), <1>s, Assoc
    <3>3. Rest(y) = Rest(x)
      BY <2>3, <3>1, <3>2 DEF Rest
    <3> QED BY <1>0, <2>2, <3>1, <3>3
  <2>5. CASE x.pc \notin Ending
    <3>1. /\ y.tail = x.tail /\ y.wire = IF x.gone THEN x.wire ELSE x.wire \o x.batch
      BY <1>8, <2>5 DEF Publishes
    <3>2. x.tail = <<>>
      BY <2>1, <2>5 DEF LegShape, Ending
    <3>3. Rest(x) = x.batch \o x.queue /\ Rest(y) = x.queue
      BY <1>s, <1>r, <2>3, <3>1, <3>2, EmptyEnds DEF Rest
    <3>4. CASE x.gone
      BY <1>l, <2>2, <3>1, <3>4 DEF Order
    <3>5. CASE ~x.gone
      <4>1. x.made = x.wire \o (x.batch \o x.queue)
        BY <2>2, <3>3, <3>5 DEF Order
      <4>2. y.made = y.wire \o x.queue
        <5>1. (x.wire \o x.batch) \o x.queue = x.wire \o (x.batch \o x.queue)
          BY ZenonT(30), <1>s, Assoc
        <5> QED BY <2>2, <3>1, <3>5, <4>1, <5>1
      <4>3. Leads(y.wire, y.made)
        BY <1>s, <4>2 DEF Leads
      <4> QED BY <2>2, <3>3, <4>2, <4>3 DEF Order
    <3> QED BY <3>4, <3>5
  <2> QED BY <2>4, <2>5
<1>9. CASE Forgets(x, y)
  <2>1. y.pc \in Over
    BY <1>9 DEF Forgets, Over
  <2> QED BY <1>0, <1>9, <2>1 DEF Forgets, SameBook, SameOut
<1>10. CASE Fails(x, y)
  <2>1. y.pc \in Over /\ y.made = x.made
    BY <1>10 DEF Fails, SameBook, Over
  <2>2. CASE x.gone
    <3>1. y.wire = x.wire
      BY <1>10, <2>2 DEF Fails
    <3> QED BY <1>0, <2>1, <3>1
  <2>3. CASE ~x.gone
    <3> DEFINE last == <<Error>>
               w == x.wire \o x.tail
    <3>1. x.pc \notin Over
      BY <1>10, <2>3 DEF Fails, LegShape, Over
    <3>2. y.wire = w \o last
      BY <1>10, <2>3 DEF Fails
    <3>3. x.made = x.wire \o Rest(x)
      BY <2>3, <3>1 DEF Order
    <3>4. x.made = w \o (x.batch \o x.queue)
      <4>1. (x.wire \o x.tail) \o bq = x.wire \o (x.tail \o bq)
        BY <1>w, <1>t, <1>c, Assoc
      <4> QED BY <3>3, <1>b, <4>1 DEF bq, all
    <3>5. w \in Seq(Frames)
      BY <1>s
    <3> HIDE DEF w, last
    <3>6. Leads(w, y.made)
      BY <1>r, <2>1, <3>4 DEF Leads
    <3>7. \E v \in Seq(Frames) : Leads(v, y.made) /\ y.wire = v \o last
      BY <3>2, <3>5, <3>6
    <3>8. \A i \in DOMAIN y.made : y.made[i] # Error
      BY <2>1 DEF Order
    <3> QED BY <2>1, <3>7, <3>8 DEF Order, last
  <2> QED BY <2>2, <2>3
<1>11. CASE Closes(x, y)
  <2>1. y.pc \in Over /\ y.made = x.made /\ x.pc \notin Over
    BY <1>11 DEF Closes, SameBook, Over
  <2>2. CASE x.gone
    <3>1. y.wire = x.wire
      BY <1>11, <2>2 DEF Closes
    <3> QED BY <1>0, <2>1, <3>1
  <2>3. CASE ~x.gone
    <3>1. y.wire = x.wire \o x.tail /\ y.wire \in Seq(Frames)
      BY <1>11, <2>3 DEF Closes, Legs
    <3>2. x.made = x.wire \o (x.tail \o (x.batch \o x.queue))
      BY <2>1, <2>3 DEF Order, Rest
    <3>3. x.made = y.wire \o (x.batch \o x.queue)
      <4>1. (x.wire \o x.tail) \o bq = x.wire \o (x.tail \o bq)
        BY <1>w, <1>t, <1>c, Assoc
      <4> QED BY <3>1, <3>2, <4>1 DEF bq
    <3>4. Leads(y.wire, y.made)
      BY <1>r, <2>1, <3>3 DEF Leads
    <3> QED BY <2>1, <3>4 DEF Order
  <2> QED BY <2>2, <2>3
<1>12. CASE Leaves(x, y)
  <2>1. x.pc \notin Over
    BY <1>12 DEF Leaves, Ending, LegShape, Over
  <2> QED BY <1>0, <1>12, <2>1 DEF Leaves, SameBook
<1>13. CASE Dies(x, y)
  <2>1. y.pc \in Over
    BY <1>13 DEF Dies, Over
  <2> QED BY <1>0, <1>13, <2>1 DEF Dies
<1> QED BY <1>1, <1>2, <1>3, <1>4, <1>5, <1>6, <1>7, <1>8, <1>9, <1>10, <1>11,
           <1>12, <1>13 DEF Moves

OrderInv == \A p \in Producers : Order(leg[p])

LEMMA OrderInit == JournalInit => OrderInv
<1> SUFFICES ASSUME JournalInit, NEW p \in Producers PROVE Order(leg[p])
  BY DEF OrderInv
<1>1. leg[p] = NoLeg
  BY DEF JournalInit
<1>2. /\ NoLeg.made = <<>> /\ NoLeg.wire = <<>> /\ NoLeg.tail = <<>> /\ NoLeg.batch = <<>>
      /\ NoLeg.queue = <<>>
  BY DEF NoLeg
<1>3. Rest(NoLeg) = <<>>
  BY <1>2 DEF Rest
<1>4. <<>> \o <<>> = <<>> /\ <<>> \in Seq(Frames)
  OBVIOUS
<1>5. Leads(<<>>, <<>>)
  BY <1>4 DEF Leads
<1> QED BY <1>1, <1>2, <1>3, <1>4, <1>5 DEF Order

LEMMA OrderStep ==
  JournalShape /\ OrderInv /\ [JournalNext]_journalVars => OrderInv'
<1> SUFFICES ASSUME JournalShape, OrderInv, [JournalNext]_journalVars PROVE OrderInv'
  OBVIOUS
<1>1. ASSUME NEW p \in Producers, NEW y \in Legs, leg' = [leg EXCEPT ![p] = y],
             Moves(leg[p], y) \/ Takes(leg[p], y) \/ Lands(leg[p], y)
      PROVE  OrderInv'
  <2>1. leg[p] \in Legs /\ LegShape(leg[p])
    BY LegIs
  <2>2. Order(y)
    BY <1>1, <2>1, MovesKeepOrder DEF OrderInv
  <2>3. \A q \in Producers : leg'[q] = IF q = p THEN y ELSE leg[q]
    BY <1>1, LegsThen
  <2> QED BY <2>2, <2>3 DEF OrderInv
<1>2. ASSUME NEW p \in Producers, Take(p) PROVE OrderInv'
  <2>1. LegMoves(p) \/ LegTakes(p)
    BY <1>2, OpeningMoves
  <2> QED BY <1>1, <2>1 DEF LegMoves, LegTakes
<1>3. ASSUME NEW p \in Producers, Works(p) PROVE OrderInv'
  <2>1. LegMoves(p) \/ LegLands(p)
    BY <1>3, WorksMove
  <2> QED BY <1>1, <2>1 DEF LegMoves, LegLands
<1>4. ASSUME UNCHANGED leg PROVE OrderInv'
  BY <1>4 DEF OrderInv
<1> QED BY <1>2, <1>3, <1>4, StepsAre, WorldKeepsShape

LEMMA PrefixIs ==
  ASSUME NEW w \in Seq(Frames), NEW made \in Seq(Frames), Leads(w, made)
  PROVE  IsPrefix(w, made)
<1>1. PICK rest \in Seq(Frames) : made = w \o rest
  BY DEF Leads
<1>2. Len(w) <= Len(made) /\ \A i \in 1..Len(w) : made[i] = w[i]
  BY <1>1
<1> DEFINE n == Len(w)
           a == SubSeq(w, 1, n)
           b == SubSeq(made, 1, n)
<1>3. /\ a \in Seq(Frames) /\ Len(a) = n /\ \A i \in 1..n : a[i] = w[i]
      /\ b \in Seq(Frames) /\ Len(b) = n /\ \A i \in 1..n : b[i] = made[i]
  BY <1>2
<1> HIDE DEF a, b
<1>4. a = b
  BY <1>2, <1>3, SeqEqual
<1> QED BY <1>2, <1>4 DEF IsPrefix, a, b

LEMMA OrderReads == JournalShape /\ OrderInv => WireKeepsOrder
<1> SUFFICES ASSUME JournalShape, OrderInv, NEW p \in Producers
             PROVE  LET wire == leg[p].wire
                        told == IF wire # <<>> /\ Last(wire) = Error THEN Front(wire) ELSE wire
                    IN IsPrefix(told, leg[p].made)
  BY DEF WireKeepsOrder
<1> DEFINE wire == leg[p].wire
           made == leg[p].made
           told == IF wire # <<>> /\ Last(wire) = Error THEN Front(wire) ELSE wire
<1>1. wire \in Seq(Frames) /\ made \in Seq(Frames) /\ \A i \in DOMAIN made : made[i] # Error
  BY LegIs DEF Legs, OrderInv, Order
<1>2. Leads(wire, made) \/ \E w \in Seq(Frames) : Leads(w, made) /\ wire = w \o <<Error>>
  BY DEF OrderInv, Order
<1> HIDE DEF wire, made
<1>3. CASE Leads(wire, made)
  <2>1. PICK rest \in Seq(Frames) : made = wire \o rest
    BY <1>3 DEF Leads
  <2>2. wire # <<>> => Last(wire) # Error
    <3> SUFFICES ASSUME wire # <<>> PROVE wire[Len(wire)] # Error
      BY DEF Last
    <3> DEFINE n == Len(wire)
    <3>1. n \in 1..Len(wire) /\ n \in DOMAIN made /\ made[n] = wire[n]
      BY <1>1, <2>1
    <3> HIDE DEF n
    <3>2. wire[n] # Error
      BY <1>1, <3>1
    <3> QED BY <3>2 DEF n
  <2>3. told = wire
    BY <2>2
  <2> HIDE DEF told
  <2>4. IsPrefix(told, made)
    BY <1>1, <1>3, <2>3, PrefixIs
  <2> QED BY <2>4 DEF told, wire, made
<1>4. CASE \E w \in Seq(Frames) : Leads(w, made) /\ wire = w \o <<Error>>
  <2>1. PICK w \in Seq(Frames) : Leads(w, made) /\ wire = w \o <<Error>>
    BY <1>4
  <2>e. Error \in Frames
    BY ErrorIsNot
  <2> DEFINE e == Error
  <2> HIDE DEF e
  <2>2. e \in Frames /\ wire = w \o <<e>>
    BY <2>1, <2>e DEF e
  <2>3. Len(wire) = Len(w) + 1 /\ wire[Len(w) + 1] = e /\ wire # <<>>
        /\ \A i \in 1..Len(w) : wire[i] = w[i]
    BY <2>2
  <2>4. Front(wire) = w
    <3> DEFINE a == SubSeq(wire, 1, Len(wire) - 1)
    <3>1. a \in Seq(Frames) /\ Len(a) = Len(w) /\ \A i \in 1..Len(w) : a[i] = wire[i]
      BY <1>1, <2>3
    <3> HIDE DEF a
    <3>2. a = w
      BY <2>3, <3>1, SeqEqual
    <3> QED BY <3>2 DEF Front, a
  <2>5. told = w
    BY <2>3, <2>4 DEF Last, e
  <2> HIDE DEF told
  <2>6. IsPrefix(told, made)
    BY <1>1, <2>1, <2>5, PrefixIs
  <2> QED BY <2>6 DEF told, wire, made
<1> QED BY <1>2, <1>3, <1>4

\* A client reads what the source made, in order and from the first frame on,
\* with at most an error at the end (internal/durable-journal.ts:207-273).
THEOREM ClientReadsInOrder == JournalSpec => []WireKeepsOrder
<1>1. JournalShape /\ OrderInv /\ [JournalNext]_journalVars => (JournalShape /\ OrderInv)'
  BY ShapeStep, OrderStep
<1> QED BY <1>1, ShapeInit, OrderInit, OrderReads, PTL DEF JournalSpec

-----------------------------------------------------------------------------
(* Once a client read the end the lease is free. *)

\* Nobody holds the key as the lease g.
Freed(g) == row # NoRow /\ row.grant = g => row.expiresAt = 0

LEMMA FreedByRelease ==
  ASSUME LeaseInv, NEW g \in Grants, Released(g)
  PROVE  Freed(g)'
<1>0. LeaseTypeOK
  BY DEF LeaseInv
<1>1. CASE SameHolder(g)
  <2>1. row \in Rows
    BY <1>0, <1>1 DEF LeaseTypeOK, SameHolder
  <2> DEFINE s == Kept(row.signals)
  <2>2. s \in SUBSET Signals /\ 0 \in 0..(MaxClock + Ttl)
    BY <2>1, RowShape, LeaseAssumption DEF Kept, Signals
  <2>3. row' = Row(0, s)
    BY <1>1 DEF Released
  <2> HIDE DEF s
  <2>4. row'.expiresAt = 0
    BY <2>1, <2>2, <2>3, RowChanges
  <2> QED BY <2>4 DEF Freed
<1>2. CASE ~SameHolder(g)
  <2>1. row' = row
    BY <1>2 DEF Released
  <2>2. row # NoRow => row.grant # g
    BY <1>2 DEF LeaseInv, RowIsIssued, SameHolder
  <2> QED BY <2>1, <2>2 DEF Freed
<1> QED BY <1>1, <1>2

\* What may happen to the row.
LEMMA FreedKept ==
  ASSUME LeaseInv, NEW g \in 0..Len(issued), Freed(g),
         \/ \E o \in Owners : Acquire(o)
         \/ \E h \in Grants : Renewed(h, FALSE) \/ Released(h)
         \/ UNCHANGED row
         \/ row' = NoRow
  PROVE  Freed(g)'
<1>0. LeaseTypeOK /\ Len(issued) \in Nat
  BY IssuedShape DEF LeaseInv
<1>1. ASSUME NEW o \in Owners, Acquire(o) PROVE Freed(g)'
  <2>1. row'.grant = Len(issued) + 1
    BY <1>1, AcquireInv
  <2>2. g # Len(issued) + 1
    BY <1>0
  <2> QED BY <2>1, <2>2 DEF Freed
<1>2. ASSUME NEW h \in Grants, Renewed(h, FALSE) PROVE Freed(g)'
  <2>1. CASE Renewable(h)
    <3>1. row # NoRow /\ row.expiresAt # 0
      BY <2>1 DEF Renewable, SameHolder
    <3>2. SameRow
      BY <1>0, <1>2, RenewedKeeps
    <3>3. row'.grant = row.grant
      BY <3>1, <3>2 DEF SameRow
    <3> QED BY <3>1, <3>3 DEF Freed
  <2>2. CASE ~Renewable(h)
    BY <1>2, <2>2 DEF Renewed, Freed
  <2> QED BY <2>1, <2>2
<1>3. ASSUME NEW h \in Grants, Released(h) PROVE Freed(g)'
  <2>1. CASE g = h
    BY <1>3, <2>1, FreedByRelease
  <2>2. CASE g # h
    <3>1. CASE SameHolder(h)
      <4>1. row # NoRow
        BY <3>1 DEF SameHolder
      <4>2. Freed(h)'
        BY <1>3, FreedByRelease
      <4>3. row \in Rows
        BY <1>0, <4>1 DEF LeaseTypeOK
      <4> DEFINE s == Kept(row.signals)
      <4>4. s \in SUBSET Signals /\ 0 \in 0..(MaxClock + Ttl)
        BY <4>3, RowShape, LeaseAssumption DEF Kept, Signals
      <4>5. row' = Row(0, s)
        BY <1>3, <3>1 DEF Released
      <4> HIDE DEF s
      <4>6. row'.expiresAt = 0
        BY <4>3, <4>4, <4>5, RowChanges
      <4> QED BY <4>6 DEF Freed
    <3>2. CASE ~SameHolder(h)
      BY <1>3, <3>2 DEF Released, Freed
    <3> QED BY <3>1, <3>2
  <2> QED BY <2>1, <2>2
<1>4. CASE UNCHANGED row
  BY <1>4 DEF Freed
<1>5. CASE row' = NoRow
  BY <1>5 DEF Freed
<1> QED BY <1>1, <1>2, <1>3, <1>4, <1>5

\* What a producer does to the row.
LEMMA WorksOnRow ==
  ASSUME JournalShape, NEW p \in Producers, Works(p)
  PROVE  (\E h \in Grants : Renewed(h, FALSE) \/ Released(h)) \/ UNCHANGED row
<1> DEFINE x == leg[p]
<1>x. x = leg[p]
  OBVIOUS
<1> HIDE DEF x
<1>l. ASSUME x.pc \notin {"idle", "closed", "dead"} \/ x.beat # "none" \/ x.giving
      PROVE  x.lease \in Grants
  BY <1>l, <1>x, LeaseOfLeg
<1>5. CASE OpenFails(p)
  <2>1. x.pc \in Opening /\ (UNCHANGED leaseVars \/ RenewedBy(x))
    BY <1>5, <1>x DEF OpenFails
  <2>2. x.lease \in Grants
    BY <2>1, <1>l DEF Opening
  <2> QED BY <2>1, <2>2 DEF RenewedBy, leaseVars
<1>6. CASE TakeRefused(p) \/ Make(p) \/ End(p) \/ Leave(p) \/ Crash(p)
  BY <1>6 DEF TakeRefused, Make, End, Local, Leave, Crash, leaseVars
<1>7. CASE Open(p) \/ Reopen(p) \/ Window(p) \/ Commit(p) \/ Answer(p) \/ Drain(p) \/ Close(p)
  BY <1>7 DEF Open, Reopen, Window, Commit, Answer, Drain, Close, Local, leaseVars
<1>8. CASE Check(p) \/ Confirm(p)
  <2>1. x.pc \in {"checking", "confirming"} /\ RenewedBy(x)
    BY <1>8, <1>x DEF Check, Confirm
  <2>2. x.lease \in Grants
    BY <2>1, <1>l
  <2> QED BY <2>1, <2>2 DEF RenewedBy
<1>9. CASE Refuse(p) \/ Return(p) \/ GiveBack(p)
  <2>1. (x.pc \in {"refusing", "releasing"} \/ x.giving) /\ ReleasedOrNot(x)
    BY <1>9, <1>x DEF Refuse, Return, GiveBack
  <2>2. x.lease \in Grants
    BY <2>1, <1>l
  <2> QED BY <2>1, <2>2 DEF ReleasedOrNot
<1>10. CASE Beat(p) \/ Beating(p)
  BY <1>10 DEF Beat, Beating, Local, leaseVars
<1>11. CASE Beaten(p)
  <2>1. x.beat = "sent" /\ (RenewedBy(x) \/ UNCHANGED leaseVars)
    BY <1>11, <1>x DEF Beaten
  <2>2. x.lease \in Grants
    BY <2>1, <1>l
  <2> QED BY <2>1, <2>2 DEF RenewedBy, leaseVars
<1> QED BY <1>5, <1>6, <1>7, <1>8, <1>9, <1>10, <1>11 DEF Works, Steps, Heart

LEMMA FreedStays ==
  ASSUME JournalShape, [JournalNext]_journalVars, NEW g \in 0..Len(issued), Freed(g)
  PROVE  Freed(g)'
<1>0. LeaseInv
  BY DEF JournalShape
<1>1. ASSUME NEW p \in Producers, Take(p) PROVE Freed(g)'
  BY <1>0, <1>1, FreedKept DEF Take, Producers
<1>2. ASSUME NEW p \in Producers, Works(p) PROVE Freed(g)'
  BY <1>0, <1>2, WorksOnRow, FreedKept
<1>3. ASSUME \/ \E before \in 1..(MaxClock + Ttl) : JournalPrune(before)
             \/ JournalTick \/ UNCHANGED journalVars
      PROVE  Freed(g)'
  <2>1. row' = NoRow \/ UNCHANGED row
    BY <1>3 DEF JournalPrune, JournalTick, journalVars, Prune, Tick, leaseVars
  <2> QED BY <1>0, <2>1, FreedKept
<1> QED BY <1>1, <1>2, <1>3, StepsAre

\* A leg returns by releasing.
LEMMA ReturnsByReturn ==
  ASSUME JournalShape, NEW p \in Producers, Works(p), leg[p].pc = "releasing",
         leg'[p].pc = "returned"
  PROVE  Return(p)
<1> DEFINE x == leg[p]
<1>0. x \in Legs /\ LegShape(x) /\ x.pc = "releasing" /\ leg \in [Producers -> Legs]
  BY LegIs DEF JournalShape, JournalTypeOK
<1>1. x.commit = "none"
  BY <1>0 DEF LegShape
<1>2. ASSUME NEW y, leg' = [leg EXCEPT ![p] = y] PROVE leg'[p] = y
  BY <1>0, <1>2
<1>3. ~TakeRefused(p) /\ ~OpenFails(p) /\ ~Make(p) /\ ~End(p)
  BY <1>0 DEF TakeRefused, OpenFails, Make, End, Opening
<1>4. ~Open(p) /\ ~Check(p) /\ ~Reopen(p) /\ ~Confirm(p) /\ ~Refuse(p) /\ ~Drain(p) /\ ~Close(p)
  BY <1>0 DEF Open, Check, Reopen, Confirm, Refuse, Drain, Close
<1>5. ~Commit(p) /\ ~Answer(p)
  BY <1>1 DEF Commit, Answer
<1>6. ASSUME Window(p) PROVE FALSE
  <2>1. leg' = [leg EXCEPT ![p] = Flush(x)] /\ Flush(x).pc = x.pc
    BY <1>0, <1>6, FlushIs DEF Window, Local, To
  <2> QED BY <1>0, <1>2, <2>1
<1>7. ASSUME GiveBack(p) PROVE FALSE
  <2> DEFINE y == [x EXCEPT !.giving = FALSE]
  <2>1. leg' = [leg EXCEPT ![p] = y]
    BY <1>7 DEF GiveBack, To
  <2>2. y.pc = x.pc
    BY <1>0 DEF Legs
  <2> HIDE DEF y
  <2> QED BY <1>0, <1>2, <2>1, <2>2
<1>8. ASSUME NEW b, leg' = [leg EXCEPT ![p] = [x EXCEPT !.beat = b]] PROVE FALSE
  <2> DEFINE y == [x EXCEPT !.beat = b]
  <2>1. leg' = [leg EXCEPT ![p] = y]
    BY <1>8
  <2>2. y.pc = x.pc
    BY <1>0 DEF Legs
  <2> HIDE DEF y
  <2> QED BY <1>0, <1>2, <2>1, <2>2
<1>9. ~Beat(p) /\ ~Beaten(p)
  BY <1>8 DEF Beat, Beaten, Local, To
<1>10. ASSUME Beating(p) PROVE FALSE
  <2>1. CASE x.beat = "lost"
    <3> DEFINE z == Halt(x)
               y == [z EXCEPT !.beat = "none"]
    <3>1. z \in Legs /\ z.pc = "halted"
      BY <1>0, HaltIs DEF Halts
    <3>2. leg' = [leg EXCEPT ![p] = y]
      BY <1>10, <2>1 DEF Beating, Local, To
    <3> HIDE DEF z
    <3>3. y.pc = "halted"
      BY <3>1 DEF Legs
    <3> HIDE DEF y
    <3> QED BY <1>2, <3>2, <3>3
  <2>2. CASE x.beat # "lost"
    BY <1>8, <1>10, <2>2 DEF Beating, Local, To
  <2> QED BY <2>1, <2>2
<1>11. ASSUME Leave(p) PROVE FALSE
  <2> DEFINE y == [x EXCEPT !.gone = TRUE]
  <2>1. leg' = [leg EXCEPT ![p] = y]
    BY <1>11 DEF Leave
  <2>2. y.pc = x.pc
    BY <1>0 DEF Legs
  <2> HIDE DEF y
  <2> QED BY <1>0, <1>2, <2>1, <2>2
<1>12. ASSUME Crash(p) PROVE FALSE
  <2> DEFINE y == [NoLeg EXCEPT !.pc = "dead", !.lease = x.lease, !.fence = x.fence,
                                !.made = x.made, !.wire = x.wire]
  <2>1. leg' = [leg EXCEPT ![p] = y]
    BY <1>12 DEF Crash, To
  <2>2. y.pc = "dead"
    BY DEF NoLeg
  <2> HIDE DEF y
  <2> QED BY <1>2, <2>1, <2>2
<1> QED BY <1>3, <1>4, <1>5, <1>6, <1>7, <1>9, <1>10, <1>11, <1>12 DEF Works, Steps, Heart

NoDone(frames) == \A i \in DOMAIN frames : frames[i].kind # "done"
EndsInError(wire) == \E w \in Seq(Frames) : wire = w \o <<Error>>

\* The end is on the wire of a leg that closed, with its lease free.
Ends(x, free) ==
  /\ x.pc \in Early \cup {"producing"} => NoDone(x.made)
  /\ x.pc \in {"ending", "releasing", "returned"} => NoDone(x.wire)
  /\ x.pc = "returned" => free
  /\ x.pc \in Over => NoDone(x.wire) \/ EndsInError(x.wire) \/ free

LEMMA NoDoneBefore ==
  ASSUME NEW w \in Seq(Frames), NEW made \in Seq(Frames), Leads(w, made), NoDone(made)
  PROVE  NoDone(w)
<1>1. PICK rest \in Seq(Frames) : made = w \o rest
  BY DEF Leads
<1>2. \A i \in DOMAIN w : i \in DOMAIN made /\ made[i] = w[i]
  BY <1>1
<1> QED BY <1>2 DEF NoDone

LEMMA NoDoneMore ==
  ASSUME NEW made \in Seq(Frames), NEW frame \in Frames, NoDone(made), frame.kind # "done"
  PROVE  NoDone(Append(made, frame))
BY DEF NoDone

LEMMA MovesKeepEnds ==
  ASSUME NEW x \in Legs, NEW y \in Legs, LegShape(x), Order(x),
         NEW free \in BOOLEAN, NEW free2 \in BOOLEAN, Ends(x, free), free => free2,
         y.pc = "returned" => x.pc = "returned" \/ free2,
         Moves(x, y) \/ Takes(x, y) \/ Lands(x, y)
  PROVE  Ends(y, free2)
<1>w. x.wire \in Seq(Frames) /\ x.made \in Seq(Frames) /\ x.seq \in Nat /\ x.pc \in PCs
  BY DEF Legs
\* Before it closes a leg's client has read no end.
<1>n. x.pc \notin Over => NoDone(x.wire)
  <2>1. CASE x.pc \in Early \cup {"producing"}
    <3>1. x.pc \notin Over /\ NoDone(x.made)
      BY <2>1 DEF Ends, Over, Early, Opening
    <3>2. Leads(x.wire, x.made)
      BY <3>1 DEF Order
    <3> QED BY <1>w, <3>1, <3>2, NoDoneBefore
  <2>2. CASE x.pc \in {"ending", "releasing", "returned"}
    BY <2>2 DEF Ends
  <2> QED BY <1>w, <2>1, <2>2 DEF PCs, Ending, Over
<1>o. x.pc \in Over => NoDone(x.wire) \/ EndsInError(x.wire) \/ free
  BY DEF Ends
<1>0. ASSUME y.pc = x.pc, y.made = x.made,
             x.pc \in {"ending", "releasing", "returned"} \cup Over => y.wire = x.wire
      PROVE  Ends(y, free2)
  BY <1>0 DEF Ends
\* A leg is over, and its client read nothing more.
<1>d. ASSUME y.pc \in Over, y.wire = x.wire PROVE Ends(y, free2)
  <2>1. NoDone(y.wire) \/ EndsInError(y.wire) \/ free2
    BY <1>n, <1>o, <1>d
  <2> QED BY <1>d, <2>1 DEF Ends, Over, Early, Opening
<1>e. ASSUME y.pc \in Over, EndsInError(y.wire) PROVE Ends(y, free2)
  BY <1>e DEF Ends, Over, Early, Opening
<1>1. CASE Rests(x, y)
  <2>1. y.made = x.made /\ y.wire = x.wire
    BY <1>1 DEF Rests, SameBook, SameOut
  <2>2. CASE y.pc = x.pc
    BY <1>0, <2>1, <2>2
  <2>3. CASE y.pc \in {"releasing", "returned"} /\ x.pc \in {"ending", "releasing"}
    <3>1. NoDone(y.wire)
      BY <2>1, <2>3 DEF Ends
    <3> QED BY <2>3, <3>1 DEF Ends, Over, Early, Opening
  <2> QED BY <1>1, <2>2, <2>3 DEF Rests
<1>2. CASE Begins(x, y) \/ Takes(x, y)
  <2>1. x.pc \in Early /\ y.pc \in Early \cup {"producing"} /\ y.made = x.made
    BY <1>2 DEF Begins, Takes, Early, Opening
  <2> QED BY <2>1 DEF Ends, Over, Early, Opening
<1>3. CASE Refuses(x, y)
  <2>1. ~x.gone
    BY <1>3 DEF Refuses, LegShape, Early
  <2> DEFINE last == <<Error>>
  <2>2. y.wire = x.wire \o last /\ y.pc \in Over
    BY <1>3, <2>1 DEF Refuses, Over
  <2> HIDE DEF last
  <2>3. EndsInError(y.wire)
    BY <1>w, <2>2 DEF EndsInError, last
  <2> QED BY <1>e, <2>2, <2>3
<1>4. CASE Flushes(x, y)
  BY <1>0, <1>4 DEF Flushes, SameBook, SameOut
<1>5. CASE Makes(x, y)
  <2>1. PICK frame \in {Part(x.seq), Done(x.seq), Transient} :
          /\ x.pc = "producing"
          /\ y.pc = IF frame = Done(x.seq) THEN "ending" ELSE "producing"
          /\ y.made = Append(x.made, frame)
          /\ Joins(x, frame, y)
    BY <1>5 DEF Makes
  <2>f. frame \in Frames
    BY <1>w, <2>1, PartsAreFrames
  <2>2. CASE frame = Done(x.seq)
    <3>1. Journaled(frame)
      BY <2>2 DEF Done, Journaled
    <3>2. y.wire = x.wire
      BY <2>1, <3>1 DEF Joins, SameOut
    <3>3. NoDone(y.wire) /\ y.pc = "ending"
      BY <1>n, <2>1, <2>2, <3>2 DEF Over
    <3> QED BY <3>3 DEF Ends, Over, Early, Opening
  <2>3. CASE frame # Done(x.seq)
    <3>1. frame.kind # "done"
      BY <2>3 DEF Part, Transient
    <3>2. NoDone(x.made)
      BY <2>1 DEF Ends
    <3>3. NoDone(y.made) /\ y.pc = "producing"
      BY <1>w, <2>1, <2>3, <2>f, <3>1, <3>2, NoDoneMore
    <3> QED BY <3>3 DEF Ends, Over
  <2> QED BY <2>2, <2>3
<1>6. CASE Stops(x, y)
  <2>1. y.pc = "ending" /\ NoDone(y.wire)
    BY <1>n, <1>6 DEF Stops, SameOut, Over
  <2> QED BY <2>1 DEF Ends, Over, Early, Opening
<1>7. CASE Lands(x, y)
  BY <1>0, <1>7 DEF Lands, SameBook, SameOut
<1>8. CASE Publishes(x, y)
  <2>1. x.pc \in {"producing", "ending"}
    BY <1>8 DEF Publishes, LegShape
  <2>2. x.pc = "ending" => y.wire = x.wire
    BY <1>8 DEF Publishes, Ending
  <2>3. x.pc \notin Over /\ x.pc \notin {"releasing", "returned"}
    BY <2>1 DEF Over
  <2> QED BY <1>0, <1>8, <2>1, <2>2, <2>3 DEF Publishes, SameBook
<1>9. CASE Forgets(x, y)
  BY <1>d, <1>9 DEF Forgets, SameOut, Over
<1>10. CASE Fails(x, y)
  <2>1. y.pc \in Over
    BY <1>10 DEF Fails, Over
  <2>2. CASE x.gone
    BY <1>d, <1>10, <2>1, <2>2 DEF Fails
  <2>3. CASE ~x.gone
    <3> DEFINE w == x.wire \o x.tail
    <3>1. w \in Seq(Frames)
      BY DEF Legs
    <3>2. y.wire = w \o <<Error>>
      BY <1>10, <2>3 DEF Fails
    <3> HIDE DEF w
    <3>3. EndsInError(y.wire)
      BY Zenon, <3>1, <3>2 DEF EndsInError
    <3> QED BY <1>e, <2>1, <3>3
  <2> QED BY <2>2, <2>3
<1>11. CASE Closes(x, y)
  <2>1. free2 /\ y.pc = "closed"
    BY <1>11 DEF Closes, Ends
  <2> QED BY <2>1 DEF Ends, Over, Early, Opening
<1>12. CASE Leaves(x, y)
  BY <1>0, <1>12 DEF Leaves, SameBook
<1>13. CASE Dies(x, y)
  BY <1>d, <1>13 DEF Dies, Over
<1> QED BY <1>1, <1>2, <1>3, <1>4, <1>5, <1>6, <1>7, <1>8, <1>9, <1>10, <1>11,
           <1>12, <1>13 DEF Moves

\* As long as no call failed, now and after a step.
Free(g) == mishaps.faults = 0 => Freed(g)
FreeThen(g) ==
  mishaps'.faults = 0 => (row' # NoRow /\ row'.grant = g => row'.expiresAt = 0)

EndsInv == \A p \in Producers : Ends(leg[p], Free(leg[p].lease))

LEMMA FaultsStay ==
  ASSUME JournalShape, [JournalNext]_journalVars, mishaps'.faults = 0
  PROVE  mishaps.faults = 0
<1>1. mishaps \in Mishaps /\ mishaps.faults \in Nat
  BY DEF JournalShape, JournalTypeOK, Mishaps
<1>2. mishaps.faults <= mishaps'.faults
  <2>1. CASE \E p \in Producers : Take(p) \/ Works(p)
    BY <1>1, <2>1, MishapsMove, MishapsKeep
  <2>2. CASE UNCHANGED mishaps
    BY <1>1, <2>2
  <2> QED BY <2>1, <2>2, StepsAre, WorldKeepsShape
<1>3. mishaps' \in Mishaps /\ mishaps'.faults \in Nat
  <2>1. JournalShape'
    BY ShapeStep
  <2> QED BY <2>1 DEF JournalShape, JournalTypeOK, Mishaps
<1> QED BY <1>1, <1>2, <1>3

LEMMA FreeStays ==
  ASSUME JournalShape, [JournalNext]_journalVars, NEW p \in Producers, Free(leg[p].lease)
  PROVE  FreeThen(leg[p].lease)
<1>1. Grants = 1..Len(issued) /\ Len(issued) \in Nat
  BY IssuedShape DEF JournalShape, LeaseInv
<1>2. leg[p].lease \in 0..Len(issued)
  BY <1>1 DEF JournalShape, Named
<1>3. PICK g \in 0..Len(issued) : g = leg[p].lease
  BY <1>2
<1> SUFFICES ASSUME mishaps'.faults = 0 PROVE Freed(g)'
  BY <1>3 DEF FreeThen, Freed
<1>4. Freed(g)
  BY <1>3, FaultsStay DEF Free
<1> QED BY <1>4, FreedStays

\* The lease a leg returned is free, or its release failed.
LEMMA ReturnFrees ==
  ASSUME JournalShape, NEW p \in Producers, Return(p)
  PROVE  FreeThen(leg[p].lease)
<1>1. leg[p].lease \in Grants /\ ReleasedOrNot(leg[p])
  BY LeaseOfLeg DEF Return
<1>2. CASE Fault
  <2>1. mishaps \in Mishaps /\ mishaps' = [mishaps EXCEPT !.faults = @ + 1]
    BY <1>2 DEF Fault, JournalShape, JournalTypeOK
  <2>2. mishaps'.faults # 0
    BY <2>1 DEF Mishaps
  <2> QED BY <2>2 DEF FreeThen
<1>3. CASE Released(leg[p].lease)
  <2>1. PICK g \in Grants : g = leg[p].lease
    BY <1>1
  <2>2. Freed(g)'
    BY <1>3, <2>1, FreedByRelease DEF JournalShape
  <2> QED BY <2>1, <2>2 DEF Freed, FreeThen
<1> QED BY <1>1, <1>2, <1>3 DEF ReleasedOrNot

LEMMA LegEnds ==
  ASSUME JournalShape, OrderInv, EndsInv, [JournalNext]_journalVars,
         NEW p \in Producers, NEW y \in Legs, leg' = [leg EXCEPT ![p] = y],
         \/ Takes(leg[p], y)
         \/ Moves(leg[p], y) \/ Lands(leg[p], y),
         y.pc = "returned" => leg[p].pc = "returned" \/ FreeThen(leg[p].lease)
  PROVE  EndsInv'
<1>1. leg[p] \in Legs /\ LegShape(leg[p]) /\ Order(leg[p]) /\ Ends(leg[p], Free(leg[p].lease))
  BY LegIs DEF OrderInv, EndsInv
<1>2. \A q \in Producers : leg'[q] = IF q = p THEN y ELSE leg[q]
  BY LegsThen
<1>3. Ends(y, FreeThen(y.lease))
  <2>1. CASE Takes(leg[p], y)
    <3>1. y.pc = "opening" /\ y.made = leg[p].made /\ leg[p].pc = "idle"
      BY <2>1 DEF Takes
    <3> QED BY <1>1, <3>1 DEF Ends, Early, Opening, Over
  <2>2. CASE Moves(leg[p], y) \/ Lands(leg[p], y)
    <3>1. y.lease = leg[p].lease
      BY <1>1, <2>2, MovesKeepName
    <3> DEFINE free == Free(leg[p].lease)
               then == FreeThen(leg[p].lease)
    <3>2. free \in BOOLEAN /\ then \in BOOLEAN
      BY DEF Free, FreeThen, Freed
    <3>3. free => then
      BY FreeStays
    <3>4. Ends(leg[p], free) /\ (y.pc = "returned" => leg[p].pc = "returned" \/ then)
      BY <1>1
    <3> HIDE DEF free, then
    <3>5. Ends(y, then)
      BY <1>1, <2>2, <3>2, <3>3, <3>4, MovesKeepEnds
    <3> QED BY <3>1, <3>5 DEF then
  <2> QED BY <2>1, <2>2
<1>4. ASSUME NEW q \in Producers, q # p PROVE Ends(leg[q], FreeThen(leg[q].lease))
  <2>1. Ends(leg[q], Free(leg[q].lease)) /\ (Free(leg[q].lease) => FreeThen(leg[q].lease))
    BY FreeStays DEF EndsInv
  <2> QED BY <2>1 DEF Ends
<1>5. \A q \in Producers : Ends(leg'[q], FreeThen(leg'[q].lease))
  BY <1>2, <1>3, <1>4
<1> QED BY <1>5 DEF EndsInv, Free, FreeThen, Freed, Ends, NoDone, EndsInError

LEMMA EndsStep ==
  JournalShape /\ OrderInv /\ EndsInv /\ [JournalNext]_journalVars => EndsInv'
<1> SUFFICES ASSUME JournalShape, OrderInv, EndsInv, [JournalNext]_journalVars PROVE EndsInv'
  OBVIOUS
<1>1. ASSUME NEW p \in Producers, Take(p) PROVE EndsInv'
  <2>1. PICK y \in Legs : /\ leg' = [leg EXCEPT ![p] = y]
                          /\ Takes(leg[p], y) \/ Moves(leg[p], y)
    BY <1>1, OpeningMoves DEF LegMoves, LegTakes
  <2>2. leg[p].pc = "idle"
    BY <1>1 DEF Take
  <2>3. y.pc # "returned"
    BY <2>1, <2>2 DEF Takes, Moves, Rests, Begins, Refuses, Flushes, Makes, Stops, Publishes,
                      Forgets, Fails, Closes, Leaves, Dies, Opening
  <2> QED BY <2>1, <2>3, LegEnds
<1>2. ASSUME NEW p \in Producers, Works(p) PROVE EndsInv'
  <2>1. PICK y \in Legs : /\ leg' = [leg EXCEPT ![p] = y]
                          /\ Moves(leg[p], y) \/ Lands(leg[p], y)
    BY <1>2, WorksMove DEF LegMoves, LegLands
  <2>2. leg'[p] = y
    <3>1. leg' = [leg EXCEPT ![p] = y]
      BY <2>1
    <3>2. leg \in [Producers -> Legs]
      BY DEF JournalShape, JournalTypeOK
    <3> QED BY <3>1, <3>2
  <2>3. ASSUME y.pc = "returned", leg[p].pc # "returned" PROVE FreeThen(leg[p].lease)
    <3>1. leg[p].pc = "releasing"
      BY <2>1, <2>3 DEF Moves, Lands, Rests, Begins, Refuses, Flushes, Makes, Stops,
                        Publishes, Forgets, Fails, Closes, Leaves, Dies, Opening
    <3>2. Return(p)
      BY <1>2, <2>2, <2>3, <3>1, ReturnsByReturn
    <3> QED BY <3>2, ReturnFrees
  <2> QED BY <2>1, <2>3, LegEnds
<1>3. ASSUME UNCHANGED leg PROVE EndsInv'
  <2>1. \A q \in Producers : Ends(leg'[q], FreeThen(leg'[q].lease))
    <3> TAKE q \in Producers
    <3>1. Ends(leg[q], Free(leg[q].lease)) /\ (Free(leg[q].lease) => FreeThen(leg[q].lease))
      BY FreeStays DEF EndsInv
    <3> QED BY <1>3, <3>1 DEF Ends
  <2> QED BY <2>1 DEF EndsInv, Free, FreeThen, Freed, Ends, NoDone, EndsInError
<1> QED BY <1>1, <1>2, <1>3, StepsAre, WorldKeepsShape

LEMMA EndsInit == JournalInit => EndsInv
<1> SUFFICES ASSUME JournalInit, NEW p \in Producers PROVE Ends(leg[p], Free(leg[p].lease))
  BY DEF EndsInv
<1>1. leg[p].pc = "idle" /\ leg[p].made = <<>>
  BY DEF JournalInit, NoLeg
<1> QED BY <1>1 DEF Ends, NoDone, Early, Opening, Over

LEMMA EndsAreFree == JournalShape /\ OrderInv /\ EndsInv => EndMeansFree
<1> SUFFICES ASSUME JournalShape, OrderInv, EndsInv, NEW p \in Producers,
                    leg[p].wire # <<>>, Last(leg[p].wire).kind = "done", mishaps.faults = 0,
                    Held, row.grant = leg[p].lease
             PROVE  FALSE
  BY DEF EndMeansFree
<1> DEFINE w == leg[p].wire
           n == Len(w)
<1>1. w \in Seq(Frames) /\ leg[p].pc \in PCs /\ leg[p].made \in Seq(Frames)
  BY LegIs DEF Legs
<1>2. n \in DOMAIN w /\ w[n].kind = "done"
  BY <1>1 DEF Last
<1>3. ~NoDone(w)
  BY <1>2 DEF NoDone
<1>4. ~EndsInError(w)
  <2> SUFFICES ASSUME NEW v \in Seq(Frames), w = v \o <<Error>> PROVE FALSE
    BY DEF EndsInError
  <2> DEFINE e == Error
  <2>1. e.kind = "error" /\ e \in Frames
    BY DEF Error, Frames
  <2> HIDE DEF e
  <2>2. w = v \o <<e>>
    BY DEF e
  <2>3. w[Len(w)] = e
    BY <2>1, <2>2
  <2> QED BY <1>2, <2>1, <2>3
<1>5. ~Freed(leg[p].lease)
  <2>1. row # NoRow /\ row \in Rows /\ now < row.expiresAt
    BY DEF Held, JournalShape, LeaseInv, LeaseTypeOK
  <2>2. now \in Nat
    BY DEF JournalShape, LeaseInv, LeaseTypeOK
  <2> QED BY <2>1, <2>2 DEF Freed
<1>6. ~Free(leg[p].lease)
  BY <1>5 DEF Free
<1>7. Ends(leg[p], Free(leg[p].lease)) /\ LegShape(leg[p]) /\ Order(leg[p])
  BY LegIs DEF EndsInv, OrderInv
<1>8. leg[p].pc \notin Over \cup {"ending", "releasing", "returned"}
  BY <1>3, <1>4, <1>6, <1>7 DEF Ends
<1>9. leg[p].pc = "producing"
  <2>1. leg[p].pc \in Early => w = <<>>
    BY <1>7 DEF LegShape
  <2> QED BY <1>1, <1>2, <1>8, <2>1 DEF PCs, Ending, Over
<1>10. Leads(w, leg[p].made) /\ NoDone(leg[p].made)
  BY <1>7, <1>9 DEF Order, Ends, Over
<1> QED BY <1>1, <1>3, <1>10, NoDoneBefore

\* A client that read the end of a leg finds the lease free, provided that no
\* call failed: the sentinel waits in the tail until the release was answered
\* (internal/durable-journal.ts:45-47, 316-329).
THEOREM EndIsFree == JournalSpec => []EndMeansFree
<1>1. /\ JournalShape /\ OrderInv /\ EndsInv /\ [JournalNext]_journalVars
      => (JournalShape /\ OrderInv /\ EndsInv)'
  BY ShapeStep, OrderStep, EndsStep
<1> QED BY <1>1, ShapeInit, OrderInit, EndsInit, EndsAreFree, PTL DEF JournalSpec

-----------------------------------------------------------------------------
(* What an earlier holder of the key commits late is refused. *)

\* A leg that may commit, and one whose fence is no longer just its token.
Acts(x) ==
  \/ x.pc \in {"producing", "ending", "releasing", "returned", "halted"}
  \/ x.beat # "none"
Raised(x) == x.pc \in {"checking", "reopening", "confirming"} \/ Acts(x)

\* A fence is no lower than the token of its lease, nor higher than the
\* stream's once the leg opened it.
FenceOf(x, token, leases) ==
  /\ x.lease # 0 => leases[x.lease].token <= x.fence
  /\ x.pc = "opening" => x.fence = leases[x.lease].token
  /\ Acts(x) \/ x.pc = "confirming" => x.fence <= token

\* The later holder y of the key fences x out, unless y's token happens to be
\* the fence x derived.
Behind(x, y, leases) ==
  /\ Acts(x) /\ Raised(y) /\ x.lease < y.lease
  /\ leases[x.lease].era = leases[y.lease].era
  => x.fence < y.fence \/ (y.fence = x.fence /\ y.fence = leases[y.lease].token)

FenceInv ==
  /\ row # NoRow => row.grant = Len(issued)
  /\ \A g, h \in Grants : g < h /\ issued[g].era = issued[h].era => issued[g].token < issued[h].token
  /\ \A p \in Producers : FenceOf(leg[p], stream.token, issued)
  /\ \A p, q \in Producers : Behind(leg[p], leg[q], issued)

LEMMA LegIsRaised ==
  ASSUME JournalShape, FenceInv, NEW p \in Producers, NEW y \in Legs,
         leg' = [leg EXCEPT ![p] = y], KeyKept,
         stream'.token \in Nat, stream.token <= stream'.token,
         FenceOf(y, stream'.token, issued),
         \A q \in Producers \ {p} : Behind(y, leg[q], issued) /\ Behind(leg[q], y, issued)
  PROVE  FenceInv'
<1>1. \A q \in Producers : leg'[q] = IF q = p THEN y ELSE leg[q]
  BY LegsThen
<1>2. issued' = issued /\ Grants' = Grants
  BY DEF KeyKept, Grants
<1>3. row' # NoRow => row'.grant = Len(issued')
  BY <1>2 DEF KeyKept, SameRow, FenceInv
<1>4. stream.token \in Nat /\ \A q \in Producers : leg[q].fence \in Nat /\ y.lease \in Nat
  BY LegIs, TokensAreNumbers DEF Legs
<1>5. \A q \in Producers : FenceOf(leg'[q], stream'.token, issued')
  <2> TAKE q \in Producers
  <2>1. CASE q = p
    BY <1>1, <1>2, <2>1
  <2>2. CASE q # p
    <3>1. FenceOf(leg[q], stream.token, issued) /\ leg'[q] = leg[q]
      BY <1>1, <2>2 DEF FenceInv
    <3> QED BY <1>2, <1>4, <3>1 DEF FenceOf
  <2> QED BY <2>1, <2>2
<1>6. \A q, r \in Producers : Behind(leg'[q], leg'[r], issued')
  <2> TAKE q, r \in Producers
  <2>1. CASE q = p /\ r = p
    BY <1>1, <1>4, <2>1 DEF Behind
  <2>2. CASE q = p /\ r # p
    BY <1>1, <1>2, <2>2
  <2>3. CASE q # p /\ r = p
    BY <1>1, <1>2, <2>3
  <2>4. CASE q # p /\ r # p
    BY <1>1, <1>2, <2>4 DEF FenceInv
  <2> QED BY <2>1, <2>2, <2>3, <2>4
<1> QED BY <1>2, <1>3, <1>5, <1>6 DEF FenceInv

\* A leg keeps its fence and gets no further in opening.
Stays(x, y) ==
  /\ SameId(x, y)
  /\ Acts(y) => Acts(x)
  /\ Raised(y) => Raised(x)
  /\ y.pc \in {"opening", "confirming"} => y.pc = x.pc

LEMMA LegStays ==
  ASSUME JournalShape, FenceInv, NEW p \in Producers, NEW y \in Legs,
         leg' = [leg EXCEPT ![p] = y], KeyKept,
         stream'.token \in Nat, stream.token <= stream'.token,
         Stays(leg[p], y)
  PROVE  FenceInv'
<1>1. stream.token \in Nat /\ leg[p].fence \in Nat
  BY LegIs, TokensAreNumbers DEF Legs
<1>2. FenceOf(y, stream'.token, issued)
  <2>1. FenceOf(leg[p], stream.token, issued)
    BY DEF FenceInv
  <2> QED BY <1>1, <2>1 DEF FenceOf, Stays, SameId
<1>3. \A q \in Producers \ {p} : Behind(y, leg[q], issued) /\ Behind(leg[q], y, issued)
  <2> TAKE q \in Producers \ {p}
  <2>1. Behind(leg[p], leg[q], issued) /\ Behind(leg[q], leg[p], issued)
    BY DEF FenceInv
  <2> QED BY <2>1 DEF Behind, Stays, SameId
<1> QED BY <1>2, <1>3, LegIsRaised

LEMMA MovesStay ==
  ASSUME NEW x \in Legs, NEW y \in Legs, LegShape(x), Moves(x, y) \/ Lands(x, y), ~Begins(x, y),
         Duty(x, y)
  PROVE  Stays(x, y)
<1> USE DEF Stays, Raised, Acts, Duty, SameBook, SameId, Opening, Ending
<1>1. CASE Rests(x, y)
  BY <1>1 DEF Rests
<1>3. CASE Refuses(x, y)
  BY <1>3 DEF Refuses
<1>4. CASE Flushes(x, y)
  BY <1>4 DEF Flushes
<1>5. CASE Makes(x, y)
  BY <1>5 DEF Makes
<1>6. CASE Stops(x, y)
  BY <1>6 DEF Stops
<1>7. CASE Lands(x, y)
  BY <1>7 DEF Lands
<1>8. CASE Publishes(x, y)
  BY <1>8 DEF Publishes
<1>9. CASE Forgets(x, y)
  BY <1>9 DEF Forgets
<1>10. CASE Fails(x, y)
  BY <1>10 DEF Fails, LegShape, Early
<1>11. CASE Closes(x, y)
  BY <1>11 DEF Closes
<1>12. CASE Leaves(x, y)
  BY <1>12 DEF Leaves
<1>13. CASE Dies(x, y)
  BY <1>13 DEF Dies
<1> QED BY <1>1, <1>3, <1>4, <1>5, <1>6, <1>7, <1>8, <1>9, <1>10, <1>11,
           <1>12, <1>13 DEF Moves

\* All but opening leave a leg's fence alone.
LEMMA WorksStay ==
  ASSUME JournalShape, NEW p \in Producers, Works(p), ~Open(p), ~Reopen(p), ~Confirm(p)
  PROVE  \E y \in Legs : leg' = [leg EXCEPT ![p] = y] /\ Stays(leg[p], y)
<1> DEFINE x == leg[p]
<1>0. x \in Legs /\ LegShape(x)
  BY LegIs
<1>1. CASE x.pc \notin Opening
  <2>1. PICK y \in Legs : /\ leg' = [leg EXCEPT ![p] = y] /\ Duty(x, y)
                          /\ Moves(x, y) \/ Lands(x, y)
    BY WorksMove DEF LegMoves, LegLands
  <2>2. ~Begins(x, y)
    BY <1>1 DEF Begins
  <2> HIDE DEF x
  <2>3. Stays(x, y)
    BY <1>0, <2>1, <2>2, MovesStay
  <2> QED BY <2>1, <2>3 DEF x
<1>2. CASE x.pc \in Opening
  <2>1. ASSUME NEW pc \in {"reopening", "refusing"}, leg' = [leg EXCEPT ![p] = [x EXCEPT !.pc = pc]],
               pc = "reopening" => x.pc = "checking"
        PROVE  \E y \in Legs : leg' = [leg EXCEPT ![p] = y] /\ Stays(leg[p], y)
    <3> HIDE DEF x
    <3> DEFINE y == [x EXCEPT !.pc = pc]
    <3>1. y \in Legs /\ y.pc = pc /\ SameId(x, y) /\ y.beat = x.beat
      BY <1>0 DEF Legs, PCs, Early, Opening, SameId
    <3>2. leg' = [leg EXCEPT ![p] = y]
      BY <2>1
    <3> HIDE DEF y
    <3>3. Stays(x, y)
      BY <1>0, <2>1, <3>1 DEF Stays, Acts, Raised
    <3> QED BY <3>1, <3>2, <3>3 DEF x
  <2>2. CASE Check(p)
    BY <2>1, <2>2 DEF Check, To
  <2>3. CASE OpenFails(p)
    BY <2>1, <2>3 DEF OpenFails, To
  <2>4. CASE Window(p)
    <3> DEFINE y == Flush(x)
    <3>1. y \in Legs /\ y.pc = x.pc /\ SameBook(x, y) /\ SameDuty(x, y)
      BY <1>0, FlushIs
    <3>2. leg' = [leg EXCEPT ![p] = y]
      BY <2>4 DEF Window, Local, To
    <3> HIDE DEF y, x
    <3>3. Stays(x, y)
      BY <3>1 DEF Stays, Acts, Raised, SameBook, SameDuty
    <3> QED BY <3>1, <3>2, <3>3 DEF x
  <2>5. CASE Crash(p)
    <3>1. PICK y \in Legs : leg' = [leg EXCEPT ![p] = y] /\ Moves(x, y) /\ Duty(x, y)
      BY <2>5, DutyMoves DEF LegMoves
    <3> DEFINE z == [NoLeg EXCEPT !.pc = "dead", !.lease = x.lease, !.fence = x.fence,
                                  !.made = x.made, !.wire = x.wire]
    <3>2. leg' = [leg EXCEPT ![p] = z] /\ z.pc = "dead"
      BY <2>5 DEF Crash, To, NoLeg
    <3>3. leg \in [Producers -> Legs]
      BY DEF JournalShape, JournalTypeOK
    <3> HIDE DEF z, x
    <3>4. leg'[p] = y /\ leg'[p] = z
      BY <3>1, <3>2, <3>3
    <3>5. ~Begins(x, y)
      BY <3>2, <3>4 DEF Begins, Opening
    <3>6. Stays(x, y)
      BY <1>0, <3>1, <3>5, MovesStay
    <3> QED BY <3>1, <3>6 DEF x
  <2>6. x.commit = "none" /\ x.beat = "none" /\ ~x.giving
    BY <1>0, <1>2 DEF LegShape, Early
  <2>7. /\ ~TakeRefused(p) /\ ~Make(p) /\ ~End(p) /\ ~Refuse(p) /\ ~Commit(p) /\ ~Answer(p)
        /\ ~Drain(p) /\ ~Return(p) /\ ~Close(p) /\ ~GiveBack(p) /\ ~Beat(p) /\ ~Beaten(p)
        /\ ~Beating(p) /\ ~Leave(p)
    BY <1>2, <2>6 DEF TakeRefused, Make, End, Refuse, Commit, Answer, Drain, Return, Close,
                      GiveBack, Beat, Beaten, Beating, Leave, Opening, Ending
  <2> QED BY <2>2, <2>3, <2>4, <2>5, <2>7 DEF Works, Steps, Heart
<1> QED BY <1>1, <1>2

\* No step lowers the stream's fence.
LEMMA TokenGrows ==
  ASSUME JournalShape, NEW p \in Producers, Works(p)
  PROVE  stream'.token \in Nat /\ stream.token <= stream'.token
<1>1. leg[p].fence \in Nat /\ stream.token \in Nat
  BY LegIs, TokensAreNumbers DEF Legs
<1>2. CASE StreamOpens
  BY <1>2 DEF StreamOpens, Streams
<1>3. CASE Stores(p, leg[p])
  BY <1>1, <1>3 DEF Stores
<1>4. CASE stream' = stream
  BY <1>1, <1>4
<1> QED BY <1>2, <1>3, <1>4, WorksMove DEF LegLands

\* The leases of two legs, one later than the other in one era.
LEMMA LaterToken ==
  ASSUME JournalShape, FenceInv, NEW p \in Producers, NEW q \in Producers,
         leg[p].lease # 0, leg[p].lease < leg[q].lease,
         issued[leg[p].lease].era = issued[leg[q].lease].era
  PROVE  issued[leg[p].lease].token < issued[leg[q].lease].token
<1>1. leg[p].lease \in Nat /\ leg[q].lease \in Nat
  BY LegIs DEF Legs
<1>2. leg[p].lease \in Grants /\ leg[q].lease \in Grants
  BY <1>1 DEF JournalShape, Named
<1> QED BY <1>2 DEF FenceInv

LEMMA OpenIsRaised ==
  ASSUME JournalShape, FenceInv, NEW p \in Producers, Open(p)
  PROVE  FenceInv'
<1> DEFINE x == leg[p]
           t == issued[x.lease].token
           seq == LastSeq + 1
           above == stream.token + 1
<1>0. /\ x \in Legs /\ LegShape(x) /\ x.pc = "opening" /\ x.fence \in Nat /\ x.lease \in Nat
      /\ stream.token \in Nat /\ seq \in Nat
  BY LegIs, TokensAreNumbers DEF Legs, Open
<1>1. Works(p) /\ KeyKept
  BY WorksKeepKey DEF Works, Steps
<1>2. stream'.token \in Nat /\ stream.token <= stream'.token
  BY <1>1, TokenGrows
<1>3. FenceOf(x, stream.token, issued) /\ x.lease # 0 /\ x.fence = t
  BY <1>0 DEF FenceInv, FenceOf, LegShape
<1>4. x.beat = "none"
  BY <1>0 DEF LegShape, Early, Opening
<1>5. stream \in Streams
  BY DEF JournalShape, JournalTypeOK
<1>6. CASE stream.token <= t
  <2> DEFINE y == [x EXCEPT !.pc = "producing", !.seq = seq, !.beat = "armed"]
  <2>1. leg' = [leg EXCEPT ![p] = y] /\ stream' = [stream EXCEPT !.token = t]
    BY <1>3, <1>6 DEF Open, Opened, Opens, To, Producing
  <2>2. stream'.token = t
    BY <1>5, <2>1 DEF Streams
  <2> HIDE DEF seq, x
  <2>3. y \in Legs /\ y.pc = "producing" /\ y.lease = x.lease /\ y.fence = x.fence
    BY <1>0 DEF Legs, PCs, Beats
  <2> HIDE DEF y
  <2>4. FenceOf(y, stream'.token, issued)
    BY <1>0, <1>3, <2>2, <2>3 DEF FenceOf
  <2>5. ASSUME NEW q \in Producers \ {p} PROVE Behind(y, leg[q], issued) /\ Behind(leg[q], y, issued)
    <3>1. leg[q].fence \in Nat /\ leg[q].lease \in Nat /\ FenceOf(leg[q], stream.token, issued)
      BY LegIs DEF Legs, FenceInv
    <3>2. Behind(leg[q], y, issued)
      BY <1>0, <1>3, <1>6, <2>3, <3>1 DEF Behind, FenceOf
    <3>3. ASSUME y.lease < leg[q].lease, issued[y.lease].era = issued[leg[q].lease].era
          PROVE  y.fence < leg[q].fence
      <4>1. t < issued[leg[q].lease].token
        BY <1>3, <2>3, <3>3, LaterToken DEF x
      <4>2. issued[leg[q].lease].token <= leg[q].fence
        BY <1>0, <2>3, <3>1, <3>3 DEF FenceOf
      <4>3. t \in Nat /\ issued[leg[q].lease].token \in Nat
        <5>1. x.lease \in Grants /\ leg[q].lease \in Grants
          BY <1>0, <1>3, <2>3, <3>1, <3>3 DEF x, JournalShape, Named
        <5> QED BY <5>1, IssuedShape DEF JournalShape, LeaseInv
      <4> QED BY <1>3, <2>3, <3>1, <4>1, <4>2, <4>3
    <3> QED BY <3>2, <3>3 DEF Behind
  <2> QED BY <1>1, <1>2, <2>1, <2>3, <2>4, <2>5, LegIsRaised
<1>7. CASE ~(stream.token <= t)
  <2> DEFINE y == [x EXCEPT !.pc = "checking", !.fence = above]
  <2>1. leg' = [leg EXCEPT ![p] = y]
    BY <1>3, <1>7 DEF Open, Opens, To
  <2>t. above \in Nat /\ stream.token < above
    BY <1>0
  <2> HIDE DEF above, x
  <2>3. y \in Legs /\ y.pc = "checking" /\ y.lease = x.lease /\ y.fence = above /\ y.beat = "none"
    BY <1>0, <1>4, <2>t DEF Legs, PCs, Early, Opening
  <2> HIDE DEF y
  <2>4. FenceOf(y, stream'.token, issued) /\ ~Acts(y)
    <3>1. issued[x.lease].token <= above
      BY <1>0, <1>3, <1>7, <2>t
    <3> QED BY <2>3, <3>1 DEF FenceOf, Acts
  <2>5. ASSUME NEW q \in Producers \ {p} PROVE Behind(y, leg[q], issued) /\ Behind(leg[q], y, issued)
    <3>1. leg[q].fence \in Nat /\ leg[q].lease \in Nat /\ FenceOf(leg[q], stream.token, issued)
      BY LegIs DEF Legs, FenceInv
    <3>2. Behind(leg[q], y, issued)
      BY <1>0, <2>t, <2>3, <3>1 DEF Behind, FenceOf
    <3> QED BY <2>4, <3>2 DEF Behind
  <2> QED BY <1>1, <1>2, <2>1, <2>3, <2>4, <2>5, LegIsRaised
<1> QED BY <1>6, <1>7

\* A leg that gets further in opening, with the fence it has.
LEMMA LegIsUp ==
  ASSUME JournalShape, FenceInv, NEW p \in Producers, NEW y \in Legs,
         leg' = [leg EXCEPT ![p] = y], KeyKept,
         stream'.token \in Nat, stream.token <= stream'.token,
         SameId(leg[p], y), Raised(leg[p]), y.pc # "opening",
         y.fence <= stream'.token,
         Acts(y) => Acts(leg[p]) \/ \A q \in Producers : leg[q].lease <= leg[p].lease
  PROVE  FenceInv'
<1>1. FenceOf(y, stream'.token, issued)
  BY DEF FenceInv, FenceOf, SameId
<1>2. ASSUME NEW q \in Producers \ {p} PROVE Behind(y, leg[q], issued) /\ Behind(leg[q], y, issued)
  <2>1. Behind(leg[q], leg[p], issued) /\ Behind(leg[p], leg[q], issued)
    BY DEF FenceInv
  <2>2. leg[q].lease \in Nat /\ leg[p].lease \in Nat
    BY LegIs DEF Legs
  <2> QED BY <2>1, <2>2 DEF Behind, SameId
<1> QED BY <1>1, <1>2, LegIsRaised

LEMMA ReopenIsRaised ==
  ASSUME JournalShape, FenceInv, NEW p \in Producers, Reopen(p)
  PROVE  FenceInv'
<1> DEFINE x == leg[p]
           seq == LastSeq + 1
<1>0. /\ x \in Legs /\ LegShape(x) /\ x.pc = "reopening" /\ x.fence \in Nat
      /\ stream.token \in Nat /\ seq \in Nat /\ stream \in Streams
  BY LegIs, TokensAreNumbers DEF Legs, Reopen, JournalShape, JournalTypeOK
<1>1. Works(p) /\ KeyKept
  BY WorksKeepKey DEF Works, Steps
<1>2. stream'.token \in Nat /\ stream.token <= stream'.token
  BY <1>1, TokenGrows
<1>4. x.beat = "none"
  BY <1>0 DEF LegShape, Early, Opening
<1>6. CASE stream.token <= x.fence
  <2> DEFINE y == [x EXCEPT !.pc = "confirming", !.seq = seq]
  <2>1. leg' = [leg EXCEPT ![p] = y] /\ stream' = [stream EXCEPT !.token = x.fence]
    BY <1>6 DEF Reopen, Opened, Opens, To, Reopened
  <2>2. stream'.token = x.fence
    BY <1>0, <2>1 DEF Streams
  <2> HIDE DEF seq
  <2>h. leg' = [leg EXCEPT ![p] = y]
    BY <2>1
  <2> HIDE DEF x
  <2>3. y \in Legs /\ y.pc = "confirming" /\ SameId(x, y) /\ y.beat = "none"
    BY <1>0, <1>4 DEF Legs, PCs, Early, Opening, SameId
  <2> HIDE DEF y
  <2>4. ~Acts(y) /\ Raised(x) /\ y.fence <= stream'.token
    BY <1>0, <2>2, <2>3 DEF Acts, Raised, SameId
  <2>5. SameId(leg[p], y) /\ Raised(leg[p]) /\ y.pc # "opening"
    BY <2>3, <2>4 DEF x
  <2> QED BY <1>1, <1>2, <2>h, <2>3, <2>4, <2>5, LegIsUp
<1>7. CASE ~(stream.token <= x.fence)
  <2> DEFINE y == [x EXCEPT !.pc = "refusing"]
  <2>1. leg' = [leg EXCEPT ![p] = y]
    BY <1>7 DEF Reopen, Opens, To
  <2> HIDE DEF x
  <2>3. y \in Legs /\ y.pc = "refusing" /\ SameId(x, y) /\ y.beat = "none"
    BY <1>0, <1>4 DEF Legs, PCs, Early, SameId
  <2> HIDE DEF y
  <2>4. Stays(leg[p], y)
    BY <2>3 DEF Stays, Acts, Raised, x
  <2> QED BY <1>1, <1>2, <2>1, <2>3, <2>4, LegStays
<1> QED BY <1>6, <1>7

\* The holder of the key has its latest lease.
LEMMA HolderIsLatest ==
  ASSUME JournalShape, FenceInv, NEW p \in Producers, leg[p].lease \in Grants,
         SameHolder(leg[p].lease), NEW q \in Producers
  PROVE  leg[q].lease <= leg[p].lease
<1>1. row # NoRow /\ row.grant \in Grants /\ issued[row.grant].owner = row.owner
  BY DEF SameHolder, JournalShape, LeaseInv, RowIsIssued
<1>2. issued[leg[p].lease].owner = row.owner
  BY DEF SameHolder
<1>3. leg[p].lease = row.grant
  BY <1>1, <1>2 DEF JournalShape, Named
<1>4. leg[p].lease = Len(issued)
  BY <1>1, <1>3 DEF FenceInv
<1>5. Grants = 1..Len(issued) /\ Len(issued) \in Nat
  BY IssuedShape DEF JournalShape, LeaseInv
<1>6. leg[q].lease = 0 \/ leg[q].lease \in Grants
  BY DEF JournalShape, Named
<1> QED BY <1>4, <1>5, <1>6

LEMMA ConfirmIsRaised ==
  ASSUME JournalShape, FenceInv, NEW p \in Producers, Confirm(p)
  PROVE  FenceInv'
<1> DEFINE x == leg[p]
<1>0. /\ x \in Legs /\ LegShape(x) /\ x.pc = "confirming" /\ x.fence \in Nat
      /\ stream.token \in Nat /\ stream' = stream
  BY LegIs, TokensAreNumbers DEF Legs, Confirm
<1>1. Works(p) /\ KeyKept
  BY WorksKeepKey DEF Works, Steps
<1>2. stream'.token \in Nat /\ stream.token <= stream'.token
  BY <1>1, TokenGrows
<1>3. x.fence <= stream'.token
  BY <1>0 DEF FenceInv, FenceOf
<1>4. x.beat = "none"
  BY <1>0 DEF LegShape, Early, Opening
<1>5. x.lease \in Grants
  BY <1>0, LeaseOfLeg
<1>6. CASE Renewable(x.lease)
  <2> DEFINE y == [x EXCEPT !.pc = "producing", !.beat = "armed"]
  <2>1. leg' = [leg EXCEPT ![p] = y]
    BY <1>6 DEF Confirm, To
  <2>2. \A q \in Producers : leg[q].lease <= leg[p].lease
    BY <1>5, <1>6, HolderIsLatest DEF Renewable
  <2> HIDE DEF x
  <2>3. y \in Legs /\ y.pc = "producing" /\ SameId(x, y)
    BY <1>0 DEF Legs, PCs, Beats, SameId
  <2> HIDE DEF y
  <2>4. y.fence <= stream'.token /\ SameId(leg[p], y) /\ Raised(leg[p]) /\ y.pc # "opening"
    BY <1>0, <1>3, <2>3 DEF Raised, SameId, x
  <2> QED BY <1>1, <1>2, <2>1, <2>2, <2>3, <2>4, LegIsUp
<1>7. CASE ~Renewable(x.lease)
  <2> DEFINE y == [x EXCEPT !.pc = "refusing"]
  <2>1. leg' = [leg EXCEPT ![p] = y]
    BY <1>7 DEF Confirm, To
  <2> HIDE DEF x
  <2>3. y \in Legs /\ y.pc = "refusing" /\ SameId(x, y) /\ y.beat = "none"
    BY <1>0, <1>4 DEF Legs, PCs, Early, SameId
  <2> HIDE DEF y
  <2>4. Stays(leg[p], y)
    BY <2>3 DEF Stays, Acts, Raised, x
  <2> QED BY <1>1, <1>2, <2>1, <2>3, <2>4, LegStays
<1> QED BY <1>6, <1>7

LEMMA WorksFence ==
  ASSUME JournalShape, FenceInv, NEW p \in Producers, Works(p)
  PROVE  FenceInv'
<1>1. CASE Open(p) \/ Reopen(p) \/ Confirm(p)
  BY <1>1, OpenIsRaised, ReopenIsRaised, ConfirmIsRaised
<1>2. CASE ~Open(p) /\ ~Reopen(p) /\ ~Confirm(p)
  <2>1. PICK y \in Legs : leg' = [leg EXCEPT ![p] = y] /\ Stays(leg[p], y)
    BY <1>2, WorksStay
  <2> QED BY <2>1, WorksKeepKey, TokenGrows, LegStays
<1> QED BY <1>1, <1>2

\* What one leg and its lease say is not changed by a lease handed out later.
LEMMA TakeFences ==
  ASSUME JournalShape, FenceInv, NEW p \in Producers, Take(p)
  PROVE  FenceInv'
<1> DEFINE n == Len(issued) + 1
           lease == [owner |-> p, token |-> NextToken, era |-> era]
<1>s. JournalShape'
  BY TakeKeepsShape
<1>0. /\ LeaseTypeOK /\ LeaseInv /\ Acquire(p) /\ stream' = stream /\ leg[p].pc = "idle"
  BY DEF JournalShape, LeaseInv, Take
<1>1. row'.grant = n /\ issued' = Append(issued, lease) /\ issued \in Seq(Leases)
  BY <1>0 DEF Acquire, LeaseTypeOK
<1>2. Grants = 1..Len(issued) /\ Len(issued) \in Nat
  BY <1>0, IssuedShape
<1>t. lease.token = NextToken /\ lease.era = era
  OBVIOUS
<1> HIDE DEF lease
<1>3. /\ Grants' = 1..n /\ Len(issued') = n /\ issued'[n] = lease /\ n \in Nat
      /\ \A g \in Grants : g \in Grants' /\ issued'[g] = issued[g] /\ g < n /\ g \in Nat
      /\ \A g \in Grants' : g \in Grants \/ g = n
  BY <1>1, <1>2 DEF Grants
<1> HIDE DEF n
<1>4. row' # NoRow => row'.grant = Len(issued')
  BY <1>1, <1>3
\* The new token is the highest of its era.
<1>5. \A g \in Grants : issued[g].era = era => issued[g].token < NextToken
  <2> SUFFICES ASSUME NEW g \in Grants, issued[g].era = era PROVE issued[g].token < NextToken
    OBVIOUS
  <2>1. row # NoRow /\ issued[g].token <= row.token
    BY <1>0 DEF LeaseInv, TokensGrow
  <2>2. row.token \in Nat /\ issued[g].token \in Nat
    BY <1>0, <2>1, RowShape, IssuedShape DEF LeaseTypeOK
  <2> QED BY <2>1, <2>2 DEF NextToken
<1>6. \A g, h \in Grants' : g < h /\ issued'[g].era = issued'[h].era => issued'[g].token < issued'[h].token
  <2> SUFFICES ASSUME NEW g \in Grants', NEW h \in Grants', g < h, issued'[g].era = issued'[h].era
               PROVE  issued'[g].token < issued'[h].token
    OBVIOUS
  <2>1. g \in Grants
    BY <1>3
  <2>2. CASE h = n
    BY <1>3, <1>5, <1>t, <2>1, <2>2
  <2>3. CASE h \in Grants
    BY <1>3, <2>1, <2>3 DEF FenceInv
  <2> QED BY <1>3, <2>2, <2>3
<1>7. PICK y \in Legs : /\ leg' = [leg EXCEPT ![p] = y]
                        /\ FenceOf(y, stream.token, issued') /\ ~Acts(y) /\ ~Raised(y)
  <2>1. CASE LegTakes(p)
    <3>1. PICK y \in Legs : /\ leg' = [leg EXCEPT ![p] = y] /\ Takes(leg[p], y) /\ Duty(leg[p], y)
                            /\ y.lease = n /\ y.fence = NextToken
      BY <2>1 DEF LegTakes, n
    <3>2. leg[p].beat = "none" /\ y.pc = "opening"
      BY <1>0, <3>1, LegIs DEF LegShape, Early, Takes
    <3>3. y.beat = "none"
      BY <3>1, <3>2 DEF Duty
    <3>4. ~Acts(y) /\ ~Raised(y)
      BY <3>2, <3>3 DEF Acts, Raised
    <3>5. NextToken \in Nat
      BY TokensAreNumbers
    <3>6. FenceOf(y, stream.token, issued')
      BY <1>3, <1>t, <3>1, <3>2, <3>4, <3>5 DEF FenceOf
    <3> QED BY <3>1, <3>4, <3>6
  <2>2. CASE LegMoves(p)
    <3>1. PICK y \in Legs : leg' = [leg EXCEPT ![p] = y] /\ Moves(leg[p], y)
      BY <2>2 DEF LegMoves
    <3>2. leg[p] \in Legs /\ leg[p].lease = 0
      BY <1>0, LegIs DEF LegShape
    <3>3. y.lease = 0
      BY <3>1, <3>2, MovesKeepName
    <3>4. leg'[p] = y
      BY <3>1 DEF JournalShape, JournalTypeOK
    <3>5. LegShape(y)
      BY <1>s, <3>4 DEF JournalShape
    <3>6. y.pc \in {"idle", "closed", "dead"} /\ y.beat = "none"
      BY <3>3, <3>5 DEF LegShape
    <3>7. FenceOf(y, stream.token, issued') /\ ~Acts(y) /\ ~Raised(y)
      BY <3>3, <3>6 DEF FenceOf, Acts, Raised
    <3> QED BY <3>1, <3>7
  <2> QED BY <2>1, <2>2, OpeningMoves
<1>8. \A q \in Producers : leg'[q] = IF q = p THEN y ELSE leg[q]
  BY <1>7, LegsThen
<1>9. \A q \in Producers : leg[q].lease # 0 => issued'[leg[q].lease] = issued[leg[q].lease]
  BY <1>3 DEF JournalShape, Named
<1>10. \A q \in Producers : FenceOf(leg'[q], stream'.token, issued')
  <2> TAKE q \in Producers
  <2>1. CASE q = p
    BY <1>0, <1>7, <1>8, <2>1
  <2>2. CASE q # p
    <3>1. leg'[q] = leg[q] /\ FenceOf(leg[q], stream.token, issued)
      BY <1>8, <2>2 DEF FenceInv
    <3>2. leg[q].pc = "opening" => leg[q].lease # 0
      BY LegIs DEF LegShape
    <3> QED BY <1>0, <1>9, <3>1, <3>2 DEF FenceOf
  <2> QED BY <2>1, <2>2
<1>11. \A q, r \in Producers : Behind(leg'[q], leg'[r], issued')
  <2> TAKE q, r \in Producers
  <2>1. CASE q = p \/ r = p
    BY <1>7, <1>8, <2>1 DEF Behind
  <2>2. CASE q # p /\ r # p
    <3>1. leg'[q] = leg[q] /\ leg'[r] = leg[r] /\ Behind(leg[q], leg[r], issued)
      BY <1>8, <2>2 DEF FenceInv
    <3>2. Acts(leg[q]) => leg[q].lease # 0
      BY LegIs DEF LegShape, Acts
    <3>3. Raised(leg[r]) => leg[r].lease # 0
      BY LegIs DEF LegShape, Acts, Raised
    <3> QED BY <1>9, <3>1, <3>2, <3>3 DEF Behind
  <2> QED BY <2>1, <2>2
<1> QED BY <1>4, <1>6, <1>10, <1>11 DEF FenceInv

LEMMA FenceStep ==
  JournalShape /\ FenceInv /\ [JournalNext]_journalVars => FenceInv'
<1> SUFFICES ASSUME JournalShape, FenceInv, [JournalNext]_journalVars PROVE FenceInv'
  OBVIOUS
<1>1. ASSUME \/ \E before \in 1..(MaxClock + Ttl) : JournalPrune(before)
             \/ JournalTick \/ UNCHANGED journalVars
      PROVE  FenceInv'
  <2>1. UNCHANGED <<leg, stream, issued>>
    BY <1>1, WorldKeepsShape
  <2>2. row' = NoRow \/ UNCHANGED row
    BY <1>1 DEF JournalPrune, JournalTick, journalVars, Prune, Tick, leaseVars
  <2> QED BY <2>1, <2>2 DEF FenceInv, Grants
<1> QED BY <1>1, StepsAre, TakeFences, WorksFence

LEMMA FenceInit == JournalInit => FenceInv
<1> SUFFICES ASSUME JournalInit PROVE FenceInv
  OBVIOUS
<1>1. row = NoRow /\ issued = <<>>
  BY DEF JournalInit, LeaseInit, Unused
<1>2. \A p \in Producers : leg[p].pc = "idle" /\ leg[p].lease = 0 /\ leg[p].beat = "none"
  BY DEF JournalInit, NoLeg
<1> QED BY <1>1, <1>2 DEF FenceInv, FenceOf, Behind, Acts, Raised, Grants

\* Only the leg that commits adds records, all of them its own.
LEMMA StoredByOne ==
  ASSUME JournalShape, NEW p \in Producers, NEW q \in Producers, q # p, Stores(q, leg[q])
  PROVE  StoredBy(p)' = StoredBy(p)
<1> DEFINE s == stream.records
           t == Landing(q, leg[q])
<1>1. s \in Seq([by : Producers, kind : {"part", "done"}])
  BY DEF JournalShape, JournalTypeOK, Streams
<1>2. t \in Seq([by : Producers, kind : {"part", "done"}]) /\ \A j \in DOMAIN t : t[j].by = q
  <2> DEFINE r == Records(leg[q].batch)
  <2>1. leg[q] \in Legs
    BY LegIs
  <2>2. /\ t \in Seq([by : Producers, kind : {"part", "done"}])
        /\ Len(t) = Len(r)
        /\ \A j \in 1..Len(r) : t[j] = [by |-> q, kind |-> r[j].kind]
    BY <2>1, LandingIs
  <2> HIDE DEF t, r
  <2>3. DOMAIN t = 1..Len(r)
    <3>1. t \in Seq([by : Producers, kind : {"part", "done"}]) /\ Len(t) = Len(r)
      BY <2>2
    <3> QED BY <3>1
  <2>4. \A j \in 1..Len(r) : t[j].by = q
    <3> TAKE j \in 1..Len(r)
    <3>1. t[j] = [by |-> q, kind |-> r[j].kind]
      BY <2>2
    <3> QED BY <3>1
  <2> QED BY <2>2, <2>3, <2>4
<1>3. stream'.records = s \o t
  BY DEF Stores
<1> HIDE DEF s, t
<1>4. /\ DOMAIN (s \o t) = 1..(Len(s) + Len(t)) /\ DOMAIN s = 1..Len(s) /\ DOMAIN t = 1..Len(t)
      /\ Len(s) \in Nat /\ Len(t) \in Nat
      /\ \A i \in 1..Len(s) : (s \o t)[i] = s[i]
      /\ \A i \in (Len(s) + 1)..(Len(s) + Len(t)) : (s \o t)[i] = t[i - Len(s)]
  BY <1>1, <1>2
<1>5. \A i \in (Len(s) + 1)..(Len(s) + Len(t)) : (s \o t)[i].by = q
  <2> TAKE i \in (Len(s) + 1)..(Len(s) + Len(t))
  <2>1. i - Len(s) \in DOMAIN t
    BY <1>4
  <2> QED BY <1>2, <1>4, <2>1
<1>6. \A i : i \in DOMAIN (s \o t) /\ (s \o t)[i].by = p <=> i \in DOMAIN s /\ s[i].by = p
  BY <1>4, <1>5
<1> QED BY <1>3, <1>6 DEF StoredBy, s

LEMMA OlderIsRefused ==
  JournalShape /\ FenceInv /\ [JournalNext]_journalVars
    => [\A p, q \in Producers :
          Follows(q, p) /\ ~CaughtUp(q, p) => StoredBy(p)' = StoredBy(p)]_journalVars
<1> SUFFICES ASSUME JournalShape, FenceInv, [JournalNext]_journalVars,
                    NEW p \in Producers, NEW q \in Producers,
                    Follows(q, p), ~CaughtUp(q, p)
             PROVE  StoredBy(p)' = StoredBy(p)
  OBVIOUS
<1>1. ASSUME stream'.records = stream.records PROVE StoredBy(p)' = StoredBy(p)
  BY <1>1 DEF StoredBy
<1>2. ASSUME Stores(p, leg[p]), leg[p].commit = "sent" PROVE FALSE
  <2>1. leg[p].pc \in {"producing", "ending", "halted"} /\ leg[p].fence \in Nat
        /\ leg[q].fence \in Nat /\ leg[p].lease \in Nat /\ leg[q].lease \in Nat
        /\ stream.token \in Nat
    BY <1>2, LegIs, TokensAreNumbers DEF LegShape, Legs
  <2>2. Acts(leg[p]) /\ Acts(leg[q]) /\ Raised(leg[q])
    BY <2>1 DEF Acts, Raised, Follows, IsOpen
  <2>3. leg[q].fence <= stream.token
    BY <2>2 DEF FenceInv, FenceOf
  <2>4. stream.token <= leg[p].fence
    BY <1>2 DEF Stores
  <2>5. leg[p].fence < leg[q].fence \/ CaughtUp(q, p)
    <3>1. Behind(leg[p], leg[q], issued)
      BY DEF FenceInv
    <3>2. leg[p].lease < leg[q].lease /\ issued[leg[p].lease].era = issued[leg[q].lease].era
      BY <2>1 DEF Follows
    <3> QED BY <2>2, <3>1, <3>2 DEF Behind, CaughtUp
  <2> QED BY <2>1, <2>3, <2>4, <2>5
<1>3. ASSUME NEW r \in Producers, Take(r) PROVE StoredBy(p)' = StoredBy(p)
  BY <1>1, <1>3 DEF Take
<1>4. ASSUME NEW r \in Producers, Works(r) PROVE StoredBy(p)' = StoredBy(p)
  <2>1. CASE StreamOpens
    BY <1>1, <2>1 DEF StreamOpens
  <2>2. CASE LegLands(r)
    <3>1. leg[r].commit = "sent" /\ (Stores(r, leg[r]) \/ stream' = stream)
      BY <2>2 DEF LegLands, Lands
    <3>2. CASE r = p
      BY <1>1, <1>2, <3>1, <3>2
    <3>3. CASE r # p
      BY <1>1, <3>1, <3>3, StoredByOne
    <3> QED BY <3>2, <3>3
  <2> QED BY <1>4, <2>1, <2>2, WorksMove
<1>5. ASSUME UNCHANGED stream PROVE StoredBy(p)' = StoredBy(p)
  BY <1>1, <1>5
<1> QED BY <1>3, <1>4, <1>5, StepsAre, WorldKeepsShape

\* A commit of an earlier holder of the key is refused once a later one opened
\* the stream, unless the later one's token happens to be the fence the earlier
\* one derived (internal/durable-journal.ts:126-161).
THEOREM OlderRefused == JournalSpec => OlderFenceIsRefused
<1>1. JournalShape /\ FenceInv /\ [JournalNext]_journalVars => (JournalShape /\ FenceInv)'
  BY ShapeStep, FenceStep
<1> QED BY <1>1, ShapeInit, FenceInit, OlderIsRefused, PTL DEF JournalSpec, OlderFenceIsRefused

\* A stream is stored by one leg at a time, and only by the latest to open it,
\* that one coincidence aside.
THEOREM OneAtATime == JournalSpec => OneLegAtATime
BY DoNotInterleave, OlderRefused, PTL DEF OneLegAtATime

=============================================================================

--------------------------------- MODULE CacheFeedProofs ---------------------------------
(***************************************************************************)
(* Proofs about CacheFeed, for any objects, attempts, changes and errors.  *)
(* The batches of events on their way to the cache of a session tell, each *)
(* from its token to the next one, all that has changed on the server; the *)
(* rest is what the cache shows.                                           *)
(***************************************************************************)
EXTENDS CacheFeed, SequenceTheorems, FiniteSetTheorems, WellFoundedInduction, TLAPS

\* The batches of events on their way, in the order in which they will be applied.
Stream == updating \o eventQueue \o InMainq
Batches == Range(Stream)
MineOf(s, g) == {b \in Range(s) : b.of = g}
Mine == MineOf(Stream, task)

Job == [of : Gens, token : 0..MaxChanges]
Reply == [token : 0..MaxChanges, events : SUBSET (1..MaxChanges)]
Jobs(p) == pollers[p].jobs
OfPoller(p, g) == pollers[p].of = g \/ \E k \in DOMAIN Jobs(p) : Jobs(p)[k].of = g

LastOf(r, t) == M!Last(log, r, t)
State(r, t) == M!StateAt(log, r, t)
FreshAt(r, t) == M!Fresh(log, r, cache[r], t)

TypeInv ==
  /\ TypeOK
  /\ \A g \in Gens : pollers[g].at \in {"from", "answered"} =>
       pollers[g].of # 0 /\ pollers[g].errors < MAX_CONSECUTIVE_ERRORS

\* What is told is in the log.
LoggedBatch(b) ==
  /\ b.token <= Now
  /\ \A i \in b.events : i \in 1..b.token /\ i = LastOf(log[i].ref, b.token)

Logged ==
  /\ \A b \in Batches : LoggedBatch(b)
  /\ token <= Now
  /\ \A g \in Gens : pollers[g].token <= Now /\ \A k \in DOMAIN Jobs(g) : Jobs(g)[k].token <= Now
  /\ \A r \in Ref : cache[r] <= Now

\* What a poller has in its hands is what has changed between its token and the answer's.
SinceAt(c, t, now) ==
  IF t = 0 THEN {M!StateAt(c, r, now) : r \in Ref} \ {0}
  ELSE {i \in t+1..now : i = M!Last(c, c[i].ref, now)}

Answered(g) ==
  /\ pollers[g].token < pollers[g].reply.token /\ pollers[g].reply.token <= Now
  /\ pollers[g].reply.events = SinceAt(log, pollers[g].token, pollers[g].reply.token)

Answers == \A g \in Gens : pollers[g].at = "answered" => Answered(g)

Attempt ==
  /\ connected => task # 0
  /\ task # 0 => task = attempts /\ \A k \in DOMAIN mainq : mainq[k].kind # "clear"
  /\ thread # "none" => attempts # 0
  /\ thread = "login" => ~connected
  /\ connected /\ thread = "none" => poller # 0

\* The attempts that pollers, jobs and batches are of.
Began(g) == g <= attempts /\ (thread # "none" => g < attempts)

Generations ==
  /\ \A b \in Batches : Began(b.of)
  /\ \A p, g \in Gens : OfPoller(p, g) => Began(g)
  /\ \A p \in Gens : ~Began(p) => pollers[p] = NoPoller("none")
  /\ poller # 0 => pollers[poller].at \in {"idle", "from", "answered"} /\ ~pollers[poller].quit
  /\ task # 0 => \A p \in Gens \ {poller} : ~OfPoller(p, task)

\* While the session loads, only what it has loaded is vouched for.
Loading ==
  connected /\ thread \in {"load", "consoles"} =>
    \A r \in Ref \ (uncovered \cup unread) :
      IF thread = "load" \/ token = 0 THEN cache[r] = 0 ELSE FreshAt(r, token)

\* The poller of a session works for it, or will when it has taken its last job.
Serves ==
  IF Jobs(poller) = <<>> THEN pollers[poller].of = task
  ELSE /\ pollers[poller].of # task
       /\ \A k \in DOMAIN Jobs(poller) : Jobs(poller)[k].of = task <=> k = Len(Jobs(poller))
       /\ Mine = {}

\* The batches come in the order of their tokens,
InOrder(s, g) ==
  \A j, k \in DOMAIN s : s[j].of = g /\ s[k].of = g /\ j < k => s[j].token < s[k].token
Ordered == InOrder(Stream, task)

Between ==
  /\ applied <= Token /\ Token <= Now
  /\ \A b \in Mine : applied < b.token /\ b.token <= Token
  /\ \A b, c \in Mine : b.token < c.token => \A i \in c.events : b.token < i

\* and tell all that has changed from one to the next
Marks == {b.token : b \in Mine} \cup {Token}
ToldBy(r, t) == \E b \in Mine : b.token <= t /\ LastOf(r, t) \in b.events

NoneLeftOut ==
  \A b \in Mine, t \in Marks, r \in Ref : b.token < LastOf(r, t) /\ b.token < t => ToldBy(r, t)

\* or that the cache does not show.
Shown ==
  /\ \A r \in Vouched : FreshAt(r, applied)
  /\ \A r \in Vouched, t \in Marks : ToldBy(r, t) \/ FreshAt(r, t)
  /\ Token = 0 => \A r \in Vouched : cache[r] = 0

FeedInv == Serves /\ Ordered /\ Between /\ NoneLeftOut /\ Shown

IInv ==
  /\ TypeInv /\ Logged /\ Answers /\ Attempt /\ Generations /\ Loading
  /\ Connected => FeedInv

---------------------------------------------------------------------------------
\* A set of numbers up to n has a greatest one, for their distances to n have a least.
LEMMA HasMax ==
  ASSUME NEW n \in Nat, NEW S \in SUBSET (1..n), S # {}
  PROVE  \E m \in S : \A i \in S : i <= m
<1> DEFINE R == OpToRel(<, Nat)
           T == {n - i : i \in S}
<1>1. IsWellFoundedOn(R, Nat)
  BY NatLessThanWellFounded
<1>2. \A x, y \in Nat : y < x => <<y, x>> \in R
  BY DEF OpToRel
<1> HIDE DEF R
<1>3. T \subseteq Nat /\ T # {}
  <2>1. \A i \in S : n - i \in Nat
    OBVIOUS
  <2>2. QED
    BY <2>1
<1>4. PICK x \in T : \A y \in T : ~(<<y, x>> \in R)
  BY <1>1, <1>3, WFMin
<1>5. PICK m \in S : x = n - m
  BY <1>4
<1>6. ASSUME NEW i \in S PROVE i <= m
  <2>1. n - i \in T /\ n - i \in Nat /\ n - m \in Nat
    OBVIOUS
  <2>2. ~(n - i < n - m)
    BY <1>2, <1>3, <1>4, <1>5, <2>1
  <2>3. QED
    BY <2>2
<1>7. QED
  BY <1>6

\* The last change of an object among the first t is the greatest of its changes.
LEMMA LastIs ==
  ASSUME NEW c, NEW r, NEW t \in Nat
  PROVE  /\ M!Last(c, r, t) \in 0..t
         /\ M!Last(c, r, t) # 0 => c[M!Last(c, r, t)].ref = r
         /\ \A i \in 1..t : c[i].ref = r => i <= M!Last(c, r, t)
<1> DEFINE before == {i \in 1..t : c[i].ref = r}
<1>1. CASE before = {}
  BY <1>1 DEF M!Last
<1>2. CASE before # {}
  <2>1. \E m \in before : \A i \in before : i <= m
    BY <1>2, HasMax
  <2>2. /\ M!Last(c, r, t) = CHOOSE x \in before : \A y \in before : x >= y
        /\ before \in SUBSET (1..t)
    BY <1>2 DEF M!Last, M!Max
  <2> HIDE DEF before
  <2>3. M!Last(c, r, t) \in before /\ \A i \in before : M!Last(c, r, t) >= i
    BY <2>1, <2>2
  <2>4. QED
    BY <2>2, <2>3 DEF before
<1>3. QED
  BY <1>1, <1>2

\* It is determined by that.
LEMMA LastFrom ==
  ASSUME NEW c, NEW r, NEW t \in Nat, NEW m \in 0..t, m # 0 => c[m].ref = r,
         \A i \in 1..t : c[i].ref = r => i <= m
  PROVE  M!Last(c, r, t) = m
<1>1. m # 0 => m <= M!Last(c, r, t)
  BY LastIs
<1>2. M!Last(c, r, t) # 0 => M!Last(c, r, t) <= m
  BY LastIs
<1>3. QED
  BY <1>1, <1>2, LastIs

\* A longer prefix has a later last change, or the same.
LEMMA LastGrows ==
  ASSUME NEW c, NEW r, NEW t \in Nat, NEW u \in Nat, t <= u
  PROVE  /\ M!Last(c, r, t) <= M!Last(c, r, u)
         /\ M!Last(c, r, u) <= t => M!Last(c, r, u) = M!Last(c, r, t)
<1> DEFINE m == M!Last(c, r, t)
           n == M!Last(c, r, u)
<1>1. m \in 0..t /\ n \in 0..u /\ (m # 0 => c[m].ref = r) /\ (n # 0 => c[n].ref = r)
      /\ (\A i \in 1..t : c[i].ref = r => i <= m) /\ (\A i \in 1..u : c[i].ref = r => i <= n)
  BY LastIs
<1> HIDE DEF m, n
<1>2. m <= n
  BY <1>1
<1>3. n <= t => n <= m
  BY <1>1
<1>4. QED
  BY <1>1, <1>2, <1>3 DEF m, n

\* The state of an object is 0 or its last change, and both are in the log.
LEMMA StateIs ==
  ASSUME NEW c, NEW r, NEW t \in Nat
  PROVE  /\ M!StateAt(c, r, t) = 0 \/ M!StateAt(c, r, t) = M!Last(c, r, t)
         /\ M!StateAt(c, r, t) \in 0..t
         /\ M!Last(c, r, t) = 0 => M!StateAt(c, r, t) = 0
  BY LastIs DEF M!StateAt

LEMMA SameState ==
  ASSUME NEW c, NEW r, NEW t, NEW u, M!Last(c, r, t) = M!Last(c, r, u)
  PROVE  M!StateAt(c, r, t) = M!StateAt(c, r, u)
  BY DEF M!StateAt

\* What is as it was at or after t is so earlier, and later while nothing has changed.
LEMMA FreshIs ==
  ASSUME NEW c, Len(c) \in Nat, NEW r, NEW s, NEW t \in Nat, M!Fresh(c, r, s, t)
  PROVE  /\ t <= Len(c) /\ s \in 0..Len(c)
         /\ \A u \in 0..t : M!Fresh(c, r, s, u)
         /\ \A u \in t..Len(c) : M!Last(c, r, u) <= t => M!Fresh(c, r, s, u)
<1>1. PICK v \in t..Len(c) : s = M!StateAt(c, r, v)
  BY DEF M!Fresh
<1>2. t <= Len(c) /\ s \in 0..Len(c) /\ \A u \in 0..v : M!Fresh(c, r, s, u)
  BY <1>1, StateIs DEF M!Fresh
<1>3. ASSUME NEW u \in t..Len(c), M!Last(c, r, u) <= t, ~(u <= v) PROVE M!Fresh(c, r, s, u)
  <2>1. M!Last(c, r, v) = M!Last(c, r, u)
    BY <1>1, <1>3, LastGrows, LastIs
  <2>2. s = M!StateAt(c, r, u)
    BY <1>1, <2>1, SameState
  <2>3. QED
    BY <2>2 DEF M!Fresh
<1>4. QED
  BY <1>1, <1>2, <1>3

LEMMA FreshNow ==
  ASSUME NEW c, NEW r, NEW u \in Nat, u <= Len(c), Len(c) \in Nat, NEW t \in 0..u
  PROVE  M!Fresh(c, r, M!StateAt(c, r, u), t)
  BY DEF M!Fresh

\* A log that gets longer keeps all that.
LEMMA Longer ==
  ASSUME NEW c \in Seq(M!Change), NEW d \in M!Change, NEW r, NEW t \in 0..Len(c)
  PROVE  /\ M!Last(Append(c, d), r, t) = M!Last(c, r, t)
         /\ M!StateAt(Append(c, d), r, t) = M!StateAt(c, r, t)
         /\ \A s : M!Fresh(c, r, s, t) => M!Fresh(Append(c, d), r, s, t)
         /\ Len(Append(c, d)) = Len(c) + 1 /\ \A i \in 1..Len(c) : Append(c, d)[i] = c[i]
<1> DEFINE e == Append(c, d)
<1>1. Len(c) \in Nat /\ Len(e) = Len(c) + 1 /\ \A i \in 1..Len(c) : e[i] = c[i]
  BY AppendProperties, LenProperties
<1> HIDE DEF e
<1>2. ASSUME NEW u \in 0..Len(c)
      PROVE  M!Last(e, r, u) = M!Last(c, r, u) /\ M!StateAt(e, r, u) = M!StateAt(c, r, u)
  <2> DEFINE m == M!Last(c, r, u)
  <2>1. m \in 0..u /\ (m # 0 => c[m].ref = r) /\ \A i \in 1..u : c[i].ref = r => i <= m
    BY <1>1, LastIs
  <2> HIDE DEF m
  <2>2. (m # 0 => e[m] = c[m]) /\ \A i \in 1..u : e[i] = c[i]
    BY <1>1, <2>1
  <2>3. M!Last(e, r, u) = m
    BY <1>1, <2>1, <2>2, LastFrom
  <2>4. M!StateAt(e, r, u) = M!StateAt(c, r, u)
    BY <2>2, <2>3 DEF M!StateAt, m
  <2>5. QED
    BY <2>3, <2>4 DEF m
<1>3. ASSUME NEW s, M!Fresh(c, r, s, t) PROVE M!Fresh(e, r, s, t)
  <2>1. PICK u \in t..Len(c) : s = M!StateAt(c, r, u)
    BY <1>3 DEF M!Fresh
  <2>2. u \in t..Len(e) /\ s = M!StateAt(e, r, u)
    BY <1>1, <1>2, <2>1
  <2>3. QED
    BY <2>2 DEF M!Fresh
<1>4. QED
  BY <1>1, <1>2, <1>3 DEF e

---------------------------------------------------------------------------------
\* What the main thread's queue looks like as batches, and as part of the stream.
SBatch == [of : {0} \cup Gens, token : 0..MaxChanges, events : SUBSET (1..MaxChanges)]
NoBatch == [of |-> 0, token |-> 0, events |-> {}]
BatchOf(m) == IF m.kind = "events" THEN m.batch ELSE NoBatch
Queues == mainq \in Seq(Posted) /\ updating \in Seq(Batch) /\ eventQueue \in Seq(Batch)

LEMMA BatchesOfIs ==
  ASSUME NEW q \in Seq(Posted)
  PROVE  /\ BatchesOf(q) \in Seq(SBatch) /\ Len(BatchesOf(q)) = Len(q) /\ Len(q) \in Nat
         /\ \A k \in 1..Len(q) : BatchesOf(q)[k] = BatchOf(q[k])
         /\ \A m \in Posted : BatchOf(m) \in SBatch
<1>1. /\ Len(q) \in Nat /\ DOMAIN q = 1..Len(q)
      /\ \A k \in 1..Len(q) : q[k] \in Posted
  BY LenProperties, ElementOfSeq
<1>2. NoBatch \in SBatch
  BY FeedAssumption DEF NoBatch, SBatch
<1>3. \A m \in Posted : BatchOf(m) \in SBatch
  BY <1>2 DEF BatchOf, Posted, Batch, SBatch
<1>4. BatchesOf(q) = [k \in 1..Len(q) |-> BatchOf(q[k])]
  BY <1>1 DEF BatchesOf, BatchOf, NoBatch
<1> HIDE DEF BatchesOf
<1>5. BatchesOf(q) \in [1..Len(q) -> SBatch]
  BY <1>1, <1>3, <1>4
<1>6. BatchesOf(q) \in Seq(SBatch)
  BY <1>1, <1>5, SeqDef
<1>7. DOMAIN BatchesOf(q) = 1..Len(q) /\ Len(BatchesOf(q)) = Len(q)
  BY <1>1, <1>5, <1>6, LenProperties
<1>8. QED
  BY <1>1, <1>3, <1>4, <1>6, <1>7

\* A message is posted, or the first one is taken.
LEMMA BatchesOfAppend ==
  ASSUME NEW q \in Seq(Posted), NEW m \in Posted
  PROVE  /\ Append(q, m) \in Seq(Posted)
         /\ BatchesOf(Append(q, m)) = Append(BatchesOf(q), BatchOf(m))
<1> DEFINE p == Append(q, m)
           b == BatchesOf(q)
           n == Len(q)
<1>1. /\ p \in Seq(Posted) /\ Len(p) = n + 1 /\ p[n + 1] = m
      /\ \A k \in 1..n : p[k] = q[k]
  BY AppendProperties
<1>2. /\ b \in Seq(SBatch) /\ Len(b) = n /\ n \in Nat /\ BatchOf(m) \in SBatch
      /\ \A k \in 1..n : b[k] = BatchOf(q[k])
  BY BatchesOfIs
<1> HIDE DEF p, b, n
<1>3. /\ BatchesOf(p) \in Seq(SBatch) /\ Len(BatchesOf(p)) = n + 1
      /\ \A k \in 1..n+1 : BatchesOf(p)[k] = BatchOf(p[k])
  BY <1>1, BatchesOfIs
<1>4. /\ Append(b, BatchOf(m)) \in Seq(SBatch) /\ Len(Append(b, BatchOf(m))) = n + 1
      /\ \A k \in 1..n : Append(b, BatchOf(m))[k] = b[k]
      /\ Append(b, BatchOf(m))[n + 1] = BatchOf(m)
  BY <1>2, AppendProperties
<1>5. \A k \in 1..n+1 : BatchesOf(p)[k] = Append(b, BatchOf(m))[k]
  BY <1>1, <1>2, <1>3, <1>4
<1>6. BatchesOf(p) = Append(b, BatchOf(m))
  BY <1>3, <1>4, <1>5, SeqEqual
<1>7. QED
  BY <1>1, <1>6 DEF p, b

LEMMA BatchesOfTail ==
  ASSUME NEW q \in Seq(Posted), q # <<>>
  PROVE  /\ Tail(q) \in Seq(Posted) /\ Head(q) \in Posted
         /\ BatchesOf(q) = <<BatchOf(Head(q))>> \o BatchesOf(Tail(q))
<1> DEFINE p == Tail(q)
           b == BatchesOf(q)
           n == Len(q)
           h == BatchOf(Head(q))
           c == BatchesOf(p)
<1>1. /\ p \in Seq(Posted) /\ Len(p) = n - 1 /\ Head(q) = q[1] /\ Head(q) \in Posted
      /\ n \in Nat \ {0} /\ \A k \in 1..n-1 : p[k] = q[k + 1]
  BY EmptySeq, HeadTailProperties
<1>2. /\ b \in Seq(SBatch) /\ Len(b) = n /\ h \in SBatch
      /\ \A k \in 1..n : b[k] = BatchOf(q[k])
  BY <1>1, BatchesOfIs
<1> HIDE DEF p, b, n
<1>3. c \in Seq(SBatch) /\ Len(c) = n - 1 /\ \A k \in 1..n-1 : c[k] = BatchOf(p[k])
  BY <1>1, BatchesOfIs
<1>4. h = b[1]
  BY <1>1, <1>2
<1> HIDE DEF h, c
<1>5. <<h>> \in Seq(SBatch) /\ Len(<<h>>) = 1 /\ <<h>>[1] = h
  BY <1>2
<1>6. /\ <<h>> \o c \in Seq(SBatch) /\ Len(<<h>> \o c) = n
      /\ \A k \in 1..n : (<<h>> \o c)[k] = IF k <= 1 THEN h ELSE c[k - 1]
  <2>1. Len(<<h>>) + Len(c) = n
    BY <1>1, <1>3, <1>5
  <2>2. /\ <<h>> \o c \in Seq(SBatch) /\ Len(<<h>> \o c) = Len(<<h>>) + Len(c)
        /\ \A k \in 1..(Len(<<h>>) + Len(c)) :
             (<<h>> \o c)[k] = IF k <= Len(<<h>>) THEN <<h>>[k] ELSE c[k - Len(<<h>>)]
    BY <1>3, <1>5, ConcatProperties
  <2>3. QED
    BY <1>1, <1>5, <2>1, <2>2
<1>7. \A k \in 1..n : b[k] = (<<h>> \o c)[k]
  <2> SUFFICES ASSUME NEW k \in 1..n PROVE b[k] = (<<h>> \o c)[k]
    OBVIOUS
  <2>1. CASE k = 1
    BY <1>4, <1>6, <2>1
  <2>2. CASE k # 1
    <3>1. k - 1 \in 1..n-1 /\ k - 1 + 1 = k
      BY <1>1, <2>2
    <3>2. c[k - 1] = BatchOf(q[k])
      BY <1>1, <1>3, <3>1
    <3>3. QED
      BY <1>1, <1>2, <1>6, <2>2, <3>2
  <2>3. QED
    BY <2>1, <2>2
<1>8. b = <<h>> \o c
  BY <1>2, <1>6, <1>7, SeqEqual
<1>9. QED
  BY <1>1, <1>8 DEF p, b, c, h

LEMMA StreamIs ==
  ASSUME Queues
  PROVE  /\ updating \in Seq(SBatch) /\ eventQueue \in Seq(SBatch) /\ InMainq \in Seq(SBatch)
         /\ updating \o eventQueue \in Seq(SBatch) /\ Stream \in Seq(SBatch)
         /\ Len(Stream) \in Nat /\ DOMAIN Stream = 1..Len(Stream)
         /\ Batches \in SUBSET SBatch
         /\ Batches = Range(updating) \cup Range(eventQueue) \cup Range(InMainq)
<1>1. Batch \subseteq SBatch
  BY DEF Batch, SBatch
<1>2. updating \in Seq(SBatch) /\ eventQueue \in Seq(SBatch) /\ InMainq \in Seq(SBatch)
  BY <1>1, SeqMonotonic, BatchesOfIs DEF Queues, InMainq
<1>3. updating \o eventQueue \in Seq(SBatch) /\ Stream \in Seq(SBatch)
  BY <1>2, ConcatProperties DEF Stream
<1>4. Batches = Range(updating) \cup Range(eventQueue) \cup Range(InMainq)
  <2>1. Range(updating \o eventQueue) = Range(updating) \cup Range(eventQueue)
    BY <1>2, RangeConcatenation
  <2>2. Range(Stream) = Range(updating \o eventQueue) \cup Range(InMainq)
    BY <1>2, <1>3, RangeConcatenation DEF Stream
  <2>3. QED
    BY <2>1, <2>2 DEF Batches
<1>5. Batches \in SUBSET SBatch
  BY <1>3, RangeOfSeq DEF Batches
<1>6. QED
  BY <1>2, <1>3, <1>4, <1>5, LenProperties

\* How the stream changes: a batch comes behind all others,
LEMMA StreamEmit ==
  ASSUME Queues, NEW m \in Posted, mainq' = Append(mainq, m), UNCHANGED <<updating, eventQueue>>
  PROVE  Queues' /\ Stream' = Append(Stream, BatchOf(m)) /\ BatchOf(m) \in SBatch
<1>1. mainq' \in Seq(Posted) /\ InMainq' = Append(InMainq, BatchOf(m)) /\ BatchOf(m) \in SBatch
  BY BatchesOfAppend, BatchesOfIs DEF Queues, InMainq
<1>2. /\ updating \o eventQueue \in Seq(SBatch) /\ InMainq \in Seq(SBatch)
      /\ <<BatchOf(m)>> \in Seq(SBatch) /\ Stream \in Seq(SBatch)
  BY <1>1, StreamIs
<1>3. Stream' = (updating \o eventQueue) \o (InMainq \o <<BatchOf(m)>>)
  BY <1>1, <1>2, AppendIsConcat DEF Stream
<1>4. Append(Stream, BatchOf(m)) = Stream \o <<BatchOf(m)>>
  BY <1>1, <1>2, AppendIsConcat
<1>5. Stream' = Append(Stream, BatchOf(m))
  BY <1>2, <1>3, <1>4, ConcatAssociative DEF Stream
<1>6. QED
  BY <1>1, <1>5 DEF Queues

\* it moves to the next queue,
LEMMA StreamEnqueue ==
  ASSUME Queues, mainq # <<>>, Head(mainq).kind = "events", mainq' = Tail(mainq),
         eventQueue' = Append(eventQueue, Head(mainq).batch), updating' = updating
  PROVE  Queues' /\ Stream' = Stream
<1> DEFINE h == Head(mainq).batch
<1>1. /\ mainq' \in Seq(Posted) /\ Head(mainq) \in Posted
      /\ InMainq = <<BatchOf(Head(mainq))>> \o InMainq'
  BY BatchesOfTail DEF Queues, InMainq
<1>2. BatchOf(Head(mainq)) = h /\ h \in Batch
  BY <1>1 DEF BatchOf, Posted
<1>3. h \in SBatch /\ <<h>> \in Seq(SBatch)
  BY <1>2 DEF Batch, SBatch
<1>4. /\ updating \in Seq(SBatch) /\ eventQueue \in Seq(SBatch)
      /\ updating \o eventQueue \in Seq(SBatch)
  BY StreamIs
<1>5. InMainq' \in Seq(SBatch)
  BY <1>1, BatchesOfIs DEF InMainq
<1>6. eventQueue' \in Seq(Batch)
  BY <1>2, AppendProperties DEF Queues
<1> HIDE DEF h
<1>7. Stream' = (updating \o (eventQueue \o <<h>>)) \o InMainq'
  BY <1>3, <1>4, AppendIsConcat DEF Stream, h
<1>8. Stream' = ((updating \o eventQueue) \o <<h>>) \o InMainq'
  BY <1>3, <1>4, <1>7, ConcatAssociative
<1>9. Stream' = (updating \o eventQueue) \o (<<h>> \o InMainq')
  BY <1>3, <1>4, <1>5, <1>8, ConcatAssociative
<1>10. QED
  BY <1>1, <1>2, <1>6, <1>9 DEF Queues, Stream

LEMMA StreamTaken ==
  ASSUME Queues, updating = <<>>, updating' = eventQueue, eventQueue' = <<>>, mainq' = mainq
  PROVE  Queues' /\ Stream' = Stream
<1>1. eventQueue \in Seq(SBatch) /\ eventQueue' \in Seq(Batch)
  BY StreamIs, EmptySeq
<1>2. eventQueue \o <<>> = eventQueue /\ <<>> \o eventQueue = eventQueue
  BY <1>1, ConcatEmptySeq
<1>3. Stream' = Stream
  BY <1>2 DEF Stream, InMainq
<1>4. QED
  BY <1>1, <1>3 DEF Queues

\* the batches of a session that ends are thrown away, another message is handled,
LEMMA StreamDropped ==
  ASSUME Queues, mainq # <<>>, Head(mainq).kind # "events", mainq' = Tail(mainq),
         UNCHANGED <<updating, eventQueue>>
  PROVE  Queues' /\ Batches' \subseteq Batches
<1>1. /\ mainq' \in Seq(Posted) /\ Head(mainq) \in Posted
      /\ InMainq = <<BatchOf(Head(mainq))>> \o InMainq'
  BY BatchesOfTail DEF Queues, InMainq
<1>2. InMainq' \in Seq(SBatch) /\ BatchOf(Head(mainq)) \in SBatch
  BY <1>1, BatchesOfIs DEF InMainq
<1>3. Range(InMainq') \subseteq Range(InMainq)
  <2> DEFINE h == <<BatchOf(Head(mainq))>>
  <2>1. h \in Seq(SBatch) /\ InMainq = h \o InMainq'
    BY <1>1, <1>2
  <2> HIDE DEF h
  <2>2. Range(h \o InMainq') = Range(h) \cup Range(InMainq')
    BY <1>2, <2>1, RangeConcatenation
  <2>3. QED
    BY <2>1, <2>2
<1>4. Queues'
  BY <1>1 DEF Queues
<1>5. /\ updating \in Seq(SBatch) /\ eventQueue \in Seq(SBatch)
      /\ updating \o eventQueue \in Seq(SBatch)
  BY StreamIs
<1>6. Batches' = Range(updating) \cup Range(eventQueue) \cup Range(InMainq')
  <2>1. Range(updating \o eventQueue) = Range(updating) \cup Range(eventQueue)
    BY <1>5, RangeConcatenation
  <2>2. Stream' = (updating \o eventQueue) \o InMainq'
    BY DEF Stream
  <2>3. Range(Stream') = Range(updating \o eventQueue) \cup Range(InMainq')
    BY <1>2, <1>5, <2>2, RangeConcatenation
  <2>4. QED
    BY <2>1, <2>3 DEF Batches
<1>7. QED
  BY <1>3, <1>4, <1>6, StreamIs

LEMMA StreamEnds ==
  ASSUME Queues, NEW q \in Seq(Posted), Range(BatchesOf(q)) \subseteq Batches,
         updating' = updating, eventQueue' = <<>>, mainq' = Append(q, [kind |-> "clear"])
  PROVE  Queues' /\ Batches' \subseteq Batches \cup {NoBatch}
<1> DEFINE m == [kind |-> "clear"]
<1>1. m \in Posted /\ BatchOf(m) = NoBatch
  BY DEF Posted, BatchOf
<1> HIDE DEF m
<1>2. mainq' \in Seq(Posted) /\ InMainq' = Append(BatchesOf(q), NoBatch)
  BY <1>1, BatchesOfAppend DEF InMainq, m
<1>3. BatchesOf(q) \in Seq(SBatch) /\ NoBatch \in SBatch /\ <<NoBatch>> \in Seq(SBatch)
  BY <1>1, BatchesOfIs
<1>4. InMainq' = BatchesOf(q) \o <<NoBatch>> /\ InMainq' \in Seq(SBatch)
  BY <1>2, <1>3, AppendIsConcat, AppendProperties
<1>5. Range(InMainq') = Range(BatchesOf(q)) \cup Range(<<NoBatch>>)
  BY <1>3, <1>4, RangeConcatenation
<1>6. Range(<<NoBatch>>) = {NoBatch}
  BY DEF Range
<1>7. <<>> \in Seq(Batch) /\ <<>> \in Seq(SBatch) /\ updating \in Seq(SBatch)
  BY StreamIs, EmptySeq
<1>8. updating \o <<>> = updating
  BY <1>7, ConcatEmptySeq
<1>9. Batches' = Range(updating) \cup Range(InMainq')
  <2>1. Stream' = updating \o InMainq'
    BY <1>8 DEF Stream
  <2>2. \A s, u \in Seq(SBatch) : Range(s \o u) = Range(s) \cup Range(u)
    BY RangeConcatenation
  <2>3. QED
    BY <1>4, <1>7, <2>1, <2>2 DEF Batches
<1>10. Queues'
  BY <1>2, <1>7 DEF Queues
<1>11. QED
  BY <1>5, <1>6, <1>9, <1>10, StreamIs

\* and an event at the head is applied: b is what is left of its batch.
LEMMA TailOfConcat ==
  ASSUME NEW S, NEW u \in Seq(S), NEW t \in Seq(S), u # <<>>
  PROVE  u \o t # <<>> /\ Head(u \o t) = Head(u) /\ Tail(u \o t) = Tail(u) \o t
<1> DEFINE n == Len(u)
           m == Len(t)
           v == Tail(u)
           w == u \o t
<1>1. /\ n \in Nat \ {0} /\ m \in Nat /\ v \in Seq(S) /\ Len(v) = n - 1
      /\ \A k \in 1..n-1 : v[k] = u[k + 1]
  BY EmptySeq, LenProperties, HeadTailProperties
<1>2. /\ w \in Seq(S) /\ Len(w) = n + m
      /\ \A k \in 1..n+m : w[k] = IF k <= n THEN u[k] ELSE t[k - n]
  BY ConcatProperties
<1> HIDE DEF n, m, v, w
<1>3. /\ v \o t \in Seq(S) /\ Len(v \o t) = n - 1 + m
      /\ \A k \in 1..n-1+m : (v \o t)[k] = IF k <= n - 1 THEN v[k] ELSE t[k - (n - 1)]
  <2>1. /\ v \o t \in Seq(S) /\ Len(v \o t) = Len(v) + Len(t)
        /\ \A k \in 1..(Len(v) + Len(t)) :
             (v \o t)[k] = IF k <= Len(v) THEN v[k] ELSE t[k - Len(v)]
    BY <1>1, ConcatProperties
  <2>2. Len(v) + Len(t) = n - 1 + m
    BY <1>1 DEF m
  <2>3. QED
    BY <1>1, <2>1, <2>2
<1>4. w # <<>>
  BY <1>1, <1>2, EmptySeq
<1>5. /\ Tail(w) \in Seq(S) /\ Len(Tail(w)) = n + m - 1 /\ Head(w) = w[1]
      /\ \A k \in 1..n+m-1 : Tail(w)[k] = w[k + 1]
  <2>1. w \in Seq(S) /\ Len(w) = n + m
    BY <1>2
  <2>2. /\ Tail(w) \in Seq(S) /\ Len(Tail(w)) = Len(w) - 1 /\ Head(w) = w[1]
        /\ \A k \in 1..Len(w)-1 : Tail(w)[k] = w[k + 1]
    BY <1>4, <2>1, HeadTailProperties
  <2>3. Len(w) - 1 = n + m - 1
    BY <1>1, <2>1
  <2>4. QED
    BY <2>2, <2>3
<1>6. \A k \in 1..n-1+m : (v \o t)[k] = Tail(w)[k]
  <2> SUFFICES ASSUME NEW k \in 1..n-1+m PROVE (v \o t)[k] = Tail(w)[k]
    OBVIOUS
  <2>1. k + 1 \in 1..n+m /\ k \in 1..n+m-1 /\ k - (n - 1) = k + 1 - n
        /\ (k <= n - 1 <=> k + 1 <= n) /\ (k <= n - 1 => k \in 1..n-1)
    BY <1>1
  <2>2. Tail(w)[k] = IF k + 1 <= n THEN u[k + 1] ELSE t[k + 1 - n]
    <3>1. Tail(w)[k] = w[k + 1]
      BY <1>5, <2>1
    <3>2. w[k + 1] = IF k + 1 <= n THEN u[k + 1] ELSE t[k + 1 - n]
      BY <1>1, <1>2, <2>1
    <3>3. QED
      BY <3>1, <3>2
  <2>3. (v \o t)[k] = IF k <= n - 1 THEN v[k] ELSE t[k + 1 - n]
    BY <1>3, <2>1
  <2>4. QED
    BY <1>1, <2>1, <2>2, <2>3
<1>7. v \o t = Tail(w)
  <2>1. Len(v \o t) = Len(Tail(w)) /\ Len(v \o t) = n - 1 + m
    BY <1>1, <1>3, <1>5
  <2>2. QED
    BY <1>3, <1>5, <1>6, <2>1, SeqEqual
<1>8. Head(w) = Head(u)
  <2>1. Head(u) = u[1]
    BY HeadTailProperties
  <2>2. w[1] = u[1]
    BY <1>1, <1>2
  <2>3. QED
    BY <1>5, <2>1, <2>2
<1>9. QED
  BY <1>4, <1>7, <1>8 DEF v, w

LEMMA ExceptOfConcat ==
  ASSUME NEW S, NEW u \in Seq(S), NEW t \in Seq(S), u # <<>>, NEW b \in S
  PROVE  [u EXCEPT ![1] = b] \o t = [u \o t EXCEPT ![1] = b]
<1> DEFINE n == Len(u)
           m == Len(t)
           v == [u EXCEPT ![1] = b]
           w == u \o t
           x == [w EXCEPT ![1] = b]
<1>1. /\ n \in Nat \ {0} /\ m \in Nat /\ v \in Seq(S) /\ Len(v) = n
      /\ \A k \in 1..n : v[k] = IF k = 1 THEN b ELSE u[k]
  <2>1. n \in Nat \ {0} /\ m \in Nat
    BY EmptySeq, LenProperties
  <2>2. 1 \in 1..Len(u)
    BY <2>1
  <2>3. QED
    BY <2>1, <2>2, ExceptSeq
<1>2. /\ w \in Seq(S) /\ Len(w) = n + m
      /\ \A k \in 1..n+m : w[k] = IF k <= n THEN u[k] ELSE t[k - n]
  BY ConcatProperties
<1> HIDE DEF n, m, v, w
<1>3. /\ v \o t \in Seq(S) /\ Len(v \o t) = n + m
      /\ \A k \in 1..n+m : (v \o t)[k] = IF k <= n THEN v[k] ELSE t[k - n]
  <2>1. /\ v \o t \in Seq(S) /\ Len(v \o t) = Len(v) + Len(t)
        /\ \A k \in 1..(Len(v) + Len(t)) :
             (v \o t)[k] = IF k <= Len(v) THEN v[k] ELSE t[k - Len(v)]
    BY <1>1, ConcatProperties
  <2>2. Len(v) + Len(t) = n + m
    BY <1>1 DEF m
  <2>3. QED
    BY <1>1, <2>1, <2>2
<1>4. /\ x \in Seq(S) /\ Len(x) = n + m
      /\ \A k \in 1..n+m : x[k] = IF k = 1 THEN b ELSE w[k]
  <2>1. 1 \in 1..Len(w)
    BY <1>1, <1>2
  <2>2. QED
    BY <1>2, <2>1, ExceptSeq
<1> HIDE DEF x
<1>5. \A k \in 1..n+m : (v \o t)[k] = x[k]
  <2> SUFFICES ASSUME NEW k \in 1..n+m PROVE (v \o t)[k] = x[k]
    OBVIOUS
  <2>1. (k <= n => k \in 1..n) /\ 1 <= n
    BY <1>1
  <2>2. (v \o t)[k] = IF k <= n THEN v[k] ELSE t[k - n]
    BY <1>3
  <2>3. x[k] = IF k = 1 THEN b ELSE IF k <= n THEN u[k] ELSE t[k - n]
    BY <1>2, <1>4
  <2>4. QED
    BY <1>1, <2>1, <2>2, <2>3
<1>6. v \o t = x
  BY <1>3, <1>4, <1>5, SeqEqual
<1>7. QED
  BY <1>6 DEF v, w, x

LEMMA StreamApplied ==
  ASSUME Queues, updating # <<>>, UNCHANGED <<mainq, eventQueue>>, NEW b \in Batch,
         updating' = Tail(updating) \/ updating' = [updating EXCEPT ![1] = b]
  PROVE  /\ Queues' /\ Stream # <<>> /\ Head(updating) = Head(Stream) /\ Head(updating) \in Batch
         /\ updating' = Tail(updating) => Stream' = Tail(Stream)
         /\ updating' = [updating EXCEPT ![1] = b] => Stream' = [Stream EXCEPT ![1] = b]
<1> DEFINE t == eventQueue \o InMainq
<1>1. /\ updating \in Seq(SBatch) /\ eventQueue \in Seq(SBatch) /\ InMainq \in Seq(SBatch)
      /\ b \in SBatch
  BY StreamIs DEF Batch, SBatch
<1>2. t \in Seq(SBatch) /\ Stream = updating \o t
  BY <1>1, ConcatProperties, ConcatAssociative DEF Stream
<1>3. /\ Tail(updating) \in Seq(Batch) /\ Head(updating) \in Batch
      /\ Tail(updating) \in Seq(SBatch)
  BY <1>1, HeadTailProperties DEF Queues
<1>4. [updating EXCEPT ![1] = b] \in Seq(Batch) /\ [updating EXCEPT ![1] = b] \in Seq(SBatch)
  <2>1. 1 \in 1..Len(updating)
    BY EmptySeq, LenProperties DEF Queues
  <2>2. QED
    BY <1>1, <2>1, ExceptSeq DEF Queues
<1>5. updating' \in Seq(Batch) /\ updating' \in Seq(SBatch)
  BY <1>3, <1>4
<1>6. Stream' = updating' \o t
  <2>1. Stream' = (updating' \o eventQueue) \o InMainq
    BY DEF Stream, InMainq
  <2>2. (updating' \o eventQueue) \o InMainq = updating' \o (eventQueue \o InMainq)
    BY <1>1, <1>5, ConcatAssociative
  <2>3. QED
    BY <2>1, <2>2
<1> HIDE DEF t
<1>7. /\ Stream # <<>> /\ Head(updating) = Head(Stream) /\ Tail(Stream) = Tail(updating) \o t
      /\ [updating EXCEPT ![1] = b] \o t = [Stream EXCEPT ![1] = b]
  BY <1>1, <1>2, TailOfConcat, ExceptOfConcat
<1>8. QED
  BY <1>3, <1>5, <1>6, <1>7 DEF Queues

---------------------------------------------------------------------------------
\* What the server answers is in the log, and is what has changed since the token.
LEMMA CurrentIs ==
  ASSUME TypeOK
  PROVE  Now \in Nat /\ Now <= MaxChanges /\ \A r : Current(r) \in 0..Now
  BY LenProperties, StateIs DEF TypeOK, Now, Current

LEMMA SinceIs ==
  ASSUME TypeOK, NEW t \in Nat
  PROVE  /\ Since(t) = SinceAt(log, t, Now)
         /\ \A i \in Since(t) : i \in 1..Now /\ t < i /\ i = LastOf(log[i].ref, Now)
<1>1. Now \in Nat
  BY CurrentIs
<1>2. Since(t) = SinceAt(log, t, Now)
  BY DEF Since, SinceAt, Current
<1>3. ASSUME NEW i \in Since(t), t = 0
      PROVE  i \in 1..Now /\ t < i /\ i = LastOf(log[i].ref, Now)
  <2>1. PICK r \in Ref : i = Current(r) /\ i # 0
    BY <1>3 DEF Since
  <2>2. i = M!Last(log, r, Now) /\ i \in 0..Now
    BY <1>1, <2>1, StateIs DEF Current
  <2>3. log[i].ref = r
    BY <1>1, <2>1, <2>2, LastIs
  <2>4. QED
    BY <1>1, <1>3, <2>1, <2>2, <2>3 DEF LastOf
<1>4. ASSUME NEW i \in Since(t), t # 0
      PROVE  i \in 1..Now /\ t < i /\ i = LastOf(log[i].ref, Now)
  BY <1>1, <1>4 DEF Since, LastOf
<1>5. QED
  BY <1>2, <1>3, <1>4

\* The event at the head of updating is in the log.
LEMMA HeadIs ==
  ASSUME TypeOK, Logged, updating # <<>>, NEW i \in Head(updating).events
  PROVE  /\ Head(updating) \in Batch /\ Head(updating) \in Batches
         /\ i \in 1..MaxChanges /\ i <= Now /\ log[i].ref \in Ref
<1>1. Queues
  BY DEF TypeOK, Queues
<1>2. /\ Head(updating) \in Batch /\ Head(updating) = updating[1] /\ 1 \in DOMAIN updating
  BY <1>1, HeadTailProperties, EmptySeq, LenProperties DEF Queues
<1>3. Head(updating) \in Batches
  BY <1>1, <1>2, StreamIs DEF Range
<1>4. i \in 1..MaxChanges
  BY <1>2 DEF Batch
<1>5. Head(updating).token <= Now /\ i <= Head(updating).token /\ Head(updating).token \in Nat
  BY <1>2, <1>3, <1>4 DEF Logged, LoggedBatch, Batch
<1>6. i \in 1..Len(log)
  BY <1>4, <1>5, CurrentIs DEF Now
<1>7. log[i] \in M!Change
  BY <1>6, ElementOfSeq DEF TypeOK
<1>8. QED
  BY <1>2, <1>3, <1>4, <1>6, <1>7 DEF M!Change, Now

LEMMA PollerIs ==
  ASSUME TypeOK, NEW p \in Gens
  PROVE  /\ pollers[p] \in Poller /\ p \in DOMAIN pollers
         /\ pollers[p].at \in {"none", "idle", "from", "answered", "gone"}
         /\ pollers[p].jobs \in Seq(Job)
         /\ pollers[p].of \in {0} \cup Gens
         /\ pollers[p].token \in 0..MaxChanges /\ pollers[p].token \in Nat
         /\ pollers[p].reply \in Reply
         /\ pollers[p].errors \in 0..MAX_CONSECUTIVE_ERRORS /\ pollers[p].errors \in Nat
         /\ pollers[p].quit \in BOOLEAN
<1>1. pollers[p] \in Poller /\ p \in DOMAIN pollers
  BY DEF TypeOK
<1>2. QED
  BY <1>1, FeedAssumption DEF Poller, Job, Reply

LEMMA SilentDoes ==
  ASSUME TypeOK, NEW p \in Gens, ServerIsSilent(p)
  PROVE  /\ pollers[p].at = "from" /\ pollers'[p].at = "from" /\ pollers'[p].errors = 0
         /\ pollers'[p].jobs = Jobs(p) /\ pollers'[p].of = pollers[p].of
         /\ pollers'[p].token = pollers[p].token /\ pollers'[p].quit = pollers[p].quit
         /\ pollers' \in [Gens -> Poller]
         /\ \A g \in Gens \ {p} : pollers'[g] = pollers[g]
<1>1. pollers[p] \in Poller /\ pollers \in [Gens -> Poller]
  BY PollerIs DEF TypeOK
<1>2. pollers' = [pollers EXCEPT ![p] = [pollers[p] EXCEPT !.errors = 0]]
  BY <1>1 DEF ServerIsSilent
<1> DEFINE x == [pollers[p] EXCEPT !.errors = 0]
<1>3. /\ x \in Poller /\ x.errors = 0 /\ x.at = pollers[p].at /\ x.jobs = pollers[p].jobs
      /\ x.of = pollers[p].of /\ x.token = pollers[p].token /\ x.quit = pollers[p].quit
  <2>1. 0 \in 0..MAX_CONSECUTIVE_ERRORS
    BY FeedAssumption
  <2>2. QED
    BY <1>1, <2>1 DEF Poller
<1> HIDE DEF x
<1>4. /\ pollers' \in [Gens -> Poller] /\ pollers'[p] = x
      /\ \A g \in Gens \ {p} : pollers'[g] = pollers[g]
  BY <1>1, <1>2, <1>3 DEF x
<1>5. pollers[p].at = "from"
  BY DEF ServerIsSilent
<1>6. QED
  BY <1>3, <1>4, <1>5 DEF Jobs

\* Every variable keeps its type.
LEMMA TypeInvStep ==
  ASSUME IInv, [Next]_vars
  PROVE  TypeInv'
<1>0. /\ TypeInv /\ TypeOK /\ Logged /\ Attempt
      /\ Now \in Nat /\ Now <= MaxChanges /\ \A r : Current(r) \in 0..Now
      /\ MaxChanges \in Nat /\ MAX_CONSECUTIVE_ERRORS \in Nat \ {0} /\ MaxAttempts \in Nat \ {0}
      /\ pollers \in [Gens -> Poller]
  BY CurrentIs, FeedAssumption DEF IInv, TypeInv, TypeOK
<1>1. CASE UNCHANGED vars
  BY <1>0, <1>1 DEF TypeInv, TypeOK, vars, serverVars, attemptVars, pollerVars, queueVars,
                     cacheVars, Now
<1>2. CASE ServerChanges
  <2>1. PICK change \in M!Change : log' = Append(log, change)
    BY <1>2 DEF ServerChanges
  <2>2. log' \in Seq(M!Change) /\ Len(log') = Now + 1
    BY <1>0, <2>1, AppendProperties DEF TypeOK, Now
  <2>3. QED
    BY <1>0, <1>2, <2>2
    DEF ServerChanges, TypeInv, TypeOK, Now, attemptVars, pollerVars, queueVars, cacheVars
<1>3. CASE BeginConnect
  BY <1>0, <1>3 DEF BeginConnect, TypeInv, TypeOK, Now, Gens, pollerVars, queueVars, cacheVars
<1>4. ASSUME NEW q \in Seq(Posted), EndConnect(q)
      PROVE  TypeInv'
  <2>1. mainq' \in Seq(Posted) /\ eventQueue' \in Seq(Batch)
    <3>1. [kind |-> "clear"] \in Posted
      BY DEF Posted
    <3>2. QED
      BY <1>4, <3>1, AppendProperties, EmptySeq DEF EndConnect
  <2>2. /\ pollers' \in [Gens -> Poller]
        /\ \A g \in Gens : pollers'[g].at = pollers[g].at /\ pollers'[g].errors = pollers[g].errors
    <3>1. ASSUME NEW g \in Gens
          PROVE  /\ pollers'[g] \in Poller /\ pollers'[g].at = pollers[g].at
                 /\ pollers'[g].errors = pollers[g].errors
      <4>1. pollers'[g] = pollers[g] \/ pollers'[g] = [pollers[g] EXCEPT !.quit = TRUE]
        BY <1>4 DEF EndConnect
      <4>2. pollers[g] \in Poller
        BY <1>0, PollerIs
      <4>3. QED
        BY <4>1, <4>2 DEF Poller
    <3>2. QED
      BY <1>4, <3>1 DEF EndConnect
  <2>3. TypeOK'
    <3>1. 0 \in 0..MaxChanges
      BY <1>0
    <3>2. /\ {task', poller', attempts'} \subseteq {0} \cup Gens
          /\ {eventQueue', updating'} \subseteq Seq(Batch)
      BY <1>0, <1>4, <2>1 DEF EndConnect, TypeOK
    <3>3. QED
      BY <1>0, <1>4, <2>1, <2>2, <3>1, <3>2 DEF EndConnect, TypeOK, Now
  <2>4. \A g \in Gens : pollers'[g].of = pollers[g].of
    BY <1>0, <1>4 DEF EndConnect, Poller
  <2>5. QED
    BY <1>0, <2>2, <2>3, <2>4 DEF TypeInv
<1>5. CASE Adopt
  <2>1. cache' \in [Ref -> 0..MaxChanges] /\ uncovered' \subseteq Ref /\ unread' \subseteq Ref
    BY <1>0, <1>5 DEF Adopt, TypeOK, Empty
  <2>2. thread' \in {"none", "load"} /\ connected' \in BOOLEAN
    BY <1>0, <1>5 DEF Adopt, TypeOK
  <2>3. QED
    BY <1>0, <1>5, <2>1, <2>2 DEF Adopt, TypeInv, TypeOK, Now, pollerVars, queueVars
<1>6. CASE Load
  BY <1>0, <1>6 DEF Load, TypeInv, TypeOK, Now, pollerVars, queueVars
<1>7. CASE Launch
  <2>1. attempts \in Gens
    BY <1>0, <1>7 DEF Launch, LoadAndStart, Attempt, TypeOK
  <2>2. cache' \in [Ref -> 0..MaxChanges] /\ uncovered' \subseteq Ref /\ unread' \subseteq Ref
    <3>1. \A r \in Ref : Current(r) \in 0..MaxChanges
      BY <1>0
    <3>2. Consoles \subseteq Ref
      BY FeedAssumption
    <3>3. QED
      BY <1>0, <1>7, <3>1, <3>2 DEF Launch, LoadAndStart, LoadConsoles, TypeOK
  <2> DEFINE p == IF poller = 0 THEN attempts ELSE poller
             jobs == Append(pollers[p].jobs, [of |-> attempts, token |-> token])
             at == IF poller = 0 THEN "idle" ELSE pollers[p].at
  <2>3. p \in Gens /\ pollers[p] \in Poller
    BY <1>0, <2>1 DEF TypeOK
  <2>4. jobs \in Seq([of : Gens, token : 0..MaxChanges])
    BY <1>0, <2>1, <2>3, AppendProperties DEF TypeOK, Poller
  <2>5. poller' = p /\ pollers' = [pollers EXCEPT ![p].jobs = jobs, ![p].at = at]
    BY <1>0, <1>7, <2>3 DEF Launch, LoadAndStart, Start, TypeOK
  <2> HIDE DEF p, jobs
  <2>6. pollers' \in [Gens -> Poller]
    BY <1>0, <2>3, <2>4, <2>5 DEF TypeOK, Poller
  <2>7. \A g \in Gens : /\ pollers'[g].errors = pollers[g].errors
                        /\ pollers'[g].at \in {"from", "answered"} => pollers'[g].at = pollers[g].at
    BY <1>0, <2>3, <2>5 DEF TypeOK, Poller
  <2>8. QED
    BY <1>0, <1>7, <2>2, <2>3, <2>5, <2>6, <2>7
    DEF Launch, LoadAndStart, Start, TypeInv, TypeOK, Now, queueVars
<1>8. ASSUME NEW p \in Gens, TakeJob(p)
      PROVE  TypeInv'
  <2> DEFINE job == Head(pollers[p].jobs)
  <2>1. pollers[p] \in Poller /\ Tail(pollers[p].jobs) \in Seq(Job) /\ job \in Job
    BY <1>0, <1>8, PollerIs, HeadTailProperties DEF TakeJob
  <2> HIDE DEF job
  <2>2. PICK at \in {"from", "idle"} :
          pollers' = [pollers EXCEPT ![p].at = at, ![p].jobs = Tail(@), ![p].of = job.of,
                                     ![p].token = job.token, ![p].errors = 0]
    BY <1>8 DEF TakeJob, job
  <2> DEFINE x == [pollers[p] EXCEPT !.at = at, !.jobs = Tail(@), !.of = job.of,
                                     !.token = job.token, !.errors = 0]
  <2>3. pollers \in [Gens -> Poller]
    BY <1>0
  <2>4. pollers' = [pollers EXCEPT ![p] = x]
    BY <2>2, <2>3
  <2>5. 0 \in 0..MAX_CONSECUTIVE_ERRORS /\ job.of \in Gens /\ job.token \in 0..MaxChanges
    BY <1>0, <2>1 DEF Job
  <2>6. x \in Poller /\ x.errors = 0 /\ x.of = job.of
    BY <2>1, <2>5 DEF Poller, Job
  <2>7. job.of # 0
    BY <1>0, <2>5 DEF Gens
  <2> HIDE DEF x
  <2>8. /\ pollers' \in [Gens -> Poller] /\ pollers'[p] = x
        /\ \A g \in Gens \ {p} : pollers'[g] = pollers[g]
    BY <2>3, <2>4, <2>6
  <2>9. TypeOK'
    BY <1>0, <1>8, <2>8 DEF TakeJob, TypeOK, Now, attemptVars, queueVars, cacheVars
  <2>10. QED
    BY <1>0, <2>6, <2>7, <2>8, <2>9 DEF TypeInv
<1>9. ASSUME NEW p \in Gens, ServerAnswers(p)
      PROVE  TypeInv'
  <2>1. pollers[p] \in Poller /\ pollers[p].token \in Nat
    BY <1>0, PollerIs
  <2>2. [token |-> Now, events |-> Since(pollers[p].token)]
          \in [token : 0..MaxChanges, events : SUBSET (1..MaxChanges)]
    BY <1>0, <2>1, SinceIs
  <2>3. pollers' \in [Gens -> Poller]
    BY <1>0, <1>9, <2>1, <2>2 DEF ServerAnswers, TypeOK, Poller
  <2>4. /\ pollers'[p].errors = pollers[p].errors /\ pollers[p].at = "from"
        /\ pollers'[p].of = pollers[p].of
        /\ \A g \in Gens \ {p} : pollers'[g] = pollers[g]
    BY <1>0, <1>9 DEF ServerAnswers, TypeOK, Poller
  <2>5. QED
    BY <1>0, <1>9, <2>3, <2>4
    DEF ServerAnswers, TypeInv, TypeOK, Now, attemptVars, queueVars, cacheVars
<1>10. ASSUME NEW p \in Gens, Emit(p)
       PROVE  TypeInv'
  <2> DEFINE m == [kind |-> "events",
                   batch |-> [of |-> pollers[p].of, token |-> pollers[p].reply.token,
                              events |-> pollers[p].reply.events]]
             x == IF pollers[p].quit THEN NoPoller("gone")
                  ELSE [NoPoller("from") EXCEPT !.jobs = pollers[p].jobs, !.of = pollers[p].of,
                                                !.token = pollers[p].reply.token]
  <2>1. m \in Posted
    <3>1. pollers[p].of \in Gens /\ pollers[p].reply \in Reply
      BY <1>0, <1>10, PollerIs DEF Emit, TypeInv
    <3>2. QED
      BY <3>1 DEF Posted, Batch, Reply
  <2>2. x \in Poller /\ (x.at \in {"from", "answered"} => x.errors = 0 /\ x.of = pollers[p].of)
    <3>1. NoPoller("gone") \in Poller /\ NoPoller("gone").at = "gone"
      BY <1>0, EmptySeq DEF Poller, NoPoller, NoAnswer
    <3>2. NoPoller("from") \in Poller
      BY <1>0, EmptySeq DEF Poller, NoPoller, NoAnswer
    <3>3. /\ pollers[p].jobs \in Seq(Job) /\ pollers[p].of \in {0} \cup Gens
          /\ pollers[p].reply.token \in 0..MaxChanges
      BY <1>0, PollerIs DEF Reply
    <3> DEFINE y == [NoPoller("from") EXCEPT !.jobs = pollers[p].jobs, !.of = pollers[p].of,
                                             !.token = pollers[p].reply.token]
    <3>4. y \in Poller
      BY <3>2, <3>3 DEF Poller, Job
    <3>5. y.errors = 0 /\ y.of = pollers[p].of
      BY DEF NoPoller
    <3>6. QED
      BY <3>1, <3>4, <3>5
  <2>3. mainq' = Append(mainq, m) /\ pollers' = [pollers EXCEPT ![p] = x]
    BY <1>0, <1>10 DEF Emit, TypeOK
  <2> HIDE DEF m, x
  <2>4. mainq' \in Seq(Posted)
    BY <1>0, <2>1, <2>3, AppendProperties DEF TypeOK
  <2>5. /\ pollers' \in [Gens -> Poller] /\ pollers'[p] = x
        /\ \A g \in Gens \ {p} : pollers'[g] = pollers[g]
    BY <1>0, <2>2, <2>3 DEF TypeOK
  <2>6. TypeOK'
    BY <1>0, <1>10, <2>4, <2>5 DEF Emit, TypeOK, Now, attemptVars, cacheVars
  <2>7. pollers[p].of # 0
    BY <1>0, <1>10 DEF Emit, TypeInv
  <2>8. QED
    BY <1>0, <2>2, <2>5, <2>6, <2>7 DEF TypeInv
<1>11. ASSUME NEW p \in Gens, AnswerLost(p)
       PROVE  TypeInv'
  <2> DEFINE n == pollers[p].errors + 1
  <2>1. /\ pollers[p] \in Poller /\ pollers[p].at \in {"from", "answered"}
        /\ n \in 0..MAX_CONSECUTIVE_ERRORS
    <3>1. pollers[p].at \in {"from", "answered"} /\ pollers[p].errors < MAX_CONSECUTIVE_ERRORS
      BY <1>0, <1>11 DEF AnswerLost, Retry, TypeInv
    <3>2. QED
      BY <1>0, <3>1, PollerIs
  <2> HIDE DEF n
  <2>2. PICK at \in {"from", "idle"} :
          /\ pollers' = [pollers EXCEPT ![p] = [pollers[p] EXCEPT !.at = at, !.reply = NoAnswer,
                                                                  !.errors = n]]
          /\ at = "from" => n < MAX_CONSECUTIVE_ERRORS
    <3>1. pollers \in [Gens -> Poller]
      BY <1>0
    <3>2. \/ /\ n < MAX_CONSECUTIVE_ERRORS
             /\ pollers' = [pollers EXCEPT ![p].at = "from", ![p].token = pollers[p].token,
                                           ![p].reply = NoAnswer, ![p].errors = n]
          \/ pollers' = [pollers EXCEPT ![p].at = "idle", ![p].reply = NoAnswer, ![p].errors = n]
      BY <1>11 DEF AnswerLost, Retry, n
    <3>3. [pollers EXCEPT ![p].at = "from", ![p].token = pollers[p].token,
                          ![p].reply = NoAnswer, ![p].errors = n] =
            [pollers EXCEPT ![p] = [pollers[p] EXCEPT !.at = "from", !.reply = NoAnswer,
                                                      !.errors = n]]
      BY <2>1, <3>1 DEF Poller
    <3>4. [pollers EXCEPT ![p].at = "idle", ![p].reply = NoAnswer, ![p].errors = n] =
            [pollers EXCEPT ![p] = [pollers[p] EXCEPT !.at = "idle", !.reply = NoAnswer,
                                                      !.errors = n]]
      BY <3>1
    <3>5. QED
      BY <3>2, <3>3, <3>4
  <2> DEFINE x == [pollers[p] EXCEPT !.at = at, !.reply = NoAnswer, !.errors = n]
  <2>3. x \in Poller /\ x.at = at /\ x.errors = n /\ x.of = pollers[p].of
    <3>1. NoAnswer \in Reply
      BY <1>0 DEF Reply, NoAnswer
    <3>2. QED
      BY <2>1, <3>1 DEF Poller, Reply
  <2> HIDE DEF x
  <2>4. mainq' \in Seq(Posted)
    <3>1. [kind |-> "lost"] \in Posted
      BY DEF Posted
    <3>2. mainq' = mainq \/ mainq' = Append(mainq, [kind |-> "lost"])
      BY <1>11 DEF AnswerLost, Retry
    <3>3. mainq \in Seq(Posted)
      BY <1>0 DEF TypeOK
    <3>4. QED
      BY <3>1, <3>2, <3>3, AppendProperties
  <2>5. /\ pollers' \in [Gens -> Poller] /\ pollers'[p] = x
        /\ \A g \in Gens \ {p} : pollers'[g] = pollers[g]
    BY <1>0, <2>2, <2>3 DEF TypeOK, x
  <2>6. TypeOK'
    BY <1>0, <1>11, <2>4, <2>5 DEF AnswerLost, Retry, TypeOK, Now, attemptVars, cacheVars
  <2>7. pollers[p].of # 0
    BY <1>0, <2>1 DEF TypeInv
  <2>8. QED
    BY <1>0, <2>2, <2>3, <2>5, <2>6, <2>7 DEF TypeInv
<1>20. ASSUME NEW p \in Gens, ServerIsSilent(p)
       PROVE  TypeInv'
  <2>1. TypeOK'
    BY <1>0, <1>20, SilentDoes
    DEF ServerIsSilent, TypeOK, Now, attemptVars, queueVars, cacheVars
  <2>2. \A g \in Gens : pollers'[g].at \in {"from", "answered"} =>
          pollers'[g].of # 0 /\ pollers'[g].errors < MAX_CONSECUTIVE_ERRORS
    BY <1>0, <1>20, SilentDoes, FeedAssumption DEF TypeInv
  <2>3. QED
    BY <2>1, <2>2 DEF TypeInv
<1>12. ASSUME NEW p \in Gens, Quit(p)
       PROVE  TypeInv'
  <2>1. NoPoller("gone") \in Poller
    BY <1>0, EmptySeq DEF NoPoller, Poller, NoAnswer
  <2>2. /\ pollers' \in [Gens -> Poller] /\ pollers'[p] = NoPoller("gone")
        /\ \A g \in Gens \ {p} : pollers'[g] = pollers[g]
    BY <1>0, <1>12, <2>1 DEF Quit, TypeOK
  <2>3. NoPoller("gone").at = "gone"
    BY DEF NoPoller
  <2>4. QED
    BY <1>0, <1>12, <2>2, <2>3
    DEF Quit, TypeInv, TypeOK, Now, attemptVars, queueVars, cacheVars
<1>13. CASE HandleEvents
  <2>1. Head(mainq) \in Posted /\ Tail(mainq) \in Seq(Posted)
    BY <1>0, <1>13, HeadTailProperties DEF HandleEvents, Enqueue, Takes, TypeOK
  <2>2. Head(mainq).batch \in Batch
    BY <1>13, <2>1 DEF HandleEvents, Enqueue, Takes, Posted
  <2>3. Append(eventQueue, Head(mainq).batch) \in Seq(Batch)
    BY <1>0, <2>2, AppendProperties DEF TypeOK
  <2>4. QED
    BY <1>0, <1>13, <2>1, <2>3
    DEF HandleEvents, Enqueue, TypeInv, TypeOK, Now, attemptVars, pollerVars, cacheVars
<1>14. CASE HandleClear
  <2>1. Tail(mainq) \in Seq(Posted)
    BY <1>0, <1>14, HeadTailProperties DEF HandleClear, Takes, TypeOK
  <2>2. QED
    BY <1>0, <1>14, <2>1 DEF HandleClear, TypeInv, TypeOK, Now, Empty, attemptVars, pollerVars
<1>15. CASE HandleLost
  <2>1. Tail(mainq) \in Seq(Posted)
    BY <1>0, <1>15, HeadTailProperties DEF HandleLost, Takes, TypeOK
  <2>2. CASE task # 0
    BY <1>4, <1>15, <2>1, <2>2 DEF HandleLost
  <2>3. CASE task = 0
    BY <1>0, <1>15, <2>1, <2>3
    DEF HandleLost, TypeInv, TypeOK, Now, attemptVars, pollerVars, cacheVars
  <2>4. QED
    BY <2>2, <2>3
<1>16. CASE OnCacheUpdateTimer
  BY <1>0, <1>16, EmptySeq
  DEF OnCacheUpdateTimer, TypeInv, TypeOK, Now, attemptVars, pollerVars, cacheVars
<1>17. CASE UpdateCache
  <2>1. PICK i \in Head(updating).events : (Apply(i) \/ Fetch(i)) /\ Done(i)
    BY <1>17 DEF UpdateCache
  <2>2. /\ updating # <<>> /\ Head(updating) \in Batch /\ i \in 1..MaxChanges
        /\ log[i].ref \in Ref
    BY <1>0, <1>17, <2>1, HeadIs DEF UpdateCache
  <2>3. updating' \in Seq(Batch)
    <3>1. Tail(updating) \in Seq(Batch) /\ 1 \in 1..Len(updating) /\ Head(updating) = updating[1]
      BY <1>0, <2>2, HeadTailProperties, EmptySeq, LenProperties DEF TypeOK
    <3>2. [updating[1] EXCEPT !.events = @ \ {i}] \in Batch
      BY <2>2, <3>1 DEF Batch
    <3>3. [updating EXCEPT ![1].events = @ \ {i}] =
            [updating EXCEPT ![1] = [updating[1] EXCEPT !.events = @ \ {i}]]
      BY <1>0, <3>1, LenProperties DEF TypeOK
    <3>4. [updating EXCEPT ![1] = [updating[1] EXCEPT !.events = @ \ {i}]] \in Seq(Batch)
      BY <1>0, <3>1, <3>2, ExceptSeq DEF TypeOK
    <3>5. QED
      BY <2>1, <3>1, <3>3, <3>4 DEF Done
  <2>4. applied' \in 0..MaxChanges
    BY <1>0, <2>1, <2>2 DEF Done, Batch, TypeOK
  <2>5. cache' \in [Ref -> 0..MaxChanges] /\ uncovered' \subseteq Ref /\ unread' \subseteq Ref
    BY <1>0, <2>1, <2>2 DEF Apply, Fetch, Uncovered, TypeOK
  <2>6. QED
    BY <1>0, <1>17, <2>3, <2>4, <2>5
    DEF UpdateCache, TypeInv, TypeOK, Now, attemptVars, pollerVars
<1>18. CASE Disconnect
  BY <1>0, <1>4, <1>18 DEF Disconnect, TypeOK
<1>19. QED
  BY <1>1, <1>2, <1>3, <1>5, <1>6, <1>7, <1>8, <1>9, <1>10, <1>11, <1>12, <1>13, <1>14, <1>15,
     <1>16, <1>17, <1>18, <1>20
  DEF Next, ConnectThread, PollerThread, MainThread

---------------------------------------------------------------------------------
\* What the steps do to the pollers.
LEMMA TakeJobDoes ==
  ASSUME TypeOK, NEW p \in Gens, TakeJob(p)
  PROVE  /\ Jobs(p) \in Seq(Job) /\ Jobs(p) # <<>> /\ Head(Jobs(p)) \in Job
         /\ pollers[p].at \in {"idle", "from"} /\ pollers'[p].at \in {"idle", "from"}
         /\ pollers'[p].jobs = Tail(Jobs(p)) /\ pollers'[p].of = Head(Jobs(p)).of
         /\ pollers'[p].token = Head(Jobs(p)).token
         /\ pollers'[p].quit = pollers[p].quit
         /\ \A g \in Gens \ {p} : pollers'[g] = pollers[g]
<1> DEFINE job == Head(pollers[p].jobs)
<1>1. pollers[p] \in Poller /\ Jobs(p) \in Seq(Job) /\ Jobs(p) # <<>> /\ job \in Job
  BY PollerIs, HeadTailProperties DEF TakeJob, Jobs
<1> HIDE DEF job
<1>2. PICK at \in {"from", "idle"} :
        pollers' = [pollers EXCEPT ![p].at = at, ![p].jobs = Tail(@), ![p].of = job.of,
                                   ![p].token = job.token, ![p].errors = 0]
  BY DEF TakeJob, job
<1> DEFINE x == [pollers[p] EXCEPT !.at = at, !.jobs = Tail(@), !.of = job.of,
                                   !.token = job.token, !.errors = 0]
<1>3. pollers \in [Gens -> Poller]
  BY DEF TypeOK
<1>4. pollers'[p] = x /\ \A g \in Gens \ {p} : pollers'[g] = pollers[g]
  BY <1>2, <1>3
<1>5. /\ x.at = at /\ x.jobs = Tail(Jobs(p)) /\ x.of = job.of /\ x.token = job.token
      /\ x.quit = pollers[p].quit
  BY <1>1 DEF Poller, Jobs
<1> HIDE DEF x
<1>6. QED
  BY <1>1, <1>4, <1>5 DEF TakeJob, Jobs, job

LEMMA ServerAnswersDoes ==
  ASSUME TypeOK, NEW p \in Gens, ServerAnswers(p)
  PROVE  /\ pollers[p].at = "from" /\ pollers'[p].at = "answered"
         /\ pollers'[p].jobs = Jobs(p) /\ pollers'[p].of = pollers[p].of
         /\ pollers'[p].token = pollers[p].token /\ pollers'[p].quit = pollers[p].quit
         /\ pollers'[p].reply.token = Now
         /\ pollers'[p].reply.events = SinceAt(log, pollers[p].token, Now)
         /\ pollers[p].token < Now /\ pollers[p].token \in Nat
         /\ \A g \in Gens \ {p} : pollers'[g] = pollers[g]
<1>1. pollers[p] \in Poller /\ pollers[p].token \in Nat /\ Now \in Nat
  BY PollerIs, CurrentIs
<1>2. pollers \in [Gens -> Poller]
  BY DEF TypeOK
<1> DEFINE reply == [token |-> Now, events |-> Since(pollers[p].token)]
<1>3. reply.token = Now /\ reply.events = SinceAt(log, pollers[p].token, Now)
  BY <1>1, SinceIs
<1> HIDE DEF reply
<1>4. pollers' = [pollers EXCEPT ![p].at = "answered", ![p].reply = reply]
  BY DEF ServerAnswers, reply
<1>5. /\ pollers'[p] = [pollers[p] EXCEPT !.at = "answered", !.reply = reply]
      /\ \A g \in Gens \ {p} : pollers'[g] = pollers[g]
  BY <1>2, <1>4
<1>6. /\ pollers'[p].at = "answered" /\ pollers'[p].jobs = pollers[p].jobs
      /\ pollers'[p].of = pollers[p].of /\ pollers'[p].token = pollers[p].token
      /\ pollers'[p].quit = pollers[p].quit /\ pollers'[p].reply = reply
  BY <1>1, <1>5 DEF Poller
<1>7. pollers[p].token < Now
  <2>1. PICK i \in Since(pollers[p].token) : i \in 1..Now /\ pollers[p].token < i
    BY <1>1, SinceIs DEF ServerAnswers
  <2>2. QED
    BY <1>1, <2>1
<1>8. QED
  BY <1>1, <1>3, <1>5, <1>6, <1>7 DEF ServerAnswers, Jobs

\* The batch that poller p emits.
Emitted(p) == [of |-> pollers[p].of, token |-> pollers[p].reply.token,
               events |-> pollers[p].reply.events]

LEMMA EmitDoes ==
  ASSUME TypeInv, NEW p \in Gens, Emit(p)
  PROVE  /\ pollers[p].at = "answered" /\ Emitted(p) \in Batch
         /\ pollers[p].token \in Nat /\ pollers[p].reply.token \in Nat
         /\ Queues' /\ Stream' = Append(Stream, Emitted(p))
         /\ pollers[p].quit => pollers'[p] = NoPoller("gone")
         /\ ~pollers[p].quit =>
              /\ pollers'[p].at = "from" /\ pollers'[p].jobs = Jobs(p)
              /\ pollers'[p].of = pollers[p].of /\ pollers'[p].token = pollers[p].reply.token
              /\ pollers'[p].quit = FALSE
         /\ \A g \in Gens \ {p} : pollers'[g] = pollers[g]
<1> DEFINE m == [kind |-> "events", batch |-> Emitted(p)]
           x == IF pollers[p].quit THEN NoPoller("gone")
                ELSE [NoPoller("from") EXCEPT !.jobs = pollers[p].jobs, !.of = pollers[p].of,
                                              !.token = pollers[p].reply.token]
<1>1. /\ pollers[p].at = "answered" /\ pollers[p].of \in Gens /\ pollers[p].reply \in Reply
      /\ pollers[p].token \in Nat /\ pollers[p].reply.token \in Nat
  <2>1. pollers[p].at = "answered" /\ pollers[p].of # 0 /\ TypeOK
    BY DEF Emit, TypeInv
  <2>2. /\ pollers[p].reply \in Reply /\ pollers[p].of \in {0} \cup Gens
        /\ pollers[p].token \in Nat
    BY <2>1, PollerIs
  <2>3. QED
    BY <2>1, <2>2, FeedAssumption DEF Reply
<1>2. Emitted(p) \in Batch /\ m \in Posted /\ BatchOf(m) = Emitted(p)
  BY <1>1 DEF Emitted, Batch, Reply, Posted, BatchOf
<1>3. /\ mainq' = Append(mainq, m) /\ pollers' = [pollers EXCEPT ![p] = x]
      /\ pollers \in [Gens -> Poller] /\ Queues /\ UNCHANGED <<updating, eventQueue>>
  BY DEF Emit, Emitted, TypeInv, TypeOK, Queues
<1> HIDE DEF m
<1>4. Queues' /\ Stream' = Append(Stream, Emitted(p))
  BY <1>2, <1>3, StreamEmit
<1>5. pollers'[p] = x /\ \A g \in Gens \ {p} : pollers'[g] = pollers[g]
  BY <1>3
<1>6. ~pollers[p].quit =>
        /\ x.at = "from" /\ x.jobs = pollers[p].jobs /\ x.of = pollers[p].of
        /\ x.token = pollers[p].reply.token /\ x.quit = FALSE
  BY DEF NoPoller
<1>7. QED
  BY <1>1, <1>2, <1>4, <1>5, <1>6 DEF Jobs

LEMMA AnswerLostDoes ==
  ASSUME TypeOK, NEW p \in Gens, AnswerLost(p)
  PROVE  /\ pollers[p].at \in {"from", "answered"} /\ pollers'[p].at \in {"idle", "from"}
         /\ pollers'[p].jobs = Jobs(p) /\ pollers'[p].of = pollers[p].of
         /\ pollers'[p].token = pollers[p].token /\ pollers'[p].quit = pollers[p].quit
         /\ Queues' /\ (Stream' = Stream \/ Stream' = Append(Stream, NoBatch))
         /\ mainq' = mainq \/ mainq' = Append(mainq, [kind |-> "lost"])
         /\ \A g \in Gens \ {p} : pollers'[g] = pollers[g]
<1> DEFINE n == pollers[p].errors + 1
           m == [kind |-> "lost"]
<1>1. pollers[p] \in Poller /\ pollers \in [Gens -> Poller] /\ Queues
  BY PollerIs DEF TypeOK, Queues
<1>2. m \in Posted /\ BatchOf(m) = NoBatch
  BY DEF Posted, BatchOf
<1>3. \/ /\ pollers' = [pollers EXCEPT ![p].at = "from", ![p].token = pollers[p].token,
                                       ![p].reply = NoAnswer, ![p].errors = n]
         /\ mainq' = mainq
      \/ /\ pollers' = [pollers EXCEPT ![p].at = "idle", ![p].reply = NoAnswer, ![p].errors = n]
         /\ mainq' = Append(mainq, m)
  BY DEF AnswerLost, Retry
<1> HIDE DEF n, m
<1>4. PICK at \in {"from", "idle"} :
        \/ pollers'[p] = [pollers[p] EXCEPT !.at = at, !.token = pollers[p].token,
                                            !.reply = NoAnswer, !.errors = n]
        \/ pollers'[p] = [pollers[p] EXCEPT !.at = at, !.reply = NoAnswer, !.errors = n]
  BY <1>1, <1>3
<1>5. /\ pollers'[p].at = at /\ pollers'[p].jobs = pollers[p].jobs
      /\ pollers'[p].of = pollers[p].of /\ pollers'[p].token = pollers[p].token
      /\ pollers'[p].quit = pollers[p].quit
  BY <1>1, <1>4 DEF Poller
<1>6. \A g \in Gens \ {p} : pollers'[g] = pollers[g]
  BY <1>1, <1>3
<1>7. UNCHANGED <<updating, eventQueue>> /\ pollers[p].at \in {"from", "answered"}
  BY DEF AnswerLost, Retry
<1>8. Queues' /\ (Stream' = Stream \/ Stream' = Append(Stream, NoBatch))
  <2>1. CASE mainq' = mainq
    BY <1>1, <1>7, <2>1 DEF Queues, Stream, InMainq
  <2>2. CASE mainq' = Append(mainq, m)
    BY <1>1, <1>2, <1>7, <2>2, StreamEmit
  <2>3. QED
    BY <1>3, <2>1, <2>2
<1>9. QED
  BY <1>3, <1>5, <1>6, <1>7, <1>8 DEF Jobs, m

\* A poll that brings no event: the poller keeps its token.
Polls(p) == AnswerLost(p) \/ ServerIsSilent(p)

LEMMA PollsDoes ==
  ASSUME TypeOK, NEW p \in Gens, Polls(p)
  PROVE  /\ pollers[p].at \in {"from", "answered"} /\ pollers'[p].at \in {"idle", "from"}
         /\ pollers'[p].jobs = Jobs(p) /\ pollers'[p].of = pollers[p].of
         /\ pollers'[p].token = pollers[p].token /\ pollers'[p].quit = pollers[p].quit
         /\ Queues' /\ (Stream' = Stream \/ Stream' = Append(Stream, NoBatch))
         /\ mainq' = mainq \/ mainq' = Append(mainq, [kind |-> "lost"])
         /\ \A g \in Gens \ {p} : pollers'[g] = pollers[g]
<1>1. CASE AnswerLost(p)
  BY <1>1, AnswerLostDoes
<1>2. CASE ServerIsSilent(p)
  <2>1. UNCHANGED <<mainq, updating, eventQueue>>
    BY <1>2 DEF ServerIsSilent, queueVars
  <2>2. Queues' /\ Stream' = Stream
    BY <2>1 DEF Queues, TypeOK, Stream, InMainq, BatchesOf
  <2>3. QED
    BY <1>2, <2>1, <2>2, SilentDoes
<1>3. QED
  BY <1>1, <1>2 DEF Polls

LEMMA EndConnectDoes ==
  ASSUME TypeOK, NEW q \in Seq(Posted), Range(BatchesOf(q)) \subseteq Batches, EndConnect(q)
  PROVE  /\ Queues' /\ Batches' \subseteq Batches \cup {NoBatch}
         /\ \A g \in Gens :
              /\ pollers'[g].at = pollers[g].at /\ pollers'[g].jobs = Jobs(g)
              /\ pollers'[g].of = pollers[g].of /\ pollers'[g].token = pollers[g].token
              /\ pollers'[g].reply = pollers[g].reply
              /\ g # poller => pollers'[g] = pollers[g]
<1>1. Queues' /\ Batches' \subseteq Batches \cup {NoBatch}
  BY StreamEnds DEF EndConnect, TypeOK, Queues
<1>2. ASSUME NEW g \in Gens
      PROVE  /\ pollers'[g].at = pollers[g].at /\ pollers'[g].jobs = pollers[g].jobs
             /\ pollers'[g].of = pollers[g].of /\ pollers'[g].token = pollers[g].token
             /\ pollers'[g].reply = pollers[g].reply
             /\ g # poller => pollers'[g] = pollers[g]
  <2>1. /\ pollers'[g] = pollers[g] \/ pollers'[g] = [pollers[g] EXCEPT !.quit = TRUE]
        /\ g # poller => pollers'[g] = pollers[g]
    BY DEF EndConnect
  <2>2. pollers[g] \in Poller
    BY PollerIs
  <2>3. QED
    BY <2>1, <2>2 DEF Poller
<1>3. QED
  BY <1>1, <1>2 DEF Jobs

LEMMA LaunchDoes ==
  ASSUME TypeOK, Attempt, Launch
  PROVE  LET p == poller'
             job == [of |-> attempts, token |-> token]
         IN  /\ attempts \in Gens /\ p \in Gens /\ p = (IF poller = 0 THEN attempts ELSE poller)
             /\ job \in Job /\ pollers'[p].jobs = Append(Jobs(p), job) /\ Jobs(p) \in Seq(Job)
             /\ pollers'[p].at = IF poller = 0 THEN "idle" ELSE pollers[p].at
             /\ pollers'[p].of = pollers[p].of /\ pollers'[p].token = pollers[p].token
             /\ pollers'[p].reply = pollers[p].reply /\ pollers'[p].quit = pollers[p].quit
             /\ \A g \in Gens \ {p} : pollers'[g] = pollers[g]
<1> DEFINE p == IF poller = 0 THEN attempts ELSE poller
           job == [of |-> attempts, token |-> token]
           at == IF poller = 0 THEN "idle" ELSE pollers[p].at
<1>1. attempts \in Gens /\ p \in Gens /\ job \in Job
  BY DEF Launch, LoadAndStart, Attempt, TypeOK, Job
<1>2. pollers[p] \in Poller /\ Jobs(p) \in Seq(Job) /\ pollers \in [Gens -> Poller]
  BY <1>1, PollerIs DEF TypeOK, Jobs
<1>3. /\ poller' = p
      /\ pollers' = [pollers EXCEPT ![p].jobs = Append(@, job),
                                    ![p].at = IF poller = 0 THEN "idle" ELSE @]
  BY DEF Launch, LoadAndStart, Start
<1> HIDE DEF p, job
<1>4. /\ pollers'[p] = [pollers[p] EXCEPT !.jobs = Append(@, job),
                                          !.at = IF poller = 0 THEN "idle" ELSE @]
      /\ \A g \in Gens \ {p} : pollers'[g] = pollers[g]
  BY <1>1, <1>2, <1>3
<1>5. /\ pollers'[p].jobs = Append(pollers[p].jobs, job)
      /\ pollers'[p].at = IF poller = 0 THEN "idle" ELSE pollers[p].at
      /\ pollers'[p].of = pollers[p].of /\ pollers'[p].token = pollers[p].token
      /\ pollers'[p].reply = pollers[p].reply /\ pollers'[p].quit = pollers[p].quit
  BY <1>2, <1>4 DEF Poller
<1>6. QED
  BY <1>1, <1>2, <1>3, <1>4, <1>5 DEF Jobs, p, job

\* What is left of the batch at the head when its event i is applied.
Left(i) == [Head(Stream) EXCEPT !.events = @ \ {i}]

LEMMA UpdateCacheDoes ==
  ASSUME TypeOK, Logged, UpdateCache
  PROVE  /\ Queues' /\ Stream \in Seq(SBatch) /\ Stream # <<>>
         /\ Head(Stream) = Head(updating) /\ Head(Stream) \in Batch /\ Head(Stream) \in Batches
         /\ \E i \in Head(Stream).events :
              /\ (Apply(i) \/ Fetch(i)) /\ Done(i)
              /\ i \in 1..MaxChanges /\ i <= Now /\ log[i].ref \in Ref
              /\ IF Head(Stream).events = {i} THEN Stream' = Tail(Stream)
                 ELSE Stream' = [Stream EXCEPT ![1] = Left(i)]
<1>1. Queues /\ updating # <<>> /\ UNCHANGED <<mainq, eventQueue>>
  BY DEF TypeOK, Queues, UpdateCache
<1>2. PICK i \in Head(updating).events : (Apply(i) \/ Fetch(i)) /\ Done(i)
  BY DEF UpdateCache
<1>3. /\ Head(updating) \in Batch /\ Head(updating) \in Batches
      /\ i \in 1..MaxChanges /\ i <= Now /\ log[i].ref \in Ref
  BY <1>1, <1>2, HeadIs
<1>4. /\ updating[1] = Head(updating) /\ Len(updating) \in Nat /\ 1 \in 1..Len(updating)
  BY <1>1, HeadTailProperties, EmptySeq, LenProperties DEF Queues
<1> DEFINE b == [Head(updating) EXCEPT !.events = @ \ {i}]
<1>5. b \in Batch
  BY <1>3 DEF Batch
<1>6. updating' = IF Head(updating).events = {i} THEN Tail(updating)
                  ELSE [updating EXCEPT ![1] = b]
  <2>1. [updating EXCEPT ![1].events = @ \ {i}] = [updating EXCEPT ![1] = b]
    BY <1>1, <1>4, LenProperties DEF Queues
  <2>2. QED
    BY <1>2, <2>1 DEF Done
<1>7. b = [Head(Stream) EXCEPT !.events = @ \ {i}] <=> b = Left(i)
  BY DEF Left
<1> HIDE DEF b
<1>8. /\ Queues' /\ Stream # <<>> /\ Head(updating) = Head(Stream)
      /\ updating' = Tail(updating) => Stream' = Tail(Stream)
      /\ updating' = [updating EXCEPT ![1] = b] => Stream' = [Stream EXCEPT ![1] = b]
  BY <1>1, <1>5, <1>6, StreamApplied
<1>9. b = Left(i)
  BY <1>8 DEF b, Left
<1>10. Stream \in Seq(SBatch)
  BY <1>1, StreamIs
<1>11. IF Head(Stream).events = {i} THEN Stream' = Tail(Stream)
       ELSE Stream' = [Stream EXCEPT ![1] = Left(i)]
  BY <1>6, <1>8, <1>9
<1>12. QED
  BY <1>2, <1>3, <1>8, <1>10, <1>11

\* The batches on their way after a sequence has changed.
LEMMA RangeIs ==
  ASSUME NEW S, NEW s \in Seq(S), NEW b \in S
  PROVE  /\ Append(s, b) \in Seq(S) /\ Range(Append(s, b)) = Range(s) \cup {b}
         /\ s # <<>> => /\ Range(Tail(s)) \subseteq Range(s)
                        /\ Range([s EXCEPT ![1] = b]) \subseteq Range(s) \cup {b}
                        /\ b \in Range([s EXCEPT ![1] = b])
<1>1. Len(s) \in Nat /\ DOMAIN s = 1..Len(s)
  BY LenProperties
<1>2. Append(s, b) \in Seq(S) /\ Range(Append(s, b)) = Range(s) \cup {b}
  <2>1. /\ Append(s, b) \in Seq(S) /\ Len(Append(s, b)) = Len(s) + 1
        /\ Append(s, b)[Len(s) + 1] = b /\ \A k \in 1..Len(s) : Append(s, b)[k] = s[k]
    BY AppendProperties
  <2>2. DOMAIN Append(s, b) = 1..Len(s) + 1
    BY <2>1, LenProperties
  <2>3. \A k : k \in 1..Len(s) + 1 <=> k \in 1..Len(s) \/ k = Len(s) + 1
    BY <1>1
  <2>4. QED
    BY <1>1, <2>1, <2>2, <2>3 DEF Range
<1>3. ASSUME s # <<>> PROVE Range(Tail(s)) \subseteq Range(s)
  <2>1. /\ Tail(s) \in Seq(S) /\ Len(Tail(s)) = Len(s) - 1
        /\ \A k \in 1..Len(s) - 1 : Tail(s)[k] = s[k + 1]
    BY <1>3, HeadTailProperties
  <2>2. DOMAIN Tail(s) = 1..Len(s) - 1
    BY <2>1, LenProperties
  <2>3. \A k \in 1..Len(s) - 1 : k + 1 \in 1..Len(s)
    BY <1>1
  <2>4. QED
    BY <1>1, <2>1, <2>2, <2>3 DEF Range
<1>4. ASSUME s # <<>>
      PROVE  /\ Range([s EXCEPT ![1] = b]) \subseteq Range(s) \cup {b}
             /\ b \in Range([s EXCEPT ![1] = b])
  <2>1. 1 \in 1..Len(s)
    BY <1>1, <1>4, EmptySeq
  <2>2. QED
    BY <1>1, <2>1 DEF Range
<1>5. QED
  BY <1>2, <1>3, <1>4

\* Where the batches come from that are on their way after a step.
LEMMA BatchesFrom ==
  ASSUME TypeInv, Logged, [Next]_vars, NEW b \in Batches'
  PROVE  \/ \E c \in Batches : b.of = c.of /\ b.token = c.token /\ b.events \subseteq c.events
         \/ b = NoBatch
         \/ \E p \in Gens : Emit(p) /\ b = Emitted(p)
<1>0. TypeOK /\ Queues /\ Stream \in Seq(SBatch) /\ Batch \subseteq SBatch /\ NoBatch \in SBatch
  BY StreamIs, FeedAssumption DEF TypeInv, TypeOK, Queues, Batch, SBatch, NoBatch
<1>1. CASE Stream' = Stream
  BY <1>1 DEF Batches
<1>2. CASE Batches' \subseteq Batches \cup {NoBatch}
  BY <1>2
<1>3. CASE UNCHANGED queueVars
  BY <1>1, <1>3 DEF queueVars, Stream, InMainq
<1>4. ASSUME NEW p \in Gens, Emit(p)
      PROVE  \/ \E c \in Batches : b.of = c.of /\ b.token = c.token /\ b.events \subseteq c.events
             \/ b = Emitted(p)
  <2>1. Stream' = Append(Stream, Emitted(p)) /\ Emitted(p) \in SBatch
    BY <1>0, <1>4, EmitDoes
  <2>2. Batches' = Batches \cup {Emitted(p)}
    BY <1>0, <2>1, RangeIs DEF Batches
  <2>3. QED
    BY <2>2
<1>5. ASSUME NEW p \in Gens, Polls(p)
      PROVE  Batches' \subseteq Batches \cup {NoBatch}
  BY <1>0, <1>5, PollsDoes, RangeIs DEF Batches
<1>6. CASE Disconnect
  <2>1. Range(BatchesOf(mainq)) \subseteq Batches
    BY <1>0, StreamIs DEF InMainq
  <2>2. Batches' \subseteq Batches \cup {NoBatch}
    BY <1>0, <1>6, <2>1, EndConnectDoes DEF Disconnect, Queues
  <2>3. QED
    BY <1>2, <2>2
<1>7. CASE HandleLost
  <2>1. mainq # <<>> /\ Head(mainq).kind = "lost"
    BY <1>7 DEF HandleLost, Takes
  <2>2. Tail(mainq) \in Seq(Posted) /\ Range(BatchesOf(Tail(mainq))) \subseteq Batches
    <3>1. /\ Tail(mainq) \in Seq(Posted) /\ Head(mainq) \in Posted
          /\ BatchesOf(mainq) = <<BatchOf(Head(mainq))>> \o BatchesOf(Tail(mainq))
      BY <1>0, <2>1, BatchesOfTail DEF Queues
    <3>2. <<BatchOf(Head(mainq))>> \in Seq(SBatch) /\ BatchesOf(Tail(mainq)) \in Seq(SBatch)
      <4>1. BatchOf(Head(mainq)) \in SBatch /\ BatchesOf(Tail(mainq)) \in Seq(SBatch)
        BY <3>1, BatchesOfIs
      <4>2. QED
        BY <4>1
    <3>3. \A s, u \in Seq(SBatch) : Range(s \o u) = Range(s) \cup Range(u)
      BY RangeConcatenation
    <3>4. Range(BatchesOf(Tail(mainq))) \subseteq Range(InMainq)
      BY <3>1, <3>2, <3>3 DEF InMainq
    <3>5. QED
      BY <1>0, <3>1, <3>4, StreamIs
  <2>3. CASE task # 0
    <3>1. Batches' \subseteq Batches \cup {NoBatch}
      BY <1>0, <1>7, <2>2, <2>3, EndConnectDoes DEF HandleLost
    <3>2. QED
      BY <1>2, <3>1
  <2>4. CASE task = 0
    <3>1. Batches' \subseteq Batches
      BY <1>0, <1>7, <2>1, <2>4, StreamDropped DEF HandleLost
    <3>2. QED
      BY <1>2, <3>1
  <2>5. QED
    BY <2>3, <2>4
<1>8. CASE HandleClear
  <2>1. Batches' \subseteq Batches
    BY <1>0, <1>8, StreamDropped DEF HandleClear, Takes
  <2>2. QED
    BY <1>2, <2>1
<1>9. CASE HandleEvents
  BY <1>0, <1>1, <1>9, StreamEnqueue DEF HandleEvents, Enqueue, Takes
<1>10. CASE OnCacheUpdateTimer
  BY <1>0, <1>1, <1>10, StreamTaken DEF OnCacheUpdateTimer, Idle
<1>11. CASE UpdateCache
  <2>1. PICK i \in Head(Stream).events :
          IF Head(Stream).events = {i} THEN Stream' = Tail(Stream)
          ELSE Stream' = [Stream EXCEPT ![1] = Left(i)]
    BY <1>0, <1>11, UpdateCacheDoes
  <2>2. Stream # <<>> /\ Head(Stream) \in Batch /\ Head(Stream) \in Batches
    BY <1>0, <1>11, UpdateCacheDoes
  <2>3. /\ Left(i) \in SBatch /\ Left(i).of = Head(Stream).of /\ Left(i).token = Head(Stream).token
        /\ Left(i).events \subseteq Head(Stream).events
    BY <2>2 DEF Left, Batch, SBatch
  <2>4. Batches' \subseteq Batches \cup {Left(i)}
    BY <1>0, <2>1, <2>2, <2>3, RangeIs DEF Batches
  <2>5. QED
    BY <2>2, <2>3, <2>4
<1>12. CASE ServerChanges \/ BeginConnect \/ ConnectThread
  BY <1>3, <1>12
  DEF ServerChanges, BeginConnect, ConnectThread, Adopt, Load, Launch, LoadAndStart
<1>13. ASSUME NEW p \in Gens, TakeJob(p) \/ ServerAnswers(p) \/ Quit(p)
       PROVE  UNCHANGED queueVars
  BY <1>13 DEF TakeJob, ServerAnswers, Quit
<1>14. CASE UNCHANGED vars
  BY <1>3, <1>14 DEF vars
<1>15. QED
  BY <1>2, <1>3, <1>4, <1>5, <1>6, <1>7, <1>8, <1>9, <1>10, <1>11, <1>12, <1>13, <1>14
  DEF Next, PollerThread, Polls, MainThread

---------------------------------------------------------------------------------
\* The log, longer or not, and what it says of what was there before the step.
LEMMA LogStep ==
  ASSUME TypeOK, [Next]_vars
  PROVE  /\ Now \in Nat /\ Now' \in Nat /\ Now <= Now'
         /\ \A i \in 1..Now : log'[i] = log[i]
         /\ \A r, t : t \in 0..Now =>
              /\ M!Last(log', r, t) = M!Last(log, r, t)
              /\ M!StateAt(log', r, t) = M!StateAt(log, r, t)
              /\ \A s : M!Fresh(log, r, s, t) => M!Fresh(log', r, s, t)
         /\ ~ServerChanges => log' = log
<1>1. Now \in Nat /\ log \in Seq(M!Change)
  BY CurrentIs DEF TypeOK
<1>2. CASE log' = log
  BY <1>1, <1>2 DEF Now
<1>3. CASE ServerChanges
  <2>1. PICK change \in M!Change : log' = Append(log, change)
    BY <1>3 DEF ServerChanges
  <2>2. /\ Len(log') = Len(log) + 1 /\ \A i \in 1..Len(log) : log'[i] = log[i]
        /\ \A r, t : t \in 0..Len(log) =>
             /\ M!Last(log', r, t) = M!Last(log, r, t)
             /\ M!StateAt(log', r, t) = M!StateAt(log, r, t)
             /\ \A s : M!Fresh(log, r, s, t) => M!Fresh(log', r, s, t)
    <3>1. 0 \in 0..Len(log)
      BY <1>1 DEF Now
    <3>2. QED
      BY <1>1, <2>1, <3>1, Longer
  <2>3. QED
    BY <1>1, <1>3, <2>2 DEF Now
<1>4. ~ServerChanges => log' = log
  BY DEF Next, BeginConnect, Disconnect, EndConnect, ConnectThread, Adopt, Load, Launch,
         LoadAndStart, PollerThread, TakeJob, ServerAnswers, Emit, Polls, AnswerLost,
             ServerIsSilent, Retry, Quit,
         MainThread, HandleEvents, Enqueue, HandleClear, HandleLost, OnCacheUpdateTimer,
         UpdateCache, vars
<1>5. QED
  BY <1>2, <1>3, <1>4

\* What is told of an object is the last change of it, so it is in what SinceAt answers.
LEMMA SinceAtIs ==
  ASSUME TypeOK, NEW t \in Nat, NEW now \in Nat, now <= Now
  PROVE  /\ \A i \in SinceAt(log, t, now) :
              i \in 1..now /\ t < i /\ i = LastOf(log[i].ref, now) /\ log[i].ref \in Ref
         /\ \A r \in Ref :
              State(r, now) # 0 /\ t < LastOf(r, now) => LastOf(r, now) \in SinceAt(log, t, now)
         /\ \A r \in Ref : t # 0 /\ t < LastOf(r, now) => LastOf(r, now) \in SinceAt(log, t, now)
<1>1. ASSUME NEW i \in SinceAt(log, t, now), t = 0
      PROVE  i \in 1..now /\ t < i /\ i = LastOf(log[i].ref, now)
  <2>1. PICK r \in Ref : i = State(r, now) /\ i # 0
    BY <1>1 DEF SinceAt, State
  <2>2. i = M!Last(log, r, now) /\ i \in 0..now
    BY <2>1, StateIs DEF State
  <2>3. log[i].ref = r
    BY <2>1, <2>2, LastIs
  <2>4. QED
    BY <1>1, <2>1, <2>2, <2>3 DEF LastOf
<1>2. ASSUME NEW i \in SinceAt(log, t, now), t # 0
      PROVE  i \in 1..now /\ t < i /\ i = LastOf(log[i].ref, now)
  BY <1>2 DEF SinceAt, LastOf
<1>3. ASSUME NEW i \in 1..now
      PROVE  log[i].ref \in Ref
  <2>1. i \in 1..Len(log) /\ log \in Seq(M!Change)
    BY CurrentIs DEF TypeOK, Now
  <2>2. QED
    <3>1. log[i] \in M!Change
      BY <2>1, ElementOfSeq
    <3>2. QED
      BY <3>1 DEF M!Change
<1>4. ASSUME NEW r \in Ref, t < LastOf(r, now), State(r, now) # 0 \/ t # 0
      PROVE  LastOf(r, now) \in SinceAt(log, t, now)
  <2> DEFINE m == LastOf(r, now)
  <2>1. m \in 0..now /\ m # 0 /\ log[m].ref = r
    BY <1>4, LastIs DEF LastOf
  <2>2. CASE t = 0
    BY <1>4, <2>2, StateIs DEF SinceAt, State, LastOf
  <2>3. CASE t # 0
    BY <1>4, <2>1, <2>3 DEF SinceAt, LastOf
  <2>4. QED
    BY <2>2, <2>3
<1>5. QED
  BY <1>1, <1>2, <1>3, <1>4

LEMMA SinceAtStep ==
  ASSUME TypeOK, [Next]_vars, NEW t \in Nat, NEW now \in Nat, now <= Now
  PROVE  SinceAt(log', t, now) = SinceAt(log, t, now)
<1>1. \A r : /\ M!StateAt(log', r, now) = M!StateAt(log, r, now)
              /\ M!Last(log', r, now) = M!Last(log, r, now)
  BY LogStep
<1>2. \A i \in t+1..now : log'[i] = log[i]
  BY LogStep
<1>3. QED
  BY <1>1, <1>2 DEF SinceAt

LEMMA AnswersStep ==
  ASSUME TypeInv, Attempt, Answers, [Next]_vars
  PROVE  Answers'
<1>0. TypeOK /\ Now \in Nat /\ Now' \in Nat /\ Now <= Now'
  BY LogStep DEF TypeInv
<1>1. ASSUME NEW g \in Gens, pollers[g].at = "answered", pollers'[g].token = pollers[g].token,
             pollers'[g].reply = pollers[g].reply
      PROVE  Answered(g)'
  <2>1. PICK t \in Nat, now \in Nat : t = pollers[g].token /\ now = pollers[g].reply.token
    BY <1>0, PollerIs, FeedAssumption DEF Reply
  <2>2. t < now /\ now <= Now /\ pollers[g].reply.events = SinceAt(log, t, now)
    BY <1>1, <2>1 DEF Answers, Answered
  <2>3. SinceAt(log', t, now) = SinceAt(log, t, now)
    BY <1>0, <2>2, SinceAtStep
  <2>4. QED
    BY <1>0, <1>1, <2>1, <2>2, <2>3 DEF Answered
<1>2. ASSUME NEW g \in Gens, pollers'[g].at = "answered", pollers'[g] = pollers[g]
      PROVE  Answered(g)'
  BY <1>1, <1>2
<1>3. CASE UNCHANGED pollers
  BY <1>2, <1>3 DEF Answers
<1>4. ASSUME NEW q \in Seq(Posted), EndConnect(q)
      PROVE  Answers'
  <2>1. ASSUME NEW g \in Gens, pollers'[g].at = "answered" PROVE Answered(g)'
    <3>1. pollers'[g] = pollers[g] \/ pollers'[g] = [pollers[g] EXCEPT !.quit = TRUE]
      BY <1>4 DEF EndConnect
    <3>2. pollers[g] \in Poller
      BY <1>0, PollerIs
    <3>3. /\ pollers'[g].at = pollers[g].at /\ pollers'[g].token = pollers[g].token
          /\ pollers'[g].reply = pollers[g].reply
      BY <3>1, <3>2 DEF Poller
    <3>4. QED
      BY <1>1, <2>1, <3>3
  <2>2. QED
    BY <2>1 DEF Answers
<1>5. CASE Disconnect \/ HandleLost
  <2>1. Tail(mainq) \in Seq(Posted) \/ ~HandleLost
    BY <1>0, HeadTailProperties DEF HandleLost, Takes, TypeOK
  <2>2. QED
    BY <1>0, <1>3, <1>4, <1>5, <2>1 DEF Disconnect, HandleLost, pollerVars, TypeOK
<1>6. CASE Launch
  <2>1. ASSUME NEW g \in Gens, pollers'[g].at = "answered" PROVE Answered(g)'
    BY <1>0, <1>1, <1>2, <1>6, <2>1, LaunchDoes
  <2>2. QED
    BY <2>1 DEF Answers
<1>7. ASSUME NEW p \in Gens, TakeJob(p) \/ Emit(p) \/ Polls(p) \/ Quit(p)
      PROVE  Answers'
  <2>1. pollers'[p].at # "answered" /\ \A g \in Gens \ {p} : pollers'[g] = pollers[g]
    <3>1. CASE Quit(p)
      BY <1>0, <3>1 DEF Quit, NoPoller, TypeOK
    <3>2. CASE Emit(p)
      <4>1. NoPoller("gone").at = "gone"
        BY DEF NoPoller
      <4>2. QED
        BY <3>2, <4>1, EmitDoes
    <3>3. QED
      BY <1>0, <1>7, <3>1, <3>2, TakeJobDoes, PollsDoes
  <2>2. QED
    BY <1>2, <2>1 DEF Answers
<1>8. ASSUME NEW p \in Gens, ServerAnswers(p)
      PROVE  Answers'
  <2>1. PICK t \in Nat : t = pollers[p].token
    BY <1>0, PollerIs
  <2>2. /\ pollers'[p].token = t /\ pollers'[p].reply.token = Now /\ t < Now
        /\ pollers'[p].reply.events = SinceAt(log, t, Now)
        /\ \A g \in Gens \ {p} : pollers'[g] = pollers[g]
    BY <1>0, <1>8, <2>1, ServerAnswersDoes
  <2>3. log' = log /\ Now' = Now
    BY <1>8 DEF ServerAnswers, Now
  <2>4. Answered(p)'
    BY <1>0, <2>2, <2>3 DEF Answered
  <2>5. QED
    BY <1>2, <2>2, <2>4 DEF Answers
<1>9. CASE \/ UNCHANGED vars \/ ServerChanges \/ BeginConnect \/ Adopt \/ Load
           \/ HandleEvents \/ HandleClear \/ OnCacheUpdateTimer \/ UpdateCache
  <2>1. UNCHANGED pollers
    BY <1>9 DEF vars, pollerVars, ServerChanges, BeginConnect, Adopt, Load, HandleEvents, Enqueue,
                HandleClear, OnCacheUpdateTimer, UpdateCache
  <2>2. QED
    BY <1>3, <2>1
<1>10. QED
  BY <1>5, <1>6, <1>7, <1>8, <1>9 DEF Next, ConnectThread, PollerThread, Polls, MainThread

LEMMA LoggedStep ==
  ASSUME IInv, [Next]_vars
  PROVE  Logged'
<1>0. /\ TypeInv /\ TypeOK /\ Logged /\ Attempt /\ Answers /\ Batches \subseteq SBatch
      /\ Now \in Nat /\ Now' \in Nat /\ Now <= Now' /\ \A i \in 1..Now : log'[i] = log[i]
      /\ token \in Nat /\ \A r : Current(r) \in 0..Now
  BY StreamIs, LogStep, CurrentIs DEF IInv, TypeInv, TypeOK, Queues
<1>1. ASSUME NEW b \in Batches' PROVE LoggedBatch(b)'
  <2>1. ASSUME NEW c \in Batches, b.token = c.token, b.events \subseteq c.events
        PROVE  LoggedBatch(b)'
    <3>1. c.token <= Now /\ c.token \in Nat
      BY <1>0, <2>1 DEF Logged, LoggedBatch, SBatch
    <3>2. ASSUME NEW i \in c.events
          PROVE  i \in 1..c.token /\ i = M!Last(log', log'[i].ref, c.token)
      <4>1. i \in 1..c.token /\ i = M!Last(log, log[i].ref, c.token) /\ log'[i] = log[i]
        BY <1>0, <2>1, <3>1 DEF Logged, LoggedBatch, LastOf
      <4>2. QED
        BY <1>0, <3>1, <4>1, LogStep
    <3>3. QED
      BY <1>0, <2>1, <3>1, <3>2 DEF LoggedBatch, LastOf
  <2>2. CASE b = NoBatch
    BY <1>0, <2>2 DEF LoggedBatch, NoBatch
  <2>3. ASSUME NEW p \in Gens, Emit(p), b = Emitted(p)
        PROVE  LoggedBatch(b)'
    <3>1. PICK t \in Nat, now \in Nat : t = pollers[p].token /\ now = pollers[p].reply.token
      BY <1>0, <2>3, EmitDoes
    <3>2. now <= Now /\ b.token = now /\ b.events = SinceAt(log, t, now) /\ log' = log
      BY <1>0, <2>3, <3>1 DEF Emit, Emitted, Answers, Answered
    <3>3. \A i \in b.events : i \in 1..now /\ i = M!Last(log, log[i].ref, now)
      BY <1>0, <3>2, SinceAtIs DEF LastOf
    <3>4. QED
      BY <1>0, <3>2, <3>3 DEF LoggedBatch, LastOf
  <2>4. QED
    BY <1>0, <2>1, <2>2, <2>3, BatchesFrom
<1>2. token' <= Now'
  <2>1. token' = token \/ token' = Now \/ token' = 0
    BY DEF Next, ServerChanges, BeginConnect, Disconnect, EndConnect, ConnectThread, Adopt, Load,
           Launch, LoadAndStart, Start, PollerThread, TakeJob, ServerAnswers, Emit, Polls, AnswerLost,
           ServerIsSilent, Retry, Quit, MainThread, HandleEvents, Enqueue, HandleClear, HandleLost,
           OnCacheUpdateTimer, UpdateCache, vars, attemptVars
  <2>2. QED
    BY <1>0, <2>1 DEF Logged
<1>3. ASSUME NEW g \in Gens
      PROVE  /\ pollers'[g].token <= Now'
             /\ \A k \in DOMAIN pollers'[g].jobs : pollers'[g].jobs[k].token <= Now'
  <2>1. /\ pollers[g].token <= Now /\ pollers[g].token \in Nat
        /\ \A k \in DOMAIN Jobs(g) : Jobs(g)[k].token <= Now /\ Jobs(g)[k] \in Job
        /\ Jobs(g) \in Seq(Job)
    BY <1>0, PollerIs, ElementOfSeq, LenProperties DEF Logged, Jobs
  <2>2. CASE pollers'[g].token = pollers[g].token /\ pollers'[g].jobs = Jobs(g)
    BY <1>0, <2>1, <2>2 DEF Job
  <2>3. CASE UNCHANGED pollers
    BY <2>2, <2>3 DEF Jobs
  <2>4. ASSUME NEW q \in Seq(Posted), EndConnect(q)
        PROVE  pollers'[g].token = pollers[g].token /\ pollers'[g].jobs = Jobs(g)
    <3>1. pollers[g] \in Poller
      BY <1>0, PollerIs
    <3>2. pollers'[g] = pollers[g] \/ pollers'[g] = [pollers[g] EXCEPT !.quit = TRUE]
      BY <2>4 DEF EndConnect
    <3>3. QED
      BY <3>1, <3>2 DEF Poller, Jobs
  <2>5. CASE Disconnect \/ HandleLost
    <3>1. Tail(mainq) \in Seq(Posted) \/ ~HandleLost
      BY <1>0, HeadTailProperties DEF HandleLost, Takes, TypeOK
    <3>2. QED
      BY <1>0, <2>2, <2>3, <2>4, <2>5, <3>1 DEF Disconnect, HandleLost, pollerVars, TypeOK
  <2>6. CASE Launch
    <3>1. CASE g # poller'
      BY <1>0, <2>2, <2>6, <3>1, LaunchDoes DEF Jobs
    <3>2. CASE g = poller'
      <4> DEFINE job == [of |-> attempts, token |-> token]
      <4>1. /\ pollers'[g].jobs = Append(Jobs(g), job) /\ pollers'[g].token = pollers[g].token
            /\ job \in Job /\ job.token <= Now
        BY <1>0, <2>6, <3>2, LaunchDoes DEF Logged
      <4> HIDE DEF job
      <4>2. /\ Append(Jobs(g), job) \in Seq(Job) /\ Len(Append(Jobs(g), job)) = Len(Jobs(g)) + 1
            /\ Append(Jobs(g), job)[Len(Jobs(g)) + 1] = job
            /\ \A k \in 1..Len(Jobs(g)) : Append(Jobs(g), job)[k] = Jobs(g)[k]
        BY <2>1, <4>1, AppendProperties
      <4>3. /\ DOMAIN Append(Jobs(g), job) = 1..Len(Jobs(g)) + 1 /\ DOMAIN Jobs(g) = 1..Len(Jobs(g))
            /\ Len(Jobs(g)) \in Nat
        BY <2>1, <4>2, LenProperties
      <4>4. \A k \in DOMAIN pollers'[g].jobs : pollers'[g].jobs[k].token <= Now
        BY <2>1, <4>1, <4>2, <4>3
      <4>5. log' = log
        BY <2>6 DEF Launch, LoadAndStart
      <4>6. QED
        BY <1>0, <2>1, <4>1, <4>4, <4>5 DEF Now
    <3>3. QED
      BY <3>1, <3>2
  <2>7. ASSUME NEW p \in Gens, PollerThread(p), g # p
        PROVE  pollers'[g] = pollers[g]
    BY <1>0, <2>7 DEF PollerThread, TakeJob, ServerAnswers, Emit, Polls, AnswerLost,
        ServerIsSilent, Retry, Quit, TypeOK
  <2>8. CASE TakeJob(g)
    <3>1. /\ pollers'[g].jobs = Tail(Jobs(g)) /\ pollers'[g].token = Jobs(g)[1].token
          /\ Jobs(g) # <<>> /\ Head(Jobs(g)) = Jobs(g)[1]
      BY <1>0, <2>1, <2>8, TakeJobDoes, HeadTailProperties
    <3>2. /\ Tail(Jobs(g)) \in Seq(Job) /\ Len(Tail(Jobs(g))) = Len(Jobs(g)) - 1
          /\ \A k \in 1..Len(Jobs(g)) - 1 : Tail(Jobs(g))[k] = Jobs(g)[k + 1]
      BY <2>1, <3>1, HeadTailProperties
    <3>3. /\ DOMAIN Tail(Jobs(g)) = 1..Len(Jobs(g)) - 1 /\ DOMAIN Jobs(g) = 1..Len(Jobs(g))
          /\ Len(Jobs(g)) \in Nat /\ Len(Jobs(g)) # 0
      BY <2>1, <3>1, <3>2, LenProperties, EmptySeq
    <3>4. \A k \in 1..Len(Jobs(g)) - 1 : k + 1 \in 1..Len(Jobs(g))
      BY <3>3
    <3>5. QED
      BY <1>0, <2>1, <3>1, <3>2, <3>3, <3>4 DEF Job
  <2>9. CASE ServerAnswers(g) \/ Polls(g)
    BY <1>0, <2>2, <2>9, ServerAnswersDoes, PollsDoes
  <2>10. CASE Emit(g)
    <3>1. CASE pollers[g].quit
      <4>1. pollers'[g] = NoPoller("gone")
        BY <1>0, <2>10, <3>1, EmitDoes
      <4>2. QED
        BY <1>0, <4>1 DEF NoPoller
    <3>2. CASE ~pollers[g].quit
      <4>1. pollers'[g].token <= Now /\ pollers'[g].token \in Nat /\ pollers'[g].jobs = Jobs(g)
        BY <1>0, <2>10, <3>2, EmitDoes DEF Answers, Answered
      <4>2. QED
        BY <1>0, <2>1, <4>1 DEF Job
    <3>3. QED
      BY <3>1, <3>2
  <2>11. CASE Quit(g)
    <3>1. pollers'[g] = NoPoller("gone")
      BY <1>0, <2>11 DEF Quit, TypeOK
    <3>2. QED
      BY <1>0, <3>1 DEF NoPoller
  <2>12. CASE \/ UNCHANGED vars \/ ServerChanges \/ BeginConnect \/ Adopt \/ Load
              \/ HandleEvents \/ HandleClear \/ OnCacheUpdateTimer \/ UpdateCache
    <3>1. UNCHANGED pollers
      BY <2>12 DEF vars, pollerVars, ServerChanges, BeginConnect, Adopt, Load, HandleEvents,
                   Enqueue, HandleClear, OnCacheUpdateTimer, UpdateCache
    <3>2. QED
      BY <2>3, <3>1
  <2>13. ASSUME NEW p \in Gens, PollerThread(p)
         PROVE  /\ pollers'[g].token <= Now'
                /\ \A k \in DOMAIN pollers'[g].jobs : pollers'[g].jobs[k].token <= Now'
    <3>1. CASE p # g
      BY <2>2, <2>7, <2>13, <3>1 DEF Jobs
    <3>2. CASE p = g
      BY <2>8, <2>9, <2>10, <2>11, <2>13, <3>2 DEF PollerThread, Polls
    <3>3. QED
      BY <3>1, <3>2
  <2>14. QED
    BY <2>5, <2>6, <2>12, <2>13 DEF Next, ConnectThread, MainThread
<1>4. ASSUME NEW r \in Ref
      PROVE  cache'[r] <= Now'
  <2>1. cache[r] <= Now /\ cache[r] \in Nat /\ cache \in [Ref -> 0..MaxChanges]
    BY <1>0, FeedAssumption DEF Logged, TypeOK
  <2>2. CASE UNCHANGED cache
    BY <1>0, <2>1, <2>2
  <2>3. CASE Adopt \/ HandleClear
    BY <1>0, <2>1, <2>3 DEF Adopt, HandleClear, Empty
  <2>4. CASE Load \/ Launch
    BY <1>0, <2>1, <2>4 DEF Load, Launch, LoadAndStart, LoadConsoles
  <2>5. CASE UpdateCache
    <3>1. PICK i \in 1..MaxChanges : i <= Now /\ (Apply(i) \/ Fetch(i))
      BY <1>0, <2>5, UpdateCacheDoes
    <3>2. cache'[r] \in {cache[r], 0, i, Current(log[i].ref)}
      BY <2>1, <3>1 DEF Apply, Fetch
    <3>3. QED
      BY <1>0, <2>1, <3>1, <3>2
  <2>6. QED
    BY <2>2, <2>3, <2>4, <2>5
    DEF Next, ServerChanges, BeginConnect, Disconnect, EndConnect, ConnectThread, PollerThread,
        TakeJob, ServerAnswers, Emit, Polls, AnswerLost,
            ServerIsSilent, Retry, Quit, MainThread, HandleEvents, Enqueue,
        HandleLost, OnCacheUpdateTimer, vars, cacheVars
<1>5. QED
  BY <1>1, <1>2, <1>3, <1>4 DEF Logged, Jobs


---------------------------------------------------------------------------------
\* Each part of the invariant is kept by every step.
LEMMA AttemptStep ==
  ASSUME IInv, [Next]_vars
  PROVE  Attempt'
<1>0. /\ TypeInv /\ TypeOK /\ Attempt /\ Generations /\ MaxAttempts \in Nat /\ attempts \in Nat
      /\ mainq \in Seq(Posted) /\ \A n \in Gens : n # 0
  BY FeedAssumption DEF IInv, TypeInv, TypeOK, Gens
<1>1. ASSUME UNCHANGED attemptVars, UNCHANGED poller,
             \/ mainq' = mainq
             \/ mainq # <<>> /\ mainq' = Tail(mainq)
             \/ \E m \in Posted : m.kind # "clear" /\ mainq' = Append(mainq, m)
      PROVE  Attempt'
  <2>1. /\ DOMAIN mainq = 1..Len(mainq) /\ Len(mainq) \in Nat
    BY <1>0, LenProperties
  <2>2. (\A k \in DOMAIN mainq : mainq[k].kind # "clear")
          => \A k \in DOMAIN mainq' : mainq'[k].kind # "clear"
    <3>1. ASSUME mainq # <<>>, mainq' = Tail(mainq)
          PROVE  /\ DOMAIN mainq' = 1..Len(mainq) - 1
                 /\ \A k \in 1..Len(mainq) - 1 : mainq'[k] = mainq[k + 1] /\ k + 1 \in 1..Len(mainq)
      <4>1. /\ Tail(mainq) \in Seq(Posted) /\ Len(Tail(mainq)) = Len(mainq) - 1
            /\ \A k \in 1..Len(mainq) - 1 : Tail(mainq)[k] = mainq[k + 1]
        BY <1>0, <3>1, HeadTailProperties
      <4>2. DOMAIN Tail(mainq) = 1..Len(mainq) - 1
        BY <4>1, LenProperties
      <4>3. QED
        BY <2>1, <3>1, <4>1, <4>2
    <3>2. ASSUME NEW m \in Posted, mainq' = Append(mainq, m)
          PROVE  /\ DOMAIN mainq' = 1..Len(mainq) + 1 /\ mainq'[Len(mainq) + 1] = m
                 /\ \A k \in 1..Len(mainq) : mainq'[k] = mainq[k]
      <4>1. /\ Append(mainq, m) \in Seq(Posted) /\ Len(Append(mainq, m)) = Len(mainq) + 1
            /\ Append(mainq, m)[Len(mainq) + 1] = m
            /\ \A k \in 1..Len(mainq) : Append(mainq, m)[k] = mainq[k]
        BY <1>0, AppendProperties
      <4>2. DOMAIN Append(mainq, m) = 1..Len(mainq) + 1
        BY <4>1, LenProperties
      <4>3. QED
        BY <3>2, <4>1, <4>2
    <3>3. CASE mainq # <<>> /\ mainq' = Tail(mainq)
      BY <2>1, <3>1, <3>3
    <3>4. ASSUME NEW m \in Posted, m.kind # "clear", mainq' = Append(mainq, m)
          PROVE  (\A k \in DOMAIN mainq : mainq[k].kind # "clear")
                   => \A k \in DOMAIN mainq' : mainq'[k].kind # "clear"
      BY <2>1, <3>2, <3>4
    <3>5. QED
      BY <1>1, <3>3, <3>4
  <2>3. QED
    BY <1>0, <1>1, <2>2 DEF Attempt, attemptVars
<1>2. ASSUME NEW q \in Seq(Posted), EndConnect(q)
      PROVE  Attempt'
  BY <1>0, <1>2 DEF EndConnect, Attempt
<1>3. CASE BeginConnect
  BY <1>0, <1>3, EmptySeq DEF BeginConnect, Attempt, pollerVars, queueVars
<1>4. CASE Adopt
  BY <1>0, <1>4 DEF Adopt, Attempt, pollerVars, queueVars
<1>5. CASE Load
  BY <1>0, <1>5 DEF Load, Attempt, pollerVars, queueVars
<1>6. CASE Launch
  BY <1>0, <1>6, LaunchDoes DEF Launch, LoadAndStart, Attempt, queueVars
<1>7. CASE UNCHANGED vars \/ ServerChanges \/ OnCacheUpdateTimer \/ UpdateCache
  BY <1>1, <1>7
  DEF vars, pollerVars, queueVars, ServerChanges, OnCacheUpdateTimer, UpdateCache
<1>8. CASE HandleEvents \/ HandleClear
  BY <1>1, <1>8 DEF HandleEvents, Enqueue, HandleClear, Takes, pollerVars
<1>9. CASE HandleLost
  <2>1. Tail(mainq) \in Seq(Posted) /\ mainq # <<>>
    BY <1>0, <1>9, HeadTailProperties DEF HandleLost, Takes
  <2>2. CASE task # 0
    BY <1>2, <1>9, <2>1, <2>2 DEF HandleLost
  <2>3. CASE task = 0
    BY <1>1, <1>9, <2>1, <2>3 DEF HandleLost, pollerVars
  <2>4. QED
    BY <2>2, <2>3
<1>10. CASE Disconnect
  BY <1>0, <1>2, <1>10 DEF Disconnect
<1>11. ASSUME NEW p \in Gens, PollerThread(p)
       PROVE  Attempt'
  <2>1. UNCHANGED attemptVars /\ UNCHANGED poller
    BY <1>11 DEF PollerThread, TakeJob, ServerAnswers, Emit, Polls, AnswerLost,
        ServerIsSilent, Retry, Quit
  <2>2. CASE TakeJob(p) \/ ServerAnswers(p) \/ Quit(p)
    BY <1>1, <2>1, <2>2 DEF TakeJob, ServerAnswers, Quit, queueVars
  <2>3. CASE Emit(p)
    <3> DEFINE m == [kind |-> "events", batch |-> Emitted(p)]
    <3>1. m \in Posted /\ m.kind # "clear"
      BY <1>0, <2>3, EmitDoes DEF Posted
    <3>2. mainq' = Append(mainq, m)
      BY <2>3 DEF Emit, Emitted
    <3> HIDE DEF m
    <3>3. QED
      BY <1>1, <2>1, <3>1, <3>2
  <2>4. CASE Polls(p)
    <3>1. [kind |-> "lost"] \in Posted /\ [kind |-> "lost"].kind # "clear"
      BY DEF Posted
    <3>2. QED
      BY <1>0, <1>1, <2>1, <2>4, <3>1, PollsDoes
  <2>5. QED
    BY <1>11, <2>2, <2>3, <2>4 DEF PollerThread, Polls
<1>12. QED
  BY <1>3, <1>4, <1>5, <1>6, <1>7, <1>8, <1>9, <1>10, <1>11 DEF Next, ConnectThread, MainThread

\* An attempt that has begun stays so, and only Launch gives a poller work for another one.
LEMMA BeganStep ==
  ASSUME IInv, [Next]_vars, NEW g \in Nat, Began(g)
  PROVE  Began(g)'
<1>1. attempts \in Nat
  BY FeedAssumption DEF IInv, TypeInv, TypeOK, Gens
<1>2. CASE BeginConnect
  BY <1>1, <1>2 DEF BeginConnect, Began
<1>3. CASE ~BeginConnect
  <2>1. attempts' = attempts /\ (thread' # "none" => thread # "none")
    BY <1>3
    DEF Next, ServerChanges, Disconnect, EndConnect, ConnectThread, Adopt, Load, Launch,
        LoadAndStart, PollerThread, TakeJob, ServerAnswers, Emit, Polls, AnswerLost,
            ServerIsSilent, Retry, Quit,
        MainThread, HandleEvents, Enqueue, HandleClear, HandleLost, OnCacheUpdateTimer,
        UpdateCache, vars, attemptVars
  <2>2. QED
    BY <1>1, <2>1 DEF Began
<1>4. QED
  BY <1>2, <1>3

LEMMA OfPollerStep ==
  ASSUME IInv, [Next]_vars, NEW p \in Gens, NEW g \in Gens,
         pollers'[p].of = g \/ \E k \in DOMAIN pollers'[p].jobs : pollers'[p].jobs[k].of = g
  PROVE  OfPoller(p, g) \/ (Launch /\ p = poller' /\ g = attempts)
<1>0. /\ TypeInv /\ TypeOK /\ Attempt /\ g # 0 /\ Jobs(p) \in Seq(Job) /\ pollers[p] \in Poller
      /\ DOMAIN Jobs(p) = 1..Len(Jobs(p)) /\ Len(Jobs(p)) \in Nat
  <2>1. TypeInv /\ TypeOK /\ Attempt /\ g # 0
    BY FeedAssumption DEF IInv, TypeInv, Gens
  <2>2. QED
    BY <2>1, PollerIs, LenProperties DEF Jobs
<1>1. ASSUME pollers'[p].of = pollers[p].of /\ pollers'[p].jobs = Jobs(p)
      PROVE  OfPoller(p, g)
  BY <1>1 DEF OfPoller
<1>2. ASSUME pollers'[p] = pollers[p]
      PROVE  OfPoller(p, g)
  BY <1>1, <1>2 DEF Jobs
<1>3. ASSUME NEW q \in Seq(Posted), EndConnect(q)
      PROVE  OfPoller(p, g)
  <2>1. pollers'[p] = pollers[p] \/ pollers'[p] = [pollers[p] EXCEPT !.quit = TRUE]
    BY <1>3 DEF EndConnect
  <2>2. pollers'[p].of = pollers[p].of /\ pollers'[p].jobs = Jobs(p)
    BY <1>0, <2>1 DEF Poller, Jobs
  <2>3. QED
    BY <1>1, <2>2
<1>4. CASE Disconnect \/ HandleLost
  <2>1. Tail(mainq) \in Seq(Posted) \/ ~HandleLost
    BY <1>0, HeadTailProperties DEF HandleLost, Takes, TypeOK
  <2>2. QED
    BY <1>0, <1>2, <1>3, <1>4, <2>1 DEF Disconnect, HandleLost, pollerVars, TypeOK
<1>5. CASE Launch
  <2>1. CASE p # poller'
    BY <1>0, <1>2, <1>5, <2>1, LaunchDoes
  <2>2. CASE p = poller'
    <3> DEFINE job == [of |-> attempts, token |-> token]
    <3>1. /\ pollers'[p].jobs = Append(Jobs(p), job) /\ pollers'[p].of = pollers[p].of
          /\ job \in Job /\ job.of = attempts
      BY <1>0, <1>5, <2>2, LaunchDoes
    <3> HIDE DEF job
    <3>2. /\ Append(Jobs(p), job) \in Seq(Job) /\ Len(Append(Jobs(p), job)) = Len(Jobs(p)) + 1
          /\ Append(Jobs(p), job)[Len(Jobs(p)) + 1] = job
          /\ \A k \in 1..Len(Jobs(p)) : Append(Jobs(p), job)[k] = Jobs(p)[k]
      BY <1>0, <3>1, AppendProperties
    <3>3. DOMAIN Append(Jobs(p), job) = 1..Len(Jobs(p)) + 1
      BY <3>2, LenProperties
    <3>4. \A k \in 1..Len(Jobs(p)) + 1 : k \in 1..Len(Jobs(p)) \/ k = Len(Jobs(p)) + 1
      BY <1>0
    <3>5. QED
      BY <1>0, <1>5, <2>2, <3>1, <3>2, <3>3, <3>4 DEF OfPoller
  <2>3. QED
    BY <2>1, <2>2
<1>6. ASSUME NEW h \in Gens, PollerThread(h), p # h
      PROVE  pollers'[p] = pollers[p]
  BY <1>0, <1>6 DEF PollerThread, TakeJob, ServerAnswers, Emit, Polls, AnswerLost,
      ServerIsSilent, Retry, Quit, TypeOK
<1>7. ASSUME TakeJob(p)
      PROVE  OfPoller(p, g)
  <2>1. /\ pollers'[p].jobs = Tail(Jobs(p)) /\ pollers'[p].of = Jobs(p)[1].of
        /\ Jobs(p) # <<>> /\ 1 \in DOMAIN Jobs(p)
    BY <1>0, <1>7, TakeJobDoes, HeadTailProperties, EmptySeq
  <2>2. /\ Tail(Jobs(p)) \in Seq(Job) /\ Len(Tail(Jobs(p))) = Len(Jobs(p)) - 1
        /\ \A k \in 1..Len(Jobs(p)) - 1 : Tail(Jobs(p))[k] = Jobs(p)[k + 1]
    BY <1>0, <2>1, HeadTailProperties
  <2>3. DOMAIN Tail(Jobs(p)) = 1..Len(Jobs(p)) - 1
    BY <2>2, LenProperties
  <2>4. \A k \in 1..Len(Jobs(p)) - 1 : k + 1 \in DOMAIN Jobs(p)
    BY <1>0
  <2>5. QED
    BY <2>1, <2>2, <2>3, <2>4 DEF OfPoller
<1>8. ASSUME ServerAnswers(p) \/ Polls(p)
      PROVE  OfPoller(p, g)
  BY <1>0, <1>1, <1>8, ServerAnswersDoes, PollsDoes
<1>9. ASSUME pollers'[p] = NoPoller("gone")
      PROVE  FALSE
  BY <1>0, <1>9 DEF NoPoller
<1>10. ASSUME Emit(p)
       PROVE  OfPoller(p, g)
  BY <1>0, <1>1, <1>9, <1>10, EmitDoes
<1>11. ASSUME Quit(p)
       PROVE  OfPoller(p, g)
  BY <1>0, <1>9, <1>11 DEF Quit, TypeOK
<1>12. CASE \/ UNCHANGED vars \/ ServerChanges \/ BeginConnect \/ Adopt \/ Load
            \/ HandleEvents \/ HandleClear \/ OnCacheUpdateTimer \/ UpdateCache
  <2>1. UNCHANGED pollers
    BY <1>12 DEF vars, pollerVars, ServerChanges, BeginConnect, Adopt, Load, HandleEvents, Enqueue,
                 HandleClear, OnCacheUpdateTimer, UpdateCache
  <2>2. QED
    BY <1>2, <2>1
<1>13. ASSUME NEW h \in Gens, PollerThread(h)
       PROVE  OfPoller(p, g)
  <2>1. CASE p # h
    BY <1>2, <1>6, <1>13, <2>1
  <2>2. CASE p = h
    BY <1>7, <1>8, <1>10, <1>11, <1>13, <2>2 DEF PollerThread, Polls
  <2>3. QED
    BY <2>1, <2>2
<1>14. QED
  BY <1>4, <1>5, <1>12, <1>13 DEF Next, ConnectThread, MainThread

LEMMA GenerationsStep ==
  ASSUME IInv, [Next]_vars
  PROVE  Generations'
<1>0. /\ TypeInv /\ TypeOK /\ Logged /\ Attempt /\ Attempt' /\ Generations
      /\ attempts \in Nat /\ attempts' \in Nat
      /\ \A n \in Gens : n # 0 /\ n \in Nat
      /\ {task, task', poller} \subseteq {0} \cup Gens /\ pollers \in [Gens -> Poller]
  <2>1. Attempt' /\ TypeOK'
    BY AttemptStep, TypeInvStep DEF TypeInv
  <2>2. {0} \cup Gens \subseteq Nat /\ \A n \in Gens : n # 0
    BY FeedAssumption DEF Gens
  <2>3. /\ {task, poller, attempts} \subseteq {0} \cup Gens
        /\ {task, poller, attempts}' \subseteq {0} \cup Gens
    BY <2>1 DEF IInv, TypeInv, TypeOK
  <2>4. QED
    BY <2>1, <2>2, <2>3 DEF IInv, TypeInv, TypeOK
<1>1. ASSUME NEW b \in Batches' PROVE Began(b.of)'
  <2>1. ASSUME NEW c \in Batches, b.of = c.of PROVE Began(b.of)'
    <3>1. c.of \in Nat /\ Began(c.of)
      BY <1>0, StreamIs DEF Generations, SBatch, TypeOK, Queues
    <3>2. QED
      BY <2>1, <3>1, BeganStep
  <2>2. CASE b = NoBatch
    BY <1>0, <2>2 DEF NoBatch, Began, Attempt
  <2>3. ASSUME NEW p \in Gens, Emit(p), b = Emitted(p) PROVE Began(b.of)'
    <3>1. b.of \in Gens /\ b.of = pollers[p].of
      BY <1>0, <2>3, EmitDoes DEF Emitted, Batch
    <3>2. Began(b.of)
      BY <1>0, <3>1, <2>3 DEF Generations, OfPoller
    <3>3. QED
      BY <1>0, <3>1, <3>2, BeganStep
  <2>4. QED
    BY <1>0, <2>1, <2>2, <2>3, BatchesFrom
<1>2. ASSUME NEW p \in Gens, NEW g \in Gens, OfPoller(p, g)' PROVE Began(g)'
  <2>1. OfPoller(p, g) \/ (Launch /\ g = attempts)
    BY <1>2, OfPollerStep DEF OfPoller, Jobs
  <2>2. CASE OfPoller(p, g)
    BY <1>0, <2>2, BeganStep DEF Generations
  <2>3. CASE Launch /\ g = attempts
    BY <1>0, <2>3 DEF Launch, LoadAndStart, Began
  <2>4. QED
    BY <2>1, <2>2, <2>3
<1>3. ASSUME NEW p \in Gens, ~Began(p)' PROVE pollers'[p] = NoPoller("none")
  <2>1. /\ pollers[p] = NoPoller("none") /\ pollers[p].at = "none" /\ p # poller
        /\ pollers[p].jobs = <<>>
    <3>1. pollers[p] = NoPoller("none")
      BY <1>0, <1>3, BeganStep DEF Generations
    <3>2. pollers[p].at = "none" /\ pollers[p].jobs = <<>>
      BY <3>1 DEF NoPoller
    <3>3. QED
      BY <1>0, <3>1, <3>2 DEF Generations
  <2>2. CASE UNCHANGED pollers
    BY <2>1, <2>2
  <2>3. CASE Disconnect \/ HandleLost
    BY <1>0, <2>1, <2>3 DEF Disconnect, HandleLost, EndConnect, pollerVars
  <2>4. CASE Launch
    <3>1. p # attempts
      BY <1>0, <1>3, <2>4 DEF Launch, LoadAndStart, Began
    <3>2. p # poller'
      BY <1>0, <2>1, <2>4, <3>1, LaunchDoes
    <3>3. QED
      BY <1>0, <2>1, <2>4, <3>2, LaunchDoes
  <2>5. ASSUME NEW h \in Gens, PollerThread(h)
        PROVE  pollers'[p] = pollers[p]
    <3>1. p # h
      BY <2>1, <2>5 DEF PollerThread, TakeJob, ServerAnswers, Emit, Polls, AnswerLost,
          ServerIsSilent, Retry, Quit
    <3>2. QED
      BY <1>0, <2>5, <3>1 DEF PollerThread, TakeJob, ServerAnswers, Emit, Polls, AnswerLost,
          ServerIsSilent, Retry, Quit
  <2>6. QED
    BY <2>1, <2>2, <2>3, <2>4, <2>5
    DEF Next, ServerChanges, BeginConnect, ConnectThread, Adopt, Load, MainThread, HandleEvents,
        Enqueue, HandleClear, OnCacheUpdateTimer, UpdateCache, vars, pollerVars
<1>4. ASSUME poller' # 0
      PROVE  pollers'[poller'].at \in {"idle", "from", "answered"} /\ ~pollers'[poller'].quit
  <2>1. CASE UNCHANGED pollerVars
    BY <1>0, <1>4, <2>1 DEF Generations, pollerVars
  <2>2. CASE Disconnect \/ HandleLost
    BY <1>0, <1>4, <2>1, <2>2 DEF Disconnect, HandleLost, EndConnect
  <2>3. CASE Launch
    <3>1. CASE poller = 0
      <4>1. ~Began(attempts) /\ attempts \in Gens /\ poller' = attempts
        BY <1>0, <2>3, <3>1, LaunchDoes DEF Launch, LoadAndStart, Began
      <4>2. pollers[attempts].quit = FALSE
        BY <1>0, <4>1 DEF Generations, NoPoller
      <4>3. QED
        BY <1>0, <2>3, <3>1, <4>1, <4>2, LaunchDoes
    <3>2. CASE poller # 0
      BY <1>0, <2>3, <3>2, LaunchDoes DEF Generations
    <3>3. QED
      BY <3>1, <3>2
  <2>4. ASSUME NEW h \in Gens, PollerThread(h)
        PROVE  pollers'[poller].at \in {"idle", "from", "answered"} /\ ~pollers'[poller].quit
               /\ poller' = poller
    <3>1. poller' = poller /\ poller \in Gens
      BY <1>0, <1>4, <2>4 DEF PollerThread, TakeJob, ServerAnswers, Emit, Polls, AnswerLost,
          ServerIsSilent, Retry, Quit
    <3>2. pollers[poller].at \in {"idle", "from", "answered"} /\ ~pollers[poller].quit
      BY <1>0, <1>4, <3>1 DEF Generations
    <3>3. CASE h # poller
      <4>1. pollers'[poller] = pollers[poller]
        BY <1>0, <2>4, <3>1, <3>3
        DEF PollerThread, TakeJob, ServerAnswers, Emit, Polls, AnswerLost,
            ServerIsSilent, Retry, Quit
      <4>2. QED
        BY <3>1, <3>2, <4>1
    <3>4. CASE h = poller
      <4>1. ~Quit(h)
        BY <3>2, <3>4 DEF Quit
      <4>2. QED
        BY <1>0, <2>4, <3>1, <3>2, <3>4, <4>1, TakeJobDoes, ServerAnswersDoes,
           EmitDoes, PollsDoes
        DEF PollerThread, Polls
    <3>5. QED
      BY <3>3, <3>4
  <2>5. QED
    BY <2>1, <2>2, <2>3, <2>4
    DEF Next, ServerChanges, BeginConnect, ConnectThread, Adopt, Load, MainThread, HandleEvents,
        Enqueue, HandleClear, OnCacheUpdateTimer, UpdateCache, vars
<1>5. ASSUME task' # 0, NEW p \in Gens \ {poller'} PROVE ~OfPoller(p, task)'
  <2>1. SUFFICES ASSUME OfPoller(p, task)' PROVE FALSE
    OBVIOUS
  <2>2. PICK g \in Gens : g = task'
    BY <1>0, <1>5
  <2>3. OfPoller(p, g)'
    BY <2>1, <2>2 DEF OfPoller
  <2>4. OfPoller(p, g)
    BY <1>5, <2>3, OfPollerStep DEF OfPoller, Jobs
  <2>5. CASE BeginConnect
    BY <1>0, <2>2, <2>4, <2>5 DEF BeginConnect, Generations, Began
  <2>6. CASE Disconnect \/ (HandleLost /\ task # 0)
    BY <1>5, <2>6 DEF Disconnect, HandleLost, EndConnect
  <2>7. CASE task' = task /\ (poller' = poller \/ poller = 0)
    BY <1>0, <1>5, <2>2, <2>4, <2>7 DEF Generations
  <2>8. task' = task \/ BeginConnect \/ Disconnect \/ (HandleLost /\ task # 0)
    BY DEF Next, ServerChanges, ConnectThread, Adopt, Load, Launch, LoadAndStart, PollerThread,
           TakeJob, ServerAnswers, Emit, Polls, AnswerLost,
               ServerIsSilent, Retry, Quit, MainThread, HandleEvents, Enqueue,
           HandleClear, HandleLost, OnCacheUpdateTimer, UpdateCache, vars, attemptVars
  <2>9. poller' = poller \/ poller = 0 \/ Disconnect \/ (HandleLost /\ task # 0)
    BY DEF Next, ServerChanges, BeginConnect, ConnectThread, Adopt, Load, Launch, LoadAndStart,
           Start, PollerThread, TakeJob, ServerAnswers, Emit, Polls, AnswerLost,
               ServerIsSilent, Retry, Quit, MainThread,
           HandleEvents, Enqueue, HandleClear, HandleLost, OnCacheUpdateTimer, UpdateCache, vars,
           pollerVars
  <2>10. QED
    BY <2>5, <2>6, <2>7, <2>8, <2>9
<1>6. QED
  BY <1>1, <1>2, <1>3, <1>4, <1>5 DEF Generations

\* What a session before has left to apply takes objects out of the cache's care.
LEMMA OthersApplied ==
  ASSUME TypeOK, Logged, UpdateCache, connected, Head(Stream).of # task
  PROVE  \A r \in Ref \ (uncovered' \cup unread') :
           r \in Ref \ (uncovered \cup unread) /\ cache'[r] = cache[r]
<1>1. PICK i \in Head(Stream).events : Apply(i) \/ Fetch(i)
  BY UpdateCacheDoes
<1>2. Head(updating).of # task /\ cache \in [Ref -> 0..MaxChanges]
  BY UpdateCacheDoes DEF TypeOK
<1>3. QED
  BY <1>1, <1>2 DEF Apply, Fetch, Uncovered

\* The posted Clear finds no session.
LEMMA ClearIs ==
  ASSUME TypeOK, Attempt, HandleClear
  PROVE  task = 0 /\ ~connected
<1>1. mainq \in Seq(Posted) /\ mainq # <<>> /\ Head(mainq).kind = "clear"
  BY DEF HandleClear, Takes, TypeOK
<1>2. Head(mainq) = mainq[1] /\ 1 \in DOMAIN mainq
  BY <1>1, HeadTailProperties, EmptySeq, LenProperties
<1>3. QED
  BY <1>1, <1>2 DEF Attempt

LEMMA LoadingStep ==
  ASSUME IInv, [Next]_vars
  PROVE  Loading'
<1>0. /\ TypeInv /\ TypeOK /\ Logged /\ Attempt /\ Generations /\ Loading
      /\ Now \in Nat /\ Now' \in Nat /\ Now <= Now' /\ token \in Nat /\ token <= Now
  BY FeedAssumption, LogStep DEF IInv, TypeInv, TypeOK, Logged
<1>1. CASE UNCHANGED <<connected, thread, token, cache, uncovered, unread>>
  <2>1. \A s, r : M!Fresh(log, r, s, token) => M!Fresh(log', r, s, token)
    BY <1>0, LogStep
  <2>2. QED
    BY <1>0, <1>1, <2>1 DEF Loading, FreshAt
<1>2. CASE Adopt
  BY <1>0, <1>2 DEF Adopt, Loading, Attempt, Empty
<1>3. CASE Load
  <2> DEFINE there == {r \in Ref : Current(r) # 0}
  <2>1. thread = "load" /\ thread' = "consoles" /\ connected' = connected /\ log' = log
    BY <1>3 DEF Load
  <2>2. CASE token' = 0 /\ UNCHANGED <<cache, uncovered, unread>>
    BY <1>0, <2>1, <2>2 DEF Loading
  <2>3. CASE /\ token' = Now
             /\ cache' = [r \in Ref |-> IF r \in there THEN Current(r) ELSE cache[r]]
             /\ uncovered' = uncovered \ there /\ unread' = unread \ there
    <3>1. ASSUME connected, NEW r \in Ref \ (uncovered' \cup unread')
          PROVE  cache'[r] = Current(r) /\ M!Fresh(log', r, cache'[r], token')
      <4>1. cache'[r] = Current(r)
        BY <1>0, <2>1, <2>3, <3>1 DEF Loading
      <4>2. M!Fresh(log, r, Current(r), Now)
        BY <1>0, FreshNow DEF Current, Now
      <4>3. QED
        BY <2>1, <2>3, <4>1, <4>2
    <3>2. \A r : Now = 0 => Current(r) = 0
      BY <1>0, CurrentIs
    <3>3. QED
      BY <2>1, <2>3, <3>1, <3>2 DEF Loading, FreshAt
  <2>4. QED
    BY <1>3, <2>2, <2>3 DEF Load
<1>4. CASE Launch
  BY <1>4 DEF Launch, LoadAndStart, Loading
<1>5. CASE BeginConnect
  BY <1>0, <1>5 DEF BeginConnect, Loading
<1>6. CASE Disconnect \/ HandleLost
  BY <1>0, <1>1, <1>6 DEF Disconnect, HandleLost, EndConnect, Loading, attemptVars, cacheVars
<1>7. CASE HandleClear
  <2>1. ~connected /\ connected' = connected
    BY <1>0, <1>7, ClearIs DEF HandleClear, attemptVars
  <2>2. QED
    BY <2>1 DEF Loading
<1>8. CASE UpdateCache
  <2>1. UNCHANGED <<log, connected, thread, token>>
    BY <1>8 DEF UpdateCache, attemptVars
  <2>2. CASE connected /\ thread \in {"load", "consoles"}
    <3>1. Head(Stream) \in Batches /\ Head(Stream) \in Batch
      BY <1>0, <1>8, UpdateCacheDoes
    <3>2. Head(Stream).of # task
      <4>1. /\ Head(Stream).of < attempts /\ task = attempts /\ attempts \in Nat
            /\ Head(Stream).of \in Nat
        BY <1>0, <2>2, <3>1, FeedAssumption DEF Generations, Began, Attempt, TypeOK, Batch, Gens
      <4>2. QED
        BY <4>1
    <3>3. \A r \in Ref \ (uncovered' \cup unread') :
            r \in Ref \ (uncovered \cup unread) /\ cache'[r] = cache[r]
      BY <1>0, <1>8, <2>2, <3>2, OthersApplied
    <3>4. QED
      BY <1>0, <2>1, <2>2, <3>3 DEF Loading, FreshAt
  <2>3. QED
    BY <2>1, <2>2 DEF Loading
<1>9. QED
  BY <1>1, <1>2, <1>3, <1>4, <1>5, <1>6, <1>7, <1>8
  DEF Next, ServerChanges, ConnectThread, PollerThread, TakeJob, ServerAnswers, Emit, Polls, AnswerLost,

          ServerIsSilent, Retry, Quit, MainThread, HandleEvents, Enqueue, OnCacheUpdateTimer, vars, attemptVars,
      cacheVars

---------------------------------------------------------------------------------
\* A sequence of batches after one has come, or after the first has changed or gone: those
\* of g, and their order.
LEMMA BatchComes ==
  ASSUME NEW s \in Seq(SBatch), NEW b \in SBatch, NEW g, InOrder(s, g),
         b.of = g => \A c \in MineOf(s, g) : c.token < b.token
  PROVE  /\ MineOf(Append(s, b), g) = MineOf(s, g) \cup (IF b.of = g THEN {b} ELSE {})
         /\ InOrder(Append(s, b), g)
<1>1. MineOf(Append(s, b), g) = MineOf(s, g) \cup (IF b.of = g THEN {b} ELSE {})
  <2>1. Range(Append(s, b)) = Range(s) \cup {b}
    BY RangeIs
  <2>2. QED
    BY <2>1 DEF MineOf
<1>2. /\ Len(s) \in Nat /\ DOMAIN s = 1..Len(s) /\ DOMAIN Append(s, b) = 1..Len(s) + 1
      /\ Append(s, b)[Len(s) + 1] = b /\ \A k \in 1..Len(s) : Append(s, b)[k] = s[k]
  <2>1. /\ Append(s, b) \in Seq(SBatch) /\ Len(Append(s, b)) = Len(s) + 1
        /\ Append(s, b)[Len(s) + 1] = b /\ \A k \in 1..Len(s) : Append(s, b)[k] = s[k]
    BY AppendProperties
  <2>2. QED
    BY <2>1, LenProperties
<1>3. ASSUME NEW j \in DOMAIN Append(s, b), NEW k \in DOMAIN Append(s, b),
             Append(s, b)[j].of = g, Append(s, b)[k].of = g, j < k
      PROVE  Append(s, b)[j].token < Append(s, b)[k].token
  <2>1. j \in 1..Len(s)
    BY <1>2, <1>3
  <2>2. CASE k \in 1..Len(s)
    BY <1>2, <1>3, <2>1, <2>2 DEF InOrder
  <2>3. CASE k = Len(s) + 1
    <3>1. s[j] \in MineOf(s, g)
      BY <1>2, <1>3, <2>1 DEF MineOf, Range
    <3>2. QED
      BY <1>2, <1>3, <2>1, <2>3, <3>1
  <2>4. QED
    BY <1>2, <2>2, <2>3
<1>4. QED
  BY <1>1, <1>3 DEF InOrder

LEMMA BatchGoes ==
  ASSUME NEW s \in Seq(SBatch), s # <<>>, NEW g, InOrder(s, g)
  PROVE  /\ MineOf(Tail(s), g) = MineOf(s, g) \ (IF Head(s).of = g THEN {Head(s)} ELSE {})
         /\ InOrder(Tail(s), g)
         /\ Head(s).of = g => /\ Head(s) \in MineOf(s, g)
                              /\ \A c \in MineOf(s, g) \ {Head(s)} : Head(s).token < c.token
<1>1. /\ Len(s) \in Nat \ {0} /\ DOMAIN s = 1..Len(s) /\ DOMAIN Tail(s) = 1..Len(s) - 1
      /\ Head(s) = s[1] /\ \A k \in 1..Len(s) - 1 : Tail(s)[k] = s[k + 1]
      /\ \A k \in 1..Len(s) : s[k] \in SBatch
  <2>1. /\ Tail(s) \in Seq(SBatch) /\ Len(Tail(s)) = Len(s) - 1 /\ Head(s) = s[1]
        /\ \A k \in 1..Len(s) - 1 : Tail(s)[k] = s[k + 1]
    BY HeadTailProperties
  <2>2. DOMAIN Tail(s) = 1..Len(s) - 1 /\ DOMAIN s = 1..Len(s) /\ Len(s) \in Nat
    BY <2>1, LenProperties
  <2>3. Len(s) # 0 /\ \A k \in 1..Len(s) : s[k] \in SBatch
    BY EmptySeq, ElementOfSeq
  <2>4. QED
    BY <2>1, <2>2, <2>3
<1>2. \A k \in 1..Len(s) - 1 : k + 1 \in 1..Len(s)
  BY <1>1
<1>3. \A k \in 1..Len(s) : k = 1 \/ (k - 1 \in 1..Len(s) - 1 /\ k - 1 + 1 = k)
  BY <1>1
<1>4. ASSUME NEW k \in 1..Len(s), k # 1, s[k].of = g, Head(s).of = g
      PROVE  Head(s).token < s[k].token
  <2>1. 1 \in DOMAIN s /\ k \in DOMAIN s /\ 1 < k /\ s[1].of = g
    BY <1>1, <1>4
  <2>2. QED
    BY <1>1, <1>4, <2>1 DEF InOrder
<1>5. Head(s) \in SBatch /\ Head(s).token \in Nat
  BY <1>1, FeedAssumption DEF SBatch
<1>6. MineOf(Tail(s), g) = MineOf(s, g) \ (IF Head(s).of = g THEN {Head(s)} ELSE {})
  <2>1. ASSUME NEW b \in MineOf(Tail(s), g)
        PROVE  b \in MineOf(s, g) /\ (Head(s).of = g => b # Head(s))
    <3>1. PICK k \in 1..Len(s) - 1 : b = s[k + 1] /\ b.of = g
      BY <1>1, <2>1 DEF MineOf, Range
    <3>2. k + 1 \in 1..Len(s) /\ k + 1 # 1
      BY <1>2, <3>1
    <3>3. b \in MineOf(s, g)
      BY <1>1, <3>1, <3>2 DEF MineOf, Range
    <3>4. Head(s).of = g => Head(s).token < b.token
      BY <1>4, <3>1, <3>2
    <3>5. QED
      BY <1>5, <3>3, <3>4
  <2>2. ASSUME NEW b \in MineOf(s, g), Head(s).of = g => b # Head(s)
        PROVE  b \in MineOf(Tail(s), g)
    <3>1. PICK k \in 1..Len(s) : b = s[k] /\ b.of = g
      BY <1>1, <2>2 DEF MineOf, Range
    <3>2. k # 1
      BY <1>1, <2>2, <3>1
    <3>3. k - 1 \in DOMAIN Tail(s) /\ Tail(s)[k - 1] = b
      BY <1>1, <1>3, <3>1, <3>2
    <3>4. QED
      BY <3>1, <3>3 DEF MineOf, Range
  <2>3. QED
    BY <2>1, <2>2
<1>7. ASSUME NEW j \in DOMAIN Tail(s), NEW k \in DOMAIN Tail(s),
             Tail(s)[j].of = g, Tail(s)[k].of = g, j < k
      PROVE  Tail(s)[j].token < Tail(s)[k].token
  <2>1. j + 1 \in DOMAIN s /\ k + 1 \in DOMAIN s /\ j + 1 < k + 1
    BY <1>1, <1>2, <1>7
  <2>2. QED
    BY <1>1, <1>7, <2>1 DEF InOrder
<1>8. ASSUME Head(s).of = g
      PROVE  /\ Head(s) \in MineOf(s, g)
             /\ \A c \in MineOf(s, g) \ {Head(s)} : Head(s).token < c.token
  <2>1. Head(s) \in MineOf(s, g)
    BY <1>1, <1>8 DEF MineOf, Range
  <2>2. ASSUME NEW c \in MineOf(s, g) \ {Head(s)} PROVE Head(s).token < c.token
    <3>1. PICK k \in 1..Len(s) : c = s[k] /\ c.of = g
      BY <1>1, <2>2 DEF MineOf, Range
    <3>2. QED
      BY <1>1, <1>4, <1>8, <2>2, <3>1
  <2>3. QED
    BY <2>1, <2>2
<1>9. QED
  BY <1>6, <1>7, <1>8 DEF InOrder

LEMMA BatchShrinks ==
  ASSUME NEW s \in Seq(SBatch), s # <<>>, NEW g, InOrder(s, g),
         NEW b \in SBatch, b.of = Head(s).of, b.token = Head(s).token
  PROVE  /\ MineOf([s EXCEPT ![1] = b], g) =
              IF Head(s).of = g THEN (MineOf(s, g) \ {Head(s)}) \cup {b} ELSE MineOf(s, g)
         /\ InOrder([s EXCEPT ![1] = b], g)
<1>1. /\ Len(s) \in Nat \ {0} /\ DOMAIN s = 1..Len(s) /\ Head(s) = s[1] /\ 1 \in 1..Len(s)
  BY HeadTailProperties, LenProperties, EmptySeq
<1>2. DOMAIN [s EXCEPT ![1] = b] = 1..Len(s)
      /\ \A k \in 1..Len(s) : [s EXCEPT ![1] = b][k] = IF k = 1 THEN b ELSE s[k]
  BY <1>1
<1> DEFINE e == [s EXCEPT ![1] = b]
<1> HIDE DEF e
<1>3. DOMAIN e = 1..Len(s) /\ \A k \in 1..Len(s) : e[k] = IF k = 1 THEN b ELSE s[k]
  BY <1>2 DEF e
<1>4. \A k \in 1..Len(s) : e[k].of = s[k].of /\ e[k].token = s[k].token
  BY <1>1, <1>3
<1>5. InOrder(e, g)
  BY <1>1, <1>3, <1>4 DEF InOrder
<1>6. \A c \in MineOf(s, g) : \E k \in 1..Len(s) : c = s[k] /\ c.of = g
  BY <1>1 DEF MineOf, Range
<1>7. \A c \in MineOf(e, g) : \E k \in 1..Len(s) : c = e[k] /\ c.of = g
  BY <1>3 DEF MineOf, Range
<1>8. \A k \in 1..Len(s) : /\ s[k].of = g => s[k] \in MineOf(s, g)
                           /\ e[k].of = g => e[k] \in MineOf(e, g)
  BY <1>1, <1>3 DEF MineOf, Range
<1>9. ASSUME Head(s).of = g PROVE MineOf(e, g) = (MineOf(s, g) \ {Head(s)}) \cup {b}
  <2>1. \A k \in 1..Len(s) : k # 1 /\ s[k].of = g => s[k] # Head(s)
    <3>1. ASSUME NEW k \in 1..Len(s), k # 1, s[k].of = g PROVE Head(s).token < s[k].token
      BY <1>1, <1>9, <3>1 DEF InOrder
    <3>2. Head(s).token \in Nat
      BY <1>1, ElementOfSeq, FeedAssumption DEF SBatch
    <3>3. QED
      BY <3>1, <3>2
  <2>2. ASSUME NEW c \in MineOf(e, g) PROVE c \in (MineOf(s, g) \ {Head(s)}) \cup {b}
    BY <1>3, <1>7, <1>8, <2>1, <2>2
  <2>3. ASSUME NEW c \in MineOf(s, g), c # Head(s) PROVE c \in MineOf(e, g)
    BY <1>1, <1>3, <1>6, <1>8, <2>3
  <2>4. b \in MineOf(e, g)
    BY <1>1, <1>3, <1>8, <1>9
  <2>5. QED
    BY <2>2, <2>3, <2>4
<1>10. ASSUME Head(s).of # g PROVE MineOf(e, g) = MineOf(s, g)
  <2>1. ASSUME NEW c \in MineOf(e, g) PROVE c \in MineOf(s, g)
    BY <1>1, <1>3, <1>7, <1>8, <1>10, <2>1
  <2>2. ASSUME NEW c \in MineOf(s, g) PROVE c \in MineOf(e, g)
    BY <1>1, <1>3, <1>6, <1>8, <1>10, <2>2
  <2>3. QED
    BY <2>1, <2>2
<1>11. QED
  BY <1>5, <1>9, <1>10 DEF e

---------------------------------------------------------------------------------
\* What the numbers in the feed's invariant are.
LEMMA FeedIs ==
  ASSUME TypeOK, Logged, Attempt, Connected
  PROVE  /\ poller \in Gens /\ Jobs(poller) \in Seq(Job) /\ task \in Gens /\ task = attempts
         /\ applied \in Nat /\ Token \in Nat /\ Now \in Nat /\ task # 0
         /\ Stream \in Seq(SBatch) /\ Mine \subseteq SBatch
         /\ \A b \in Mine : b.token \in Nat /\ b.token <= Now /\ LoggedBatch(b) /\ b \in Batches
         /\ Vouched = Ref \ (uncovered \cup unread)
<1>1. poller \in Gens /\ task # 0 /\ task = attempts /\ task \in Gens
  BY DEF Connected, TypeOK, Attempt
<1>2. Jobs(poller) \in Seq(Job) /\ pollers[poller].token \in Nat
  BY <1>1, PollerIs DEF Jobs
<1>3. Token \in Nat
  <2>1. CASE Jobs(poller) = <<>>
    BY <1>2, <2>1 DEF Token, Jobs
  <2>2. CASE Jobs(poller) # <<>>
    <3>1. Len(Jobs(poller)) \in 1..Len(Jobs(poller))
      BY <1>2, <2>2, LenProperties, EmptySeq
    <3>2. Jobs(poller)[Len(Jobs(poller))] \in Job
      BY <1>2, <3>1, ElementOfSeq
    <3>3. QED
      BY <2>2, <3>2, FeedAssumption DEF Token, Jobs, Job
  <2>3. QED
    BY <2>1, <2>2
<1>4. Stream \in Seq(SBatch) /\ Batches \subseteq SBatch /\ Mine \subseteq Batches
  BY StreamIs DEF TypeOK, Queues, Mine, MineOf, Batches
<1>5. \A b \in Mine : b.token \in Nat /\ b.token <= Now /\ LoggedBatch(b)
  BY <1>4, FeedAssumption DEF Logged, LoggedBatch, SBatch
<1>6. applied \in Nat /\ Now \in Nat
  BY CurrentIs, FeedAssumption DEF TypeOK
<1>7. QED
  BY <1>1, <1>2, <1>3, <1>4, <1>5, <1>6 DEF Vouched

\* A step that changes none of it, or takes objects out of the cache's care.
LEMMA FeedSame ==
  ASSUME IInv, [Next]_vars, Connected, FeedInv,
         UNCHANGED applied, Token' = Token, Mine' = Mine, Vouched' \subseteq Vouched,
         \A r \in Vouched' : cache'[r] = cache[r]
  PROVE  Between' /\ NoneLeftOut' /\ Shown'
<1>1. /\ Between /\ NoneLeftOut /\ Shown /\ TypeOK /\ Vouched \subseteq Ref
      /\ applied \in Nat /\ Token \in Nat /\ Now \in Nat /\ Now' \in Nat /\ Now <= Now'
      /\ Token <= Now /\ applied <= Now /\ \A b \in Mine : b.token \in Nat /\ b.token <= Now
  BY FeedIs, LogStep DEF FeedInv, IInv, TypeInv, Between, Vouched
<1>2. Marks \subseteq 0..Now /\ Marks' = Marks
  BY <1>1 DEF Marks
<1>3. \A r, t : t \in 0..Now =>
        /\ M!Last(log', r, t) = M!Last(log, r, t)
        /\ \A s : M!Fresh(log, r, s, t) => M!Fresh(log', r, s, t)
  BY <1>1, LogStep
<1>4. Between'
  BY <1>1 DEF Between
<1>5. \A r \in Ref, t \in Marks : ToldBy(r, t) => ToldBy(r, t)'
  BY <1>2, <1>3 DEF ToldBy, LastOf
<1>6. NoneLeftOut'
  <2>1. ASSUME NEW b \in Mine, NEW t \in Marks, NEW r \in Ref, b.token < M!Last(log', r, t),
               b.token < t
        PROVE  ToldBy(r, t)'
    <3>1. ToldBy(r, t)
      BY <1>1, <1>2, <1>3, <2>1 DEF NoneLeftOut, LastOf
    <3>2. QED
      BY <1>5, <3>1
  <2>2. QED
    BY <1>2, <2>1 DEF NoneLeftOut, LastOf
<1>7. Shown'
  <2>1. ASSUME NEW r \in Vouched' PROVE FreshAt(r, applied)'
    <3>1. FreshAt(r, applied) /\ applied \in 0..Now
      BY <1>1, <2>1 DEF Shown
    <3>2. QED
      BY <1>3, <2>1, <3>1 DEF FreshAt
  <2>2. ASSUME NEW r \in Vouched', NEW t \in Marks PROVE ToldBy(r, t)' \/ FreshAt(r, t)'
    <3>1. (ToldBy(r, t) \/ FreshAt(r, t)) /\ t \in 0..Now /\ r \in Ref
      BY <1>1, <1>2, <2>2 DEF Shown
    <3>2. QED
      BY <1>3, <1>5, <2>2, <3>1 DEF FreshAt
  <2>3. Token = 0 => \A r \in Vouched' : cache'[r] = 0
    BY <1>1 DEF Shown
  <2>4. QED
    BY <1>2, <2>1, <2>2, <2>3 DEF Shown
<1>8. QED
  BY <1>4, <1>6, <1>7

\* The session's poller emits: the batch tells all from the token before to its own.
LEMMA EmitFeeds ==
  ASSUME IInv, Connected, FeedInv, Emit(poller), pollers[poller].of = task
  PROVE  FeedInv'
<1>0. /\ TypeInv /\ TypeOK /\ Logged /\ Attempt /\ Answers /\ Generations
      /\ Between /\ NoneLeftOut /\ Shown /\ Serves /\ Ordered
      /\ poller \in Gens /\ task \in Gens /\ task # 0
      /\ applied \in Nat /\ Token \in Nat /\ Now \in Nat /\ Stream \in Seq(SBatch)
      /\ \A b \in Mine : b.token \in Nat /\ b.token <= Now /\ LoggedBatch(b)
  BY FeedIs DEF FeedInv, IInv, TypeInv
<1>1. /\ UNCHANGED <<log, task, poller, connected, thread, cache, applied, uncovered, unread>>
      /\ Vouched' = Vouched /\ Vouched \subseteq Ref
  BY DEF Emit, attemptVars, cacheVars, Vouched, Connected
<1>2. PICK b : b = Emitted(poller)
  OBVIOUS
<1>3. PICK T : T = b.token
  OBVIOUS
<1>4. /\ Jobs(poller) = <<>> /\ Token = pollers[poller].token /\ ~pollers[poller].quit
      /\ b.of = task /\ b \in SBatch /\ T \in Nat
      /\ Token < T /\ T <= Now /\ b.events = SinceAt(log, Token, T)
  <2>1. Jobs(poller) = <<>> /\ Token = pollers[poller].token /\ ~pollers[poller].quit
    BY <1>0 DEF Serves, Token, Jobs, Generations, Connected
  <2>2. /\ Emitted(poller) \in Batch /\ pollers[poller].at = "answered"
        /\ pollers[poller].reply.token \in Nat
    BY <1>0, EmitDoes
  <2>3. b \in SBatch /\ b.of = task /\ b.token = pollers[poller].reply.token
        /\ b.events = pollers[poller].reply.events
    BY <1>2, <2>2 DEF Emitted, Batch, SBatch
  <2>4. QED
    BY <1>0, <1>3, <2>1, <2>2, <2>3 DEF Answers, Answered
<1>5. /\ Stream' = Append(Stream, b) /\ pollers'[poller].of = task
      /\ pollers'[poller].jobs = <<>> /\ pollers'[poller].token = T
  BY <1>0, <1>2, <1>3, <1>4, EmitDoes DEF Emitted
<1>6. Token' = T
  BY <1>1, <1>5 DEF Token
<1>7. Serves'
  BY <1>1, <1>5 DEF Serves, Jobs
<1>8. \A c \in Mine : c.token <= Token /\ c.token < T /\ applied < c.token
  BY <1>0, <1>4 DEF Between
<1>9. Mine' = Mine \cup {b} /\ Ordered'
  <2>1. InOrder(Stream, task) /\ \A c \in MineOf(Stream, task) : c.token < b.token
    BY <1>0, <1>3, <1>8 DEF Ordered, Mine
  <2>2. /\ MineOf(Append(Stream, b), task) = MineOf(Stream, task) \cup {b}
        /\ InOrder(Append(Stream, b), task)
    BY <1>0, <1>4, <2>1, BatchComes
  <2>3. QED
    BY <1>1, <1>5, <2>2 DEF Mine, Ordered
<1>10. /\ \A i \in b.events : Token < i
       /\ \A r \in Ref : State(r, T) # 0 /\ Token < LastOf(r, T) => LastOf(r, T) \in b.events
       /\ \A r \in Ref : Token # 0 /\ Token < LastOf(r, T) => LastOf(r, T) \in b.events
  BY <1>0, <1>4, SinceAtIs
<1>11. b.token = T
  BY <1>3
<1>12. Between'
  <2>1. applied <= T /\ T <= Now' /\ \A c \in Mine' : applied < c.token /\ c.token <= T
    BY <1>0, <1>1, <1>4, <1>8, <1>9, <1>11 DEF Between, Now
  <2>2. ASSUME NEW c \in Mine', NEW d \in Mine', c.token < d.token, NEW i \in d.events
        PROVE  c.token < i
    <3>1. CASE c \in Mine /\ d \in Mine
      BY <1>0, <2>2, <3>1 DEF Between
    <3>2. CASE c \in Mine /\ d = b
      <4>1. Token < i /\ c.token <= Token /\ c.token \in Nat /\ i \in Nat
        <5>1. i \in 1..T
          BY <1>0, <1>4, <2>2, <3>2, SinceAtIs
        <5>2. QED
          BY <1>0, <1>8, <1>10, <2>2, <3>2, <5>1
      <4>2. QED
        BY <1>0, <4>1
    <3>3. CASE c = b
      BY <1>0, <1>4, <1>8, <1>9, <1>11, <2>2, <3>3
    <3>4. QED
      BY <1>9, <3>1, <3>2, <3>3
  <2>3. QED
    BY <1>1, <1>6, <2>1, <2>2 DEF Between
<1>13. Marks' = {c.token : c \in Mine} \cup {T} /\ Marks' \subseteq Marks \cup {T}
  BY <1>6, <1>9, <1>11 DEF Marks
<1>14. \A t \in Marks : t \in 0..Token
  BY <1>0, <1>8 DEF Marks
<1>15. ASSUME NEW r \in Ref
       PROVE  /\ LastOf(r, T) \in Nat /\ LastOf(r, Token) \in 0..Token
              /\ LastOf(r, T) <= Token => LastOf(r, T) = LastOf(r, Token)
  BY <1>0, <1>4, LastIs, LastGrows DEF LastOf
<1>16. ASSUME NEW r \in Ref, NEW t \in Nat, NEW u \in Nat, t <= u, ToldBy(r, t),
              LastOf(r, u) = LastOf(r, t)
       PROVE  ToldBy(r, u)'
  <2>1. PICK c \in Mine : c.token <= t /\ LastOf(r, t) \in c.events /\ c.token \in Nat
    BY <1>0, <1>16 DEF ToldBy
  <2>2. c \in Mine' /\ c.token <= u /\ M!Last(log', r, u) \in c.events
    BY <1>1, <1>9, <1>16, <2>1 DEF LastOf
  <2>3. QED
    BY <2>2 DEF ToldBy, LastOf
<1>17. ASSUME NEW r \in Ref, Token < LastOf(r, T), Token # 0 \/ State(r, T) # 0
       PROVE  ToldBy(r, T)'
  <2>1. M!Last(log', r, T) \in b.events /\ b \in Mine' /\ b.token <= T
    <3>1. LastOf(r, T) \in b.events
      BY <1>10, <1>17
    <3>2. M!Last(log', r, T) = LastOf(r, T)
      BY <1>1 DEF LastOf
    <3>3. QED
      BY <1>4, <1>9, <1>11, <3>1, <3>2
  <2>2. QED
    BY <2>1 DEF ToldBy, LastOf
<1>18. NoneLeftOut'
  <2>1. ASSUME NEW c \in Mine', NEW t \in Marks', NEW r \in Ref,
               c.token < M!Last(log', r, t), c.token < t
        PROVE  ToldBy(r, t)'
    <3>1. CASE t \in Marks /\ t # T
      <4>1. c \in Mine /\ c.token < LastOf(r, t) /\ t \in Nat
        <5>1. t \in Nat /\ t < T /\ c # b
          BY <1>0, <1>4, <1>11, <1>14, <2>1, <3>1
        <5>2. M!Last(log', r, t) = LastOf(r, t)
          BY <1>1 DEF LastOf
        <5>3. QED
          BY <1>9, <2>1, <5>1, <5>2
      <4>2. ToldBy(r, t)
        BY <1>0, <2>1, <3>1, <4>1 DEF NoneLeftOut
      <4>3. QED
        BY <1>16, <4>1, <4>2
    <3>2. CASE t = T
      <4>1. c \in Mine /\ c.token < LastOf(r, T) /\ c.token <= Token /\ c.token \in Nat /\ Token # 0
        BY <1>0, <1>1, <1>4, <1>8, <1>9, <1>11, <2>1, <3>2 DEF LastOf
      <4>2. CASE Token < LastOf(r, T)
        BY <1>17, <3>2, <4>1, <4>2
      <4>3. CASE ~(Token < LastOf(r, T))
        <5>1. LastOf(r, T) = LastOf(r, Token) /\ c.token < LastOf(r, Token) /\ c.token < Token
          BY <1>0, <1>15, <4>1, <4>3
        <5>2. ToldBy(r, Token)
          BY <1>0, <4>1, <5>1 DEF NoneLeftOut, Marks
        <5>3. QED
          BY <1>0, <1>4, <1>16, <3>2, <5>1, <5>2
      <4>4. QED
        BY <4>2, <4>3
    <3>3. QED
      BY <1>13, <2>1, <3>1, <3>2
  <2>2. QED
    BY <2>1 DEF NoneLeftOut, LastOf
<1>19. Shown'
  <2>1. \A r \in Vouched' : FreshAt(r, applied)'
    BY <1>0, <1>1 DEF Shown, FreshAt
  <2>2. ASSUME NEW r \in Vouched', NEW t \in Marks'
        PROVE  ToldBy(r, t)' \/ M!Fresh(log, r, cache[r], t)
    <3>0. r \in Vouched /\ r \in Ref
      BY <1>1, <2>2
    <3>1. CASE t \in Marks /\ t # T
      BY <1>0, <1>14, <1>16, <3>0, <3>1 DEF Shown, FreshAt
    <3>2. CASE t = T
      <4>1. CASE LastOf(r, T) <= Token
        <5>1. LastOf(r, T) = LastOf(r, Token)
          BY <1>15, <3>0, <4>1
        <5>2. ToldBy(r, Token) \/ FreshAt(r, Token)
          BY <1>0, <3>0 DEF Shown, Marks
        <5>3. CASE ToldBy(r, Token)
          BY <1>0, <1>4, <1>16, <3>0, <3>2, <5>1, <5>3
        <5>4. CASE FreshAt(r, Token)
          <6>1. T \in Token..Len(log) /\ M!Last(log, r, T) <= Token /\ Len(log) \in Nat
            BY <1>0, <1>4, <4>1 DEF Now, LastOf
          <6>2. M!Fresh(log, r, cache[r], T)
            BY <1>0, <5>4, <6>1, FreshIs DEF FreshAt
          <6>3. QED
            BY <3>2, <6>2
        <5>5. QED
          BY <5>2, <5>3, <5>4
      <4>2. CASE ~(LastOf(r, T) <= Token)
        <5>1. CASE Token # 0 \/ State(r, T) # 0
          BY <1>0, <1>15, <1>17, <3>0, <3>2, <4>2, <5>1
        <5>2. CASE Token = 0 /\ State(r, T) = 0
          <6>1. cache[r] = M!StateAt(log, r, T)
            BY <1>0, <3>0, <5>2 DEF Shown, State
          <6>2. M!Fresh(log, r, M!StateAt(log, r, T), T)
            BY <1>0, <1>4, FreshNow DEF Now
          <6>3. QED
            BY <3>2, <6>1, <6>2
        <5>3. QED
          BY <5>1, <5>2
      <4>3. QED
        BY <4>1, <4>2
    <3>3. QED
      BY <1>13, <2>2, <3>1, <3>2
  <2>3. Token' # 0
    BY <1>0, <1>4, <1>6
  <2>4. QED
    BY <1>1, <2>1, <2>2, <2>3 DEF Shown, FreshAt
<1>20. QED
  BY <1>7, <1>9, <1>12, <1>18, <1>19 DEF FeedInv

\* An event of the session is applied: its object is as the batch says, or as it is now.
LEMMA ApplyFeeds ==
  ASSUME IInv, Connected, FeedInv, UpdateCache, Head(Stream).of = task
  PROVE  FeedInv'
<1>0. /\ TypeInv /\ TypeOK /\ Logged /\ Attempt
      /\ Between /\ NoneLeftOut /\ Shown /\ Serves /\ Ordered
      /\ poller \in Gens /\ applied \in Nat /\ Token \in Nat /\ Now \in Nat
      /\ Stream \in Seq(SBatch) /\ Token <= Now
      /\ \A c \in Mine : c.token \in Nat /\ c.token <= Now /\ LoggedBatch(c)
      /\ Vouched = Ref \ (uncovered \cup unread)
  BY FeedIs DEF FeedInv, IInv, TypeInv, Between
<1>1. /\ UNCHANGED <<log, task, poller, pollers, connected, thread>>
      /\ Vouched' = Ref \ (uncovered' \cup unread')
  BY DEF UpdateCache, attemptVars, pollerVars, Vouched, Connected
<1>2. PICK h : h = Head(Stream)
  OBVIOUS
<1>3. PICK a : a = h.token
  OBVIOUS
<1>4. /\ Stream # <<>> /\ h \in Batch /\ h \in SBatch /\ h = Head(updating) /\ h.of = task
      /\ \E i \in h.events :
           /\ (Apply(i) \/ Fetch(i)) /\ Done(i)
           /\ i \in 1..MaxChanges /\ i <= Now /\ log[i].ref \in Ref
           /\ IF h.events = {i} THEN Stream' = Tail(Stream)
              ELSE Stream' = [Stream EXCEPT ![1] = Left(i)]
  BY <1>0, <1>2, UpdateCacheDoes DEF Batch, SBatch
<1>5. PICK i \in h.events :
        /\ (Apply(i) \/ Fetch(i)) /\ Done(i)
        /\ i \in 1..MaxChanges /\ i <= Now /\ log[i].ref \in Ref
        /\ IF h.events = {i} THEN Stream' = Tail(Stream)
           ELSE Stream' = [Stream EXCEPT ![1] = Left(i)]
  BY <1>4
<1>6. PICK x : x = log[i].ref
  OBVIOUS
<1>7. PICK b : b = Left(i)
  OBVIOUS
<1>8. b \in SBatch /\ b.of = task /\ b.token = a /\ b.events = h.events \ {i}
  BY <1>2, <1>3, <1>4, <1>7 DEF Left, SBatch
\* h has the least token of all that are on their way.
<1>9. h \in Mine /\ \A c \in Mine \ {h} : a < c.token
  BY <1>0, <1>2, <1>3, <1>4, BatchGoes DEF Mine, Ordered
<1>10. /\ a \in Nat /\ applied < a /\ a <= Token /\ a <= Now /\ i = LastOf(x, a) /\ x \in Ref
       /\ \A c \in Mine : a <= c.token /\ c.token <= Token
       /\ \A j \in h.events : j \in 1..a
  BY <1>0, <1>3, <1>5, <1>6, <1>9 DEF Between, LoggedBatch
<1>11. /\ Ordered'
       /\ h.events = {i} => Mine' = Mine \ {h}
       /\ h.events # {i} => Mine' = (Mine \ {h}) \cup {b}
  <2>1. InOrder(Stream, task) /\ Head(Stream).of = task
    BY <1>0 DEF Ordered
  <2>2. CASE h.events = {i}
    <3>1. Stream' = Tail(Stream)
      BY <1>5, <2>2
    <3>2. MineOf(Tail(Stream), task) = MineOf(Stream, task) \ {h} /\ InOrder(Tail(Stream), task)
      BY <1>0, <1>2, <1>4, <2>1, BatchGoes
    <3>3. QED
      BY <1>1, <2>2, <3>1, <3>2 DEF Mine, Ordered
  <2>3. CASE h.events # {i}
    <3>1. Stream' = [Stream EXCEPT ![1] = b]
      BY <1>5, <1>7, <2>3
    <3>2. /\ MineOf([Stream EXCEPT ![1] = b], task) = (MineOf(Stream, task) \ {h}) \cup {b}
          /\ InOrder([Stream EXCEPT ![1] = b], task)
      BY <1>0, <1>2, <1>3, <1>4, <1>8, <2>1, BatchShrinks
    <3>3. QED
      BY <1>1, <2>3, <3>1, <3>2 DEF Mine, Ordered
  <2>4. QED
    BY <2>2, <2>3
<1>12. applied' = IF h.events = {i} THEN a ELSE applied
  BY <1>3, <1>4, <1>5 DEF Done
<1>13. Token' = Token /\ Serves'
  <2>1. Mine = {} => Mine' = {}
    BY <1>9
  <2>2. QED
    BY <1>0, <1>1, <2>1 DEF Token, Serves, Jobs
\* Only object x is written, as the batch says or as it is on the server.
<1>14. /\ \A r \in Vouched' \ {x} : r \in Vouched /\ cache'[r] = cache[r]
       /\ x \in Vouched' => cache'[x] \in {State(x, a), State(x, Now)}
  <2>1. /\ Connected /\ connected /\ Head(updating).of = task /\ x = log[i].ref
        /\ cache \in [Ref -> 0..MaxChanges] /\ x \in Ref
    BY <1>0, <1>4, <1>6, <1>10 DEF Connected, TypeOK
  <2>2. CASE Apply(i)
    <3>1. /\ cache' = [cache EXCEPT ![x] = IF log[i].op = "del" THEN 0 ELSE i]
          /\ uncovered' = uncovered \ {x} /\ unread' = unread \ {x}
      BY <2>1, <2>2 DEF Apply, Uncovered
    <3>2. (IF log[i].op = "del" THEN 0 ELSE i) = State(x, a)
      BY <1>5, <1>10 DEF State, LastOf, M!StateAt
    <3>3. QED
      BY <1>0, <1>1, <2>1, <3>1, <3>2
  <2>3. CASE Fetch(i)
    <3>1. \/ /\ cache' = cache /\ uncovered' = uncovered /\ unread' = unread \cup {x}
          \/ /\ cache' = [cache EXCEPT ![x] = Current(x)]
             /\ uncovered' = uncovered \ {x} /\ unread' = unread \ {x}
      BY <2>1, <2>3 DEF Fetch, Uncovered
    <3>2. Current(x) = State(x, Now)
      BY DEF Current, State
    <3>3. QED
      BY <1>0, <1>1, <2>1, <3>1, <3>2
  <2>4. QED
    BY <1>5, <2>2, <2>3
<1>15. Between'
  <2>1. applied' <= Token /\ \A c \in Mine' : applied' < c.token /\ c.token <= Token
    BY <1>0, <1>8, <1>9, <1>10, <1>11, <1>12 DEF Between
  <2>2. ASSUME NEW c \in Mine', NEW d \in Mine', c.token < d.token, NEW j \in d.events
        PROVE  c.token < j
    <3>1. PICK e \in Mine, f \in Mine : e.token = c.token /\ f.token = d.token /\ j \in f.events
      BY <1>3, <1>8, <1>9, <1>11, <2>2
    <3>2. QED
      BY <1>0, <2>2, <3>1 DEF Between
  <2>3. QED
    BY <1>0, <1>1, <1>13, <2>1, <2>2 DEF Between, Now
<1>16. \A t \in Marks' : t \in Marks /\ a <= t /\ t \in Nat /\ t <= Now
  <2>1. \A c \in Mine' : c.token \in Marks /\ a <= c.token /\ c.token \in Nat /\ c.token <= Now
    BY <1>0, <1>3, <1>8, <1>9, <1>10, <1>11 DEF Marks
  <2>2. Token \in Marks
    BY DEF Marks
  <2>3. QED
    BY <1>0, <1>10, <1>13, <2>1, <2>2 DEF Marks
\* What a batch told is told still, unless it is what is now applied.
<1>17. ASSUME NEW r \in Ref, NEW t \in Nat, ToldBy(r, t), r # x \/ a < LastOf(r, t)
       PROVE  ToldBy(r, t)' /\ a <= t
  <2>1. PICK d \in Mine : d.token <= t /\ LastOf(r, t) \in d.events
    BY <1>17 DEF ToldBy
  <2>2. a <= t
    BY <1>0, <1>10, <1>17, <2>1
  <2>3. M!Last(log', r, t) = LastOf(r, t)
    BY <1>1 DEF LastOf
  <2>4. CASE d # h
    <3>1. d \in Mine'
      BY <1>11, <2>1, <2>4
    <3>2. QED
      BY <2>1, <2>2, <2>3, <3>1 DEF ToldBy, LastOf
  <2>5. CASE d = h
    <3>1. LastOf(r, t) # i
      <4>1. LastOf(r, t) \in 1..a
        BY <1>10, <2>1, <2>5
      <4>2. log[LastOf(r, t)].ref = r
        BY <1>10, <1>17, <4>1, LastIs DEF LastOf
      <4>3. QED
        BY <1>6, <1>10, <1>17, <4>1, <4>2
    <3>2. b \in Mine' /\ LastOf(r, t) \in b.events
      BY <1>8, <1>11, <2>1, <2>5, <3>1
    <3>3. QED
      BY <1>8, <2>2, <2>3, <3>2 DEF ToldBy, LastOf
  <2>6. QED
    BY <2>2, <2>4, <2>5
<1>18. NoneLeftOut'
  <2>1. ASSUME NEW c \in Mine', NEW t \in Marks', NEW r \in Ref,
               c.token < M!Last(log', r, t), c.token < t
        PROVE  ToldBy(r, t)'
    <3>1. PICK e \in Mine : e.token = c.token /\ e.token \in Nat /\ a <= e.token
      BY <1>0, <1>3, <1>8, <1>9, <1>10, <1>11, <2>1
    <3>2. M!Last(log', r, t) = LastOf(r, t) /\ LastOf(r, t) \in Nat /\ t \in Nat /\ t \in Marks
      BY <1>1, <1>16, <2>1, LastIs DEF LastOf
    <3>3. ToldBy(r, t) /\ a < LastOf(r, t)
      BY <1>0, <1>10, <2>1, <3>1, <3>2 DEF NoneLeftOut
    <3>4. QED
      BY <1>17, <3>2, <3>3
  <2>2. QED
    BY <2>1 DEF NoneLeftOut, LastOf
\* Object x is fresh wherever nothing is told of it.
<1>19. ASSUME x \in Vouched', NEW t \in Nat, t <= Now, LastOf(x, t) <= a
       PROVE  M!Fresh(log, x, cache'[x], t)
  <2>1. Len(log) \in Nat /\ Now = Len(log)
    BY <1>0 DEF Now
  <2>2. CASE cache'[x] = State(x, Now)
    BY <1>0, <1>19, <2>1, <2>2, FreshNow DEF State
  <2>3. CASE cache'[x] = State(x, a) /\ t <= a
    BY <1>0, <1>10, <1>19, <2>1, <2>3, FreshNow DEF State
  <2>4. CASE cache'[x] = State(x, a) /\ ~(t <= a)
    <3>1. M!Last(log, x, t) = M!Last(log, x, a)
      BY <1>10, <1>19, <2>4, LastGrows DEF LastOf
    <3>2. cache'[x] = M!StateAt(log, x, t)
      BY <2>4, <3>1, SameState DEF State
    <3>3. QED
      BY <1>0, <1>19, <2>1, <3>2, FreshNow
  <2>5. QED
    BY <1>14, <1>19, <2>2, <2>3, <2>4
<1>20. Shown'
  <2>1. ASSUME NEW r \in Vouched' PROVE M!Fresh(log, r, cache'[r], applied')
    <3>1. applied' \in Nat /\ applied' <= a
      BY <1>0, <1>10, <1>12
    <3>2. CASE r = x
      <4>1. LastOf(x, applied') <= a /\ applied' <= Now
        <5>1. M!Last(log, x, applied') \in 0..applied'
          BY <3>1, LastIs
        <5>2. QED
          BY <1>0, <1>10, <3>1, <5>1 DEF LastOf
      <4>2. QED
        BY <1>19, <2>1, <3>1, <3>2, <4>1
    <3>3. CASE r # x /\ applied' = applied
      BY <1>0, <1>14, <2>1, <3>3 DEF Shown, FreshAt
    <3>4. CASE r # x /\ applied' = a /\ h.events = {i}
      <4>1. r \in Vouched /\ r \in Ref /\ cache'[r] = cache[r]
        BY <1>0, <1>14, <2>1, <3>4
      <4>2. ToldBy(r, a) \/ FreshAt(r, a)
        BY <1>0, <1>3, <1>9, <4>1 DEF Shown, Marks
      <4>3. ~ToldBy(r, a)
        <5>1. ASSUME ToldBy(r, a) PROVE FALSE
          <6>1. PICK d \in Mine : d.token <= a /\ LastOf(r, a) \in d.events
            BY <5>1 DEF ToldBy
          <6>2. d = h
            BY <1>0, <1>9, <1>10, <6>1
          <6>3. LastOf(r, a) = i /\ i # 0
            BY <3>4, <1>5, <6>1, <6>2
          <6>4. log[i].ref = r
            BY <1>10, <6>3, LastIs DEF LastOf
          <6>5. QED
            BY <1>6, <3>4, <6>4
        <5>2. QED
          BY <5>1
      <4>4. QED
        BY <3>4, <4>1, <4>2, <4>3 DEF FreshAt
    <3>5. QED
      BY <1>12, <3>2, <3>3, <3>4
  <2>2. ASSUME NEW r \in Vouched', NEW t \in Marks'
        PROVE  ToldBy(r, t)' \/ M!Fresh(log, r, cache'[r], t)
    <3>1. t \in Marks /\ a <= t /\ t \in Nat /\ t <= Now
      BY <1>16, <2>2
    <3>2. CASE r # x
      <4>1. r \in Vouched /\ r \in Ref /\ cache'[r] = cache[r]
        BY <1>0, <1>14, <2>2, <3>2
      <4>2. ToldBy(r, t) \/ FreshAt(r, t)
        BY <1>0, <3>1, <4>1 DEF Shown
      <4>3. QED
        BY <1>17, <3>1, <3>2, <4>1, <4>2 DEF FreshAt
    <3>3. CASE r = x /\ LastOf(x, t) <= a
      BY <1>19, <2>2, <3>1, <3>3
    <3>4. CASE r = x /\ ~(LastOf(x, t) <= a)
      <4>1. LastOf(x, t) \in 0..t
        BY <3>1, LastIs DEF LastOf
      <4>2. a < LastOf(x, t) /\ a < t
        BY <1>10, <3>1, <3>4, <4>1
      <4>3. ToldBy(x, t)
        BY <1>0, <1>3, <1>9, <1>10, <3>1, <4>2 DEF NoneLeftOut
      <4>4. QED
        BY <1>10, <1>17, <3>1, <3>4, <4>2, <4>3
    <3>5. QED
      BY <3>2, <3>3, <3>4
  <2>3. Token' # 0
    BY <1>0, <1>10, <1>13
  <2>4. QED
    BY <1>1, <2>1, <2>2, <2>3 DEF Shown, FreshAt
<1>21. QED
  BY <1>11, <1>13, <1>15, <1>18, <1>20 DEF FeedInv

\* The poller is told to start from the token of what the cache was loaded with.
LEMMA LaunchFeeds ==
  ASSUME IInv, Launch, Connected'
  PROVE  FeedInv'
<1>0. /\ TypeInv /\ TypeOK /\ Logged /\ Attempt /\ Generations /\ Loading
      /\ thread = "consoles" /\ connected /\ task = attempts /\ attempts \in Gens
      /\ UNCHANGED <<log, task, queueVars>> /\ applied' = token /\ token \in Nat /\ token <= Now
      /\ Now \in Nat /\ Stream' = Stream /\ Batches \subseteq SBatch
  <2>1. /\ TypeInv /\ TypeOK /\ Logged /\ Attempt /\ Generations /\ Loading
    BY DEF IInv, TypeInv
  <2>2. /\ thread = "consoles" /\ connected /\ UNCHANGED <<log, task, queueVars>>
        /\ applied' = token
    BY DEF Launch, LoadAndStart, Start, Connected
  <2>3. Stream' = Stream
    BY <2>2 DEF queueVars, Stream, InMainq
  <2>4. task = attempts /\ attempts \in Gens
    BY <2>1, <2>2, LaunchDoes DEF Attempt
  <2>5. token \in Nat /\ token <= Now /\ Now \in Nat
    BY <2>1, CurrentIs, FeedAssumption DEF TypeOK, Logged
  <2>6. Batches \subseteq SBatch
    BY <2>1, StreamIs DEF TypeOK, Queues
  <2>7. QED
    BY <2>1, <2>2, <2>3, <2>4, <2>5, <2>6
<1>1. \A n \in Nat : Began(n) => n # task
  BY <1>0, FeedAssumption DEF Began, Gens
<1>2. Mine' = {}
  <2>1. \A b \in Batches : b.of # task
    <3>1. \A b \in Batches : b.of \in Nat
      BY <1>0, FeedAssumption DEF SBatch, Gens
    <3>2. QED
      BY <1>0, <1>1, <3>1 DEF Generations
  <2>2. QED
    BY <1>0, <2>1 DEF Mine, MineOf, Batches
<1> DEFINE old == Jobs(poller')
           job == [of |-> attempts, token |-> token]
<1>3. /\ poller' \in Gens /\ old \in Seq(Job) /\ job \in Job /\ job.of = task /\ job.token = token
      /\ pollers'[poller'].jobs = Append(old, job)
      /\ pollers'[poller'].of = pollers[poller'].of
  BY <1>0, LaunchDoes
<1>4. pollers[poller'].of # task /\ \A k \in DOMAIN old : old[k].of # task
  <2>1. \A g \in Gens : OfPoller(poller', g) => g # task
    BY <1>0, <1>1, <1>3, FeedAssumption DEF Generations, Gens
  <2>2. task \in Gens
    BY <1>0
  <2>3. QED
    BY <2>1, <2>2 DEF OfPoller
<1>5. PICK o : o = old
  OBVIOUS
<1>6. PICK j : j = job
  OBVIOUS
<1> HIDE DEF old, job
<1>7. /\ o \in Seq(Job) /\ Len(o) \in Nat /\ DOMAIN o = 1..Len(o)
      /\ Append(o, j) # <<>> /\ Len(Append(o, j)) = Len(o) + 1
      /\ DOMAIN Append(o, j) = 1..Len(o) + 1
      /\ Append(o, j)[Len(o) + 1] = j /\ \A k \in 1..Len(o) : Append(o, j)[k] = o[k]
  <2>1. o \in Seq(Job) /\ j \in Job
    BY <1>3, <1>5, <1>6
  <2>2. /\ Append(o, j) \in Seq(Job) /\ Append(o, j) # <<>> /\ Len(Append(o, j)) = Len(o) + 1
        /\ Append(o, j)[Len(o) + 1] = j /\ \A k \in 1..Len(o) : Append(o, j)[k] = o[k]
    BY <2>1, AppendProperties
  <2>3. QED
    BY <2>1, <2>2, LenProperties
<1>8. Jobs(poller)' = Append(o, j) /\ j.of = task /\ j.token = token
  BY <1>3, <1>5, <1>6 DEF Jobs
<1>9. Token' = token
  <2>1. pollers'[poller'].jobs = Append(o, j)
    BY <1>8 DEF Jobs
  <2>2. QED
    BY <1>7, <1>8, <2>1 DEF Token
<1>10. Serves'
  <2>1. ASSUME NEW k \in DOMAIN Append(o, j)
        PROVE  Append(o, j)[k].of = task <=> k = Len(Append(o, j))
    <3>1. k \in 1..Len(o) \/ k = Len(o) + 1
      BY <1>7, <2>1
    <3>2. \A n \in 1..Len(o) : n # Len(o) + 1
      BY <1>7
    <3>3. QED
      BY <1>4, <1>5, <1>7, <1>8, <3>1, <3>2
  <2>2. QED
    BY <1>0, <1>2, <1>3, <1>4, <1>7, <1>8, <2>1 DEF Serves
<1>11. Ordered'
  <2>1. \A k \in DOMAIN Stream : Stream[k].of # task
    BY <1>0, <1>2 DEF Mine, MineOf, Range
  <2>2. QED
    BY <1>0, <2>1 DEF Ordered, InOrder
<1>12. Between'
  BY <1>0, <1>2, <1>9 DEF Between, Now
<1>13. NoneLeftOut'
  BY <1>2 DEF NoneLeftOut
\* What is vouched for is as loaded, or as the consoles were found later.
<1>14. ASSUME NEW r \in Vouched'
       PROVE  M!Fresh(log, r, cache'[r], token) /\ (token = 0 => cache'[r] = 0)
  <2>1. r \in Ref /\ r \notin uncovered' /\ r \notin unread'
    BY <1>14 DEF Vouched
  <2> DEFINE there == {c \in Consoles : Current(c) # 0}
  <2> DEFINE shown == [c \in Ref |-> IF c \in there THEN Current(c) ELSE cache[c]]
  <2>2. \/ /\ cache' = shown
           /\ uncovered' = IF token = 0 THEN uncovered \cup there ELSE uncovered \ there
           /\ unread' = unread \ there
        \/ UNCHANGED <<cache, uncovered, unread>>
    BY DEF Launch, LoadAndStart, LoadConsoles
  <2>3. CASE r \in there /\ cache' = shown /\ token # 0
    <3>1. cache'[r] = Current(r)
      BY <2>1, <2>3
    <3>2. M!Fresh(log, r, Current(r), token)
      BY <1>0, FreshNow DEF Current, Now
    <3>3. QED
      BY <2>3, <3>1, <3>2
  <2>4. CASE cache'[r] = cache[r] /\ r \notin uncovered \cup unread
    <3>1. IF token = 0 THEN cache[r] = 0 ELSE FreshAt(r, token)
      BY <1>0, <2>1, <2>4 DEF Loading
    <3>2. M!Fresh(log, r, 0, 0)
      <4>1. M!StateAt(log, r, 0) = 0
        BY StateIs
      <4>2. QED
        BY <1>0, <4>1, FreshNow DEF Now
    <3>3. QED
      BY <2>4, <3>1, <3>2 DEF FreshAt
  <2>5. QED
    BY <2>1, <2>2, <2>3, <2>4
<1>15. Shown'
  <2>1. Marks' = {token}
    BY <1>2, <1>9 DEF Marks
  <2>2. QED
    BY <1>0, <1>9, <1>14, <2>1 DEF Shown, FreshAt
<1>16. QED
  BY <1>10, <1>11, <1>12, <1>13, <1>15 DEF FeedInv

\* No other step disturbs the feed, and none but Launch begins one.
LEMMA FeedStep ==
  ASSUME IInv, [Next]_vars, Connected'
  PROVE  FeedInv'
<1>0. /\ TypeInv /\ TypeOK /\ Logged /\ Attempt /\ Generations /\ Queues
      /\ Stream \in Seq(SBatch) /\ NoBatch \in SBatch /\ NoBatch.of = 0
  BY StreamIs, FeedAssumption DEF IInv, TypeInv, TypeOK, Queues, NoBatch, SBatch
<1>1. CASE Launch
  BY <1>1, LaunchFeeds
<1>2. ASSUME ~Launch PROVE Connected /\ poller' = poller /\ task' = task
  <2>1. \/ UNCHANGED <<task, connected, thread, poller>>
        \/ BeginConnect \/ Adopt \/ Load \/ Disconnect \/ (HandleLost /\ task # 0)
    BY <1>2
    DEF Next, ServerChanges, ConnectThread, PollerThread, TakeJob, ServerAnswers, Emit, Polls, AnswerLost,
        ServerIsSilent, Retry, Quit, MainThread, HandleEvents, Enqueue, HandleClear, HandleLost,
        OnCacheUpdateTimer, UpdateCache, vars, attemptVars, pollerVars
  <2>2. CASE UNCHANGED <<task, connected, thread, poller>>
    BY <2>2 DEF Connected
  <2>3. CASE Disconnect \/ (HandleLost /\ task # 0)
    BY <2>3 DEF Disconnect, HandleLost, EndConnect, Connected
  <2>4. CASE BeginConnect \/ Load
    BY <2>4 DEF BeginConnect, Load, Connected
  <2>5. CASE Adopt
    BY <1>0, <2>5 DEF Adopt, Attempt, Connected
  <2>6. QED
    BY <2>1, <2>2, <2>3, <2>4, <2>5
<1>3. ASSUME ~Launch
      PROVE  /\ FeedInv /\ Serves /\ Ordered /\ Between /\ Shown /\ poller \in Gens /\ task \in Gens
             /\ task # 0 /\ Jobs(poller) \in Seq(Job)
  BY <1>0, <1>2, <1>3, FeedIs DEF IInv, FeedInv
\* The stream is as it was, or a batch of nobody or of another session has come.
<1>4. ASSUME ~Launch, \/ Stream' = Stream
                      \/ \E b \in SBatch : b.of # task /\ Stream' = Append(Stream, b)
      PROVE  Mine' = Mine /\ Ordered'
  <2>1. InOrder(Stream, task) /\ task' = task
    BY <1>2, <1>3, <1>4 DEF Ordered
  <2>2. CASE Stream' = Stream
    BY <2>1, <2>2 DEF Mine, Ordered
  <2>3. ASSUME NEW b \in SBatch, b.of # task, Stream' = Append(Stream, b)
        PROVE  Mine' = Mine /\ Ordered'
    <3>1. b.of = task => \A c \in MineOf(Stream, task) : c.token < b.token
      BY <2>3
    <3>2. /\ MineOf(Append(Stream, b), task) =
               MineOf(Stream, task) \cup (IF b.of = task THEN {b} ELSE {})
          /\ InOrder(Append(Stream, b), task)
      BY <1>0, <2>1, <2>3, <3>1, BatchComes
    <3>3. QED
      BY <2>1, <2>3, <3>2 DEF Mine, Ordered
  <2>4. QED
    BY <1>4, <2>2, <2>3
<1>5. ASSUME ~Launch, Mine' = Mine, Ordered', UNCHANGED cacheVars,
             pollers'[poller].of = pollers[poller].of, pollers'[poller].jobs = Jobs(poller),
             pollers'[poller].token = pollers[poller].token
      PROVE  FeedInv'
  <2>1. Token' = Token /\ Serves'
    BY <1>2, <1>3, <1>5 DEF Token, Serves, Jobs
  <2>2. Vouched' = Vouched /\ \A r \in Vouched' : cache'[r] = cache[r]
    BY <1>2, <1>5 DEF Vouched, cacheVars
  <2>3. Between' /\ NoneLeftOut' /\ Shown'
    BY <1>2, <1>3, <1>5, <2>1, <2>2, FeedSame DEF cacheVars
  <2>4. QED
    BY <1>5, <2>1, <2>3 DEF FeedInv
<1>6. ASSUME ~Launch, UNCHANGED <<pollers, queueVars, cacheVars>> PROVE FeedInv'
  <2>1. Stream' = Stream
    BY <1>6 DEF queueVars, Stream, InMainq
  <2>2. QED
    BY <1>4, <1>5, <1>6, <2>1 DEF Jobs
<1>7. ASSUME ~Launch, UNCHANGED <<pollers, cacheVars>>, Stream' = Stream PROVE FeedInv'
  BY <1>4, <1>5, <1>7 DEF Jobs
<1>8. CASE ~Launch /\ (HandleEvents \/ OnCacheUpdateTimer)
  <2>1. Stream' = Stream
    BY <1>0, <1>8, StreamEnqueue, StreamTaken
    DEF HandleEvents, Enqueue, Takes, OnCacheUpdateTimer, Idle
  <2>2. UNCHANGED <<pollers, cacheVars>>
    BY <1>8 DEF HandleEvents, Enqueue, OnCacheUpdateTimer, pollerVars
  <2>3. QED
    BY <1>7, <1>8, <2>1, <2>2
<1>9. ASSUME ~Launch, UpdateCache
      PROVE  FeedInv'
  <2>1. CASE Head(Stream).of = task
    BY <1>2, <1>3, <1>9, <2>1, ApplyFeeds
  <2>2. CASE Head(Stream).of # task
    <3>1. PICK i \in Head(Stream).events :
            /\ Done(i)
            /\ IF Head(Stream).events = {i} THEN Stream' = Tail(Stream)
               ELSE Stream' = [Stream EXCEPT ![1] = Left(i)]
      BY <1>0, <1>9, UpdateCacheDoes
    <3>2. /\ Stream # <<>> /\ Head(Stream) = Head(updating) /\ Head(Stream) \in Batch
          /\ Left(i) \in SBatch /\ Left(i).of = Head(Stream).of
          /\ Left(i).token = Head(Stream).token
      <4>1. Stream # <<>> /\ Head(Stream) = Head(updating) /\ Head(Stream) \in Batch
        BY <1>0, <1>9, UpdateCacheDoes
      <4>2. QED
        BY <4>1 DEF Left, Batch, SBatch
    <3>3. Mine' = Mine /\ Ordered'
      <4>1. InOrder(Stream, task) /\ task' = task
        BY <1>2, <1>3, <1>9 DEF Ordered
      <4>2. MineOf(Tail(Stream), task) = Mine /\ InOrder(Tail(Stream), task)
        <5>1. /\ MineOf(Tail(Stream), task)
                   = MineOf(Stream, task) \ (IF Head(Stream).of = task THEN {Head(Stream)} ELSE {})
              /\ InOrder(Tail(Stream), task)
          BY <1>0, <3>2, <4>1, BatchGoes
        <5>2. QED
          BY <2>2, <5>1 DEF Mine
      <4>3. /\ MineOf([Stream EXCEPT ![1] = Left(i)], task) = Mine
            /\ InOrder([Stream EXCEPT ![1] = Left(i)], task)
        BY <1>0, <2>2, <3>2, <4>1, BatchShrinks DEF Mine
      <4>4. QED
        BY <3>1, <4>1, <4>2, <4>3 DEF Mine, Ordered
    <3>4. UNCHANGED <<applied, poller, pollers, task>>
      BY <1>9, <2>2, <3>1, <3>2 DEF Done, UpdateCache, attemptVars, pollerVars
    <3>5. Vouched' \subseteq Vouched /\ \A r \in Vouched' : cache'[r] = cache[r]
      BY <1>0, <1>2, <1>9, <2>2, OthersApplied DEF Vouched, Connected
    <3>6. Token' = Token /\ Serves'
      BY <1>3, <1>9, <3>3, <3>4 DEF Token, Serves, Jobs
    <3>7. Between' /\ NoneLeftOut' /\ Shown'
      BY <1>2, <1>3, <1>9, <3>3, <3>4, <3>5, <3>6, FeedSame
    <3>8. QED
      BY <3>3, <3>6, <3>7 DEF FeedInv
  <2>3. QED
    BY <2>1, <2>2
<1>10. ASSUME ~Launch, NEW p \in Gens, Emit(p)
       PROVE  FeedInv'
  <2>1. /\ Stream' = Append(Stream, Emitted(p)) /\ Emitted(p) \in SBatch
        /\ Emitted(p).of = pollers[p].of /\ UNCHANGED cacheVars
        /\ \A g \in Gens \ {p} : pollers'[g] = pollers[g]
    <3>1. Emitted(p) \in Batch /\ Emitted(p).of = pollers[p].of /\ UNCHANGED cacheVars
      BY <1>0, <1>10, EmitDoes DEF Emit, Emitted
    <3>2. QED
      BY <1>0, <1>10, <3>1, EmitDoes DEF Batch, SBatch
  <2>2. CASE p = poller /\ pollers[poller].of = task
    BY <1>2, <1>3, <1>10, <2>2, EmitFeeds
  <2>3. ASSUME pollers[p].of # task PROVE Mine' = Mine /\ Ordered'
    BY <1>4, <1>10, <2>1, <2>3
  <2>4. CASE p = poller /\ pollers[poller].of # task
    <3>1. Jobs(poller) # <<>> /\ ~pollers[poller].quit
      BY <1>0, <1>2, <1>3, <1>10, <2>4 DEF Serves, Generations, Connected
    <3>2. pollers'[poller].jobs = Jobs(poller) /\ pollers'[poller].of = pollers[poller].of
      BY <1>0, <1>10, <2>4, <3>1, EmitDoes
    <3>3. Token' = Token /\ Serves'
      BY <1>2, <1>3, <1>10, <2>3, <2>4, <3>1, <3>2 DEF Token, Serves, Jobs
    <3>4. Vouched' = Vouched /\ UNCHANGED <<applied, cache>>
      BY <1>2, <1>10, <2>1 DEF Vouched, cacheVars
    <3>5. Between' /\ NoneLeftOut' /\ Shown'
      BY <1>2, <1>3, <1>10, <2>3, <2>4, <3>3, <3>4, FeedSame
    <3>6. QED
      BY <2>3, <2>4, <3>3, <3>5 DEF FeedInv
  <2>5. CASE p # poller
    <3>1. pollers[p].of # task
      BY <1>0, <1>3, <1>10, <2>5 DEF Generations, OfPoller
    <3>2. pollers'[poller] = pollers[poller]
      BY <1>3, <1>10, <2>1, <2>5
    <3>3. QED
      BY <1>5, <1>10, <2>1, <2>3, <3>1, <3>2 DEF Jobs
  <2>6. QED
    BY <2>2, <2>4, <2>5
<1>11. ASSUME ~Launch, NEW p \in Gens, TakeJob(p)
       PROVE  FeedInv'
  <2>1. PICK J : J = Jobs(poller)
    OBVIOUS
  <2>2. /\ p = poller /\ J \in Seq(Job) /\ J # <<>> /\ pollers'[poller].jobs = Tail(J)
        /\ pollers'[poller].of = Head(J).of /\ pollers'[poller].token = Head(J).token
        /\ UNCHANGED <<queueVars, cacheVars>>
    <3>1. p = poller /\ UNCHANGED <<queueVars, cacheVars>>
      BY <1>11 DEF TakeJob
    <3>2. QED
      BY <1>0, <1>11, <2>1, <3>1, TakeJobDoes
  <2>3. /\ Len(J) \in Nat \ {0} /\ DOMAIN J = 1..Len(J) /\ Head(J) = J[1]
        /\ Len(Tail(J)) = Len(J) - 1 /\ DOMAIN Tail(J) = 1..Len(J) - 1
        /\ \A k \in 1..Len(J) - 1 : Tail(J)[k] = J[k + 1] /\ k + 1 \in 1..Len(J)
        /\ Tail(J) = <<>> <=> Len(J) = 1
    <3>1. /\ Tail(J) \in Seq(Job) /\ Len(Tail(J)) = Len(J) - 1 /\ Head(J) = J[1]
          /\ \A k \in 1..Len(J) - 1 : Tail(J)[k] = J[k + 1]
      BY <2>2, HeadTailProperties
    <3>2. DOMAIN Tail(J) = 1..Len(Tail(J)) /\ DOMAIN J = 1..Len(J) /\ Len(J) \in Nat
      BY <2>2, <3>1, LenProperties
    <3>3. Len(J) # 0 /\ (Tail(J) = <<>> <=> Len(Tail(J)) = 0)
      BY <2>2, <3>1, EmptySeq
    <3>4. QED
      BY <3>1, <3>2, <3>3
  <2>4. /\ \A k \in 1..Len(J) : J[k].of = task <=> k = Len(J)
        /\ Mine = {} /\ Token = J[Len(J)].token
    <3>1. Serves /\ Jobs(poller) # <<>>
      BY <1>3, <1>11, <2>1, <2>2
    <3>2. (\A k \in DOMAIN J : J[k].of = task <=> k = Len(J)) /\ Mine = {}
      BY <2>1, <3>1 DEF Serves
    <3>3. Token = J[Len(J)].token
      BY <2>1, <3>1 DEF Token, Jobs
    <3>4. QED
      BY <2>3, <3>2, <3>3
  <2>5. Stream' = Stream
    BY <2>2 DEF queueVars, Stream, InMainq
  <2>6. Mine' = Mine /\ Ordered'
    BY <1>4, <1>11, <2>5
  <2>7. Token' = Token
    <3>1. CASE Len(J) = 1
      BY <1>2, <1>11, <2>2, <2>3, <2>4, <3>1 DEF Token
    <3>2. CASE Len(J) # 1
      <4>1. Len(J) - 1 \in 1..Len(J) - 1 /\ Len(J) - 1 + 1 = Len(J)
        BY <2>3, <3>2
      <4>2. Tail(J)[Len(Tail(J))] = J[Len(J)]
        BY <2>3, <4>1
      <4>3. QED
        BY <1>2, <1>11, <2>2, <2>3, <2>4, <3>2, <4>2 DEF Token
    <3>3. QED
      BY <3>1, <3>2
  <2>8. Serves'
    <3>1. CASE Len(J) = 1
      BY <1>2, <1>11, <2>2, <2>3, <2>4, <3>1 DEF Serves, Jobs
    <3>2. CASE Len(J) # 1
      <4>1. Head(J).of # task
        <5>1. 1 \in 1..Len(J)
          BY <2>3
        <5>2. QED
          BY <2>3, <2>4, <3>2, <5>1
      <4>2. \A k \in 1..Len(J) - 1 : Tail(J)[k].of = task <=> k = Len(Tail(J))
        <5>1. \A k \in 1..Len(J) - 1 : k + 1 = Len(J) <=> k = Len(Tail(J))
          BY <2>3
        <5>2. \A k \in 1..Len(J) - 1 : J[k + 1].of = task <=> k + 1 = Len(J)
          BY <2>3, <2>4
        <5>3. QED
          BY <2>3, <5>1, <5>2
      <4>3. QED
        BY <1>2, <1>11, <2>2, <2>3, <2>4, <2>6, <3>2, <4>1, <4>2 DEF Serves, Jobs
    <3>3. QED
      BY <3>1, <3>2
  <2>9. Vouched' = Vouched /\ UNCHANGED <<applied, cache>>
    BY <1>2, <1>11, <2>2 DEF Vouched, cacheVars
  <2>10. Between' /\ NoneLeftOut' /\ Shown'
    BY <1>2, <1>3, <1>11, <2>6, <2>7, <2>9, FeedSame
  <2>11. QED
    BY <2>6, <2>8, <2>10 DEF FeedInv
<1>12. ASSUME ~Launch, NEW p \in Gens, ServerAnswers(p) \/ Polls(p) \/ Quit(p)
       PROVE  FeedInv'
  <2>1. /\ pollers'[poller].of = pollers[poller].of /\ pollers'[poller].jobs = Jobs(poller)
        /\ pollers'[poller].token = pollers[poller].token
    <3>1. CASE ServerAnswers(p)
      BY <1>0, <1>3, <1>12, <3>1, ServerAnswersDoes DEF Jobs
    <3>2. CASE Polls(p)
      BY <1>0, <1>3, <1>12, <3>2, PollsDoes DEF Jobs
    <3>3. CASE Quit(p)
      <4>1. p # poller
        BY <1>0, <1>2, <1>12, <3>3 DEF Generations, Connected, Quit
      <4>2. pollers'[poller] = pollers[poller]
        BY <1>0, <1>3, <3>3, <4>1 DEF Quit, TypeOK
      <4>3. QED
        BY <4>2 DEF Jobs
    <3>4. QED
      BY <1>12, <3>1, <3>2, <3>3
  <2>2. Stream' = Stream \/ Stream' = Append(Stream, NoBatch)
    <3>1. CASE Polls(p)
      BY <1>0, <1>12, <3>1, PollsDoes
    <3>2. CASE ServerAnswers(p) \/ Quit(p)
      BY <3>2 DEF ServerAnswers, Quit, queueVars, Stream, InMainq
    <3>3. QED
      BY <1>12, <3>1, <3>2
  <2>3. UNCHANGED cacheVars
    BY <1>12 DEF ServerAnswers, Polls, AnswerLost, ServerIsSilent, Retry, Quit
  <2>4. Mine' = Mine /\ Ordered'
    BY <1>0, <1>3, <1>4, <1>12, <2>2
  <2>5. QED
    BY <1>5, <1>12, <2>1, <2>3, <2>4
<1>13. CASE ~Launch /\ (HandleClear \/ HandleLost \/ Disconnect \/ BeginConnect \/ Adopt \/ Load)
  <2>1. ~HandleClear
    BY <1>0, <1>2, <1>13, ClearIs DEF Connected
  <2>2. CASE HandleLost \/ Disconnect
    BY <1>2, <1>3, <1>13, <2>2 DEF HandleLost, Disconnect, EndConnect, Connected
  <2>3. CASE BeginConnect \/ Adopt \/ Load
    BY <1>2, <1>3, <1>13, <2>3 DEF BeginConnect, Adopt, Load, Connected
  <2>4. QED
    BY <1>13, <2>1, <2>2, <2>3
<1>14. CASE ~Launch /\ (ServerChanges \/ UNCHANGED vars)
  BY <1>6, <1>14 DEF ServerChanges, vars, pollerVars
<1>15. QED
  BY <1>1, <1>8, <1>9, <1>10, <1>11, <1>12, <1>13, <1>14
  DEF Next, ConnectThread, PollerThread, Polls, MainThread


---------------------------------------------------------------------------------
\* The invariant holds at first, and every step keeps it.
LEMMA InitIInv == Init => IInv
<1> SUFFICES ASSUME Init PROVE IInv
  OBVIOUS
<1>1. log \in Seq(M!Change) /\ Now \in Nat /\ Now <= MaxChanges
  <2>1. PICK existing \in {refs \in SUBSET Ref \ {{}} : Cardinality(refs) <= MaxChanges} :
          log = [i \in 1..Cardinality(existing) |-> [ref |-> SetToSeq(existing)[i], op |-> "add"]]
    BY DEF Init
  <2> DEFINE n == Cardinality(existing)
             s == SetToSeq(existing)
  <2>2. n \in Nat /\ n <= MaxChanges /\ ExistsBijection(1..n, existing) /\ existing \subseteq Ref
    BY <2>1, FS_Subset, FS_CardinalityType, FeedAssumption
  <2>3. \E f \in [1..n -> existing] : IsInjective(f)
    BY <2>2 DEF ExistsBijection, Bijection, Injection, Surjection, IsInjective
  <2>4. s \in [1..n -> existing]
    BY <2>3 DEF SetToSeq
  <2> HIDE DEF n, s
  <2>5. log = [i \in 1..n |-> [ref |-> s[i], op |-> "add"]]
    BY <2>1 DEF n, s
  <2>6. log \in [1..n -> M!Change]
    BY <2>2, <2>4, <2>5 DEF M!Change
  <2>7. log \in Seq(M!Change)
    BY <2>2, <2>6, SeqDef
  <2>8. Len(log) = n
    BY <2>2, <2>6, <2>7, LenProperties
  <2>9. QED
    BY <2>2, <2>7, <2>8 DEF Now
<1>2. TypeInv
  <2>1. /\ <<>> \in Seq(Posted) /\ <<>> \in Seq(Batch)
        /\ <<>> \in Seq([of : Gens, token : 0..MaxChanges])
    BY EmptySeq
  <2>2. NoPoller("none") \in Poller /\ NoPoller("none").at = "none"
    BY <2>1, FeedAssumption DEF NoPoller, Poller, NoAnswer
  <2>3. pollers \in [Gens -> Poller] /\ \A g \in Gens : pollers[g].at = "none"
    BY <2>2 DEF Init
  <2>4. Empty \in [Ref -> 0..MaxChanges]
    BY FeedAssumption DEF Empty
  <2>5. QED
    <3>1. /\ {task, poller, attempts} \subseteq {0} \cup Gens
          /\ thread \in {"none", "login", "load", "consoles"}
          /\ token \in 0..MaxChanges /\ applied \in 0..MaxChanges
          /\ {updateTimer, connected} \subseteq BOOLEAN
          /\ uncovered \subseteq Ref /\ unread \subseteq Ref
      <4>1. /\ task = 0 /\ poller = 0 /\ attempts = 0 /\ thread = "none" /\ token = 0 /\ applied = 0
            /\ updateTimer = FALSE /\ connected = FALSE /\ uncovered = {} /\ unread = {}
        BY DEF Init
      <4>2. 0 \in 0..MaxChanges
        BY FeedAssumption
      <4>3. QED
        BY <4>1, <4>2
    <3>2. /\ mainq \in Seq(Posted) /\ {eventQueue, updating} \subseteq Seq(Batch)
          /\ cache \in [Ref -> 0..MaxChanges]
      BY <2>1, <2>4 DEF Init
    <3>3. TypeOK
      BY <1>1, <2>3, <3>1, <3>2 DEF TypeOK
    <3>4. QED
      BY <2>3, <3>3 DEF TypeInv
<1>3. Batches = {}
  <2>1. Queues /\ updating = <<>> /\ eventQueue = <<>> /\ mainq = <<>>
    BY <1>2 DEF Init, TypeInv, TypeOK, Queues
  <2>2. Range(updating) = {} /\ Range(eventQueue) = {}
    BY <2>1 DEF Range
  <2>3. InMainq \in Seq(SBatch) /\ Len(InMainq) = 0
    BY <2>1, BatchesOfIs, EmptySeq DEF Queues, InMainq
  <2>4. Range(InMainq) = {}
    BY <2>3, LenProperties DEF Range
  <2>5. QED
    BY <2>1, <2>2, <2>4, StreamIs
<1>4. \A g \in Gens : /\ pollers[g].at = "none" /\ Jobs(g) = <<>> /\ pollers[g].of = 0
                      /\ pollers[g].token = 0 /\ pollers[g] = NoPoller("none")
  BY DEF Init, NoPoller, Jobs
<1>5. Logged
  <2>1. token <= Now /\ \A r \in Ref : cache[r] <= Now
    BY <1>1 DEF Init, Empty
  <2>2. \A g \in Gens : pollers[g].token <= Now /\ \A k \in DOMAIN Jobs(g) : Jobs(g)[k].token <= Now
    BY <1>1, <1>4
  <2>3. QED
    BY <1>3, <2>1, <2>2 DEF Logged
<1>6. Answers
  BY <1>4 DEF Answers
<1>7. Attempt /\ Loading /\ ~Connected
  BY DEF Init, Attempt, Loading, Connected
<1>8. Generations
  <2>1. \A p, g \in Gens : ~OfPoller(p, g)
    BY <1>4, FeedAssumption DEF OfPoller, Gens
  <2>2. QED
    BY <1>3, <1>4, <2>1 DEF Init, Generations
<1>9. QED
  BY <1>2, <1>5, <1>6, <1>7, <1>8 DEF IInv

LEMMA StepIInv == IInv /\ [Next]_vars => IInv'
<1> SUFFICES ASSUME IInv, [Next]_vars PROVE IInv'
  OBVIOUS
<1>1. TypeInv' /\ Logged' /\ Attempt' /\ Generations' /\ Loading'
  BY TypeInvStep, LoggedStep, AttemptStep, GenerationsStep, LoadingStep
<1>2. Answers'
  BY AnswersStep DEF IInv
<1>3. Connected' => FeedInv'
  BY FeedStep
<1>4. QED
  BY <1>1, <1>2, <1>3 DEF IInv

\* In every state the batches on their way tell what the cache does not show.
THEOREM FeedIsComplete == SafeSpec => []IInv
  BY InitIInv, StepIInv, PTL DEF SafeSpec

\* All that pollers, queues and the cache hold is of its type, in every reachable state.
THEOREM TypeCorrect == SafeSpec => []TypeOK
<1>1. IInv => TypeOK
  BY DEF IInv, TypeInv
<1>2. QED
  BY <1>1, FeedIsComplete, PTL

\* What the cache does not show of the server is in a queue, or the poller will be told.
LEMMA InvNothingIsMissed == IInv => NothingIsMissed
<1> SUFFICES ASSUME IInv, NEW r \in Vouched, cache[r] # Current(r), ~(LastOf(r, Now) > Token)
             PROVE  Coming(updating, r) \/ Coming(eventQueue, r) \/ Coming(InMainq, r)
  BY DEF NothingIsMissed, LastOf
<1>1. /\ TypeOK /\ Shown /\ r \in Ref /\ Connected /\ Token \in Nat /\ Token <= Now /\ Now \in Nat
      /\ \A b \in Mine : b.token \in Nat /\ LoggedBatch(b) /\ b \in Batches
  <2>1. TypeOK /\ Logged /\ Attempt /\ Connected /\ FeedInv
    BY DEF IInv, TypeInv, Vouched
  <2>2. QED
    BY <2>1, FeedIs DEF FeedInv, Between, Vouched
<1>2. LastOf(r, Now) <= Token
  BY <1>1, LastIs DEF LastOf
<1>3. ~FreshAt(r, Token)
  <2>1. ASSUME FreshAt(r, Token) PROVE M!Fresh(log, r, cache[r], Now)
    BY <1>1, <1>2, <2>1, FreshIs DEF FreshAt, LastOf, Now
  <2>2. ~M!Fresh(log, r, cache[r], Now)
    BY <1>1 DEF M!Fresh, Current, Now
  <2>3. QED
    BY <2>1, <2>2
<1>4. PICK b \in Mine : LastOf(r, Token) \in b.events
  BY <1>1, <1>3 DEF Shown, Marks, ToldBy
<1>5. b.of = task /\ \E i \in b.events : log[i].ref = r
  <2>1. LastOf(r, Token) # 0 /\ b.of = task
    BY <1>1, <1>4 DEF LoggedBatch, Mine, MineOf
  <2>2. log[LastOf(r, Token)].ref = r
    BY <1>1, <2>1, LastIs DEF LastOf
  <2>3. QED
    BY <1>4, <2>1, <2>2
<1>6. b \in Range(updating) \cup Range(eventQueue) \cup Range(InMainq)
  BY <1>1, <1>4, StreamIs DEF TypeOK, Queues
<1>7. ASSUME NEW q, b \in Range(q) PROVE Coming(q, r)
  BY <1>5, <1>7 DEF Range, Coming
<1>8. QED
  BY <1>6, <1>7

\* No change of the server is lost on its way from the poller to the cache
\* (onEventPollerEventReceived, onCacheUpdateTimer).
THEOREM NothingIsEverMissed == SafeSpec => []NothingIsMissed
  BY FeedIsComplete, InvNothingIsMissed, PTL

---------------------------------------------------------------------------------
\* The implementation of Mirror.
LEMMA ViewIs ==
  /\ ~Connected => Vouched = {} /\ [r \in Vouched |-> cache[r]] = <<>>
  /\ TypeOK => Vouched \subseteq Ref
<1>1. ASSUME ~Connected PROVE Vouched = {}
  BY <1>1 DEF Vouched
<1>2. [r \in {} |-> cache[r]] = <<>>
  OBVIOUS
<1>3. QED
  BY <1>1, <1>2 DEF Vouched

LEMMA InitMirror == Init => M!Init
<1> SUFFICES ASSUME Init PROVE M!Init
  OBVIOUS
<1>1. log \in Seq(M!Change) /\ ~Connected
  BY InitIInv DEF IInv, TypeInv, TypeOK, Init, Connected
<1>2. QED
  BY <1>1, ViewIs DEF M!Init

\* While a session is connected, the token up to which events are applied moves forward.
LEMMA AppliedGrows ==
  ASSUME IInv, [Next]_vars, Connected, Connected'
  PROVE  applied \in Nat /\ applied' \in Nat /\ applied <= applied'
<1>1. /\ TypeInv /\ TypeOK /\ Logged /\ Attempt /\ FeedInv
      /\ applied \in Nat /\ Stream \in Seq(SBatch) /\ \A b \in Mine : b.token \in Nat
  BY FeedIs DEF IInv, TypeInv
<1>2. CASE applied' = applied
  BY <1>1, <1>2
<1>3. CASE UpdateCache
  <2>1. PICK i \in Head(Stream).events : Done(i)
    BY <1>1, <1>3, UpdateCacheDoes
  <2>2. CASE applied' # applied
    <3>1. Head(Stream).of = task /\ applied' = Head(Stream).token /\ Head(Stream) \in Batches
      BY <1>1, <1>3, <2>1, <2>2, UpdateCacheDoes DEF Done
    <3>2. Head(Stream) \in Mine
      BY <3>1 DEF Mine, MineOf, Batches
    <3>3. QED
      BY <1>1, <3>1, <3>2 DEF FeedInv, Between
  <2>3. QED
    BY <1>2, <2>2
<1>4. CASE Launch
  BY <1>4 DEF Launch, LoadAndStart, Connected
<1>5. CASE Disconnect \/ (HandleLost /\ task # 0)
  BY <1>5 DEF Disconnect, HandleLost, EndConnect, Connected
<1>6. QED
  BY <1>2, <1>3, <1>4, <1>5
  DEF Next, ServerChanges, BeginConnect, ConnectThread, Adopt, Load, PollerThread, TakeJob,
      ServerAnswers, Emit, Polls, AnswerLost,
          ServerIsSilent, Retry, Quit, MainThread, HandleEvents, Enqueue, HandleClear,
      HandleLost, OnCacheUpdateTimer, vars, cacheVars

\* What a session vouches for is fresh, and so it may be after a Refresh.
MirrorInv ==
  Connected => /\ applied \in 0..Now /\ Now \in Nat
               /\ \A r \in Vouched : r \in Ref /\ cache[r] \in 0..Now /\ FreshAt(r, applied)

LEMMA InvMirror == IInv => MirrorInv
<1> SUFFICES ASSUME IInv, Connected
             PROVE  /\ applied \in 0..Now /\ Now \in Nat
                    /\ \A r \in Vouched : r \in Ref /\ cache[r] \in 0..Now /\ FreshAt(r, applied)
  BY DEF MirrorInv
<1>1. /\ TypeOK /\ Logged /\ Between /\ Shown /\ applied \in Nat /\ Token \in Nat /\ Now \in Nat
      /\ Vouched \subseteq Ref
  BY FeedIs DEF IInv, TypeInv, FeedInv, Vouched
<1>2. applied \in 0..Now
  BY <1>1 DEF Between
<1>3. ASSUME NEW r \in Ref PROVE cache[r] \in 0..Now
  <2>1. cache[r] \in Nat /\ cache[r] <= Now
    BY <1>1, <1>3, FeedAssumption DEF TypeOK, Logged
  <2>2. QED
    BY <1>1, <2>1
<1>4. QED
  BY <1>1, <1>2, <1>3 DEF Shown

LEMMA StepMirror == IInv /\ MirrorInv' /\ [Next]_vars => [M!Next]_(M!vars)
<1> SUFFICES ASSUME IInv, MirrorInv', [Next]_vars PROVE [M!Next]_(M!vars)
  OBVIOUS
<1> DEFINE view == [r \in Vouched |-> cache[r]]
           upto == IF Connected THEN applied ELSE 0
<1>1. TypeOK /\ Now \in Nat
  BY CurrentIs DEF IInv, TypeInv, TypeOK
<1>2. CASE ServerChanges
  <2>1. view' = view /\ upto' = upto
    BY <1>2 DEF ServerChanges, Vouched, Connected, attemptVars, pollerVars, cacheVars
  <2>2. M!ServerChanges
    BY <1>2, <2>1 DEF ServerChanges, M!ServerChanges
  <2>3. QED
    BY <2>2 DEF M!Next
<1>3. CASE log' = log /\ ~Connected'
  <2>1. view' = <<>> /\ upto' = 0
    BY <1>3 DEF Vouched
  <2>2. M!Drop
    BY <1>3, <2>1 DEF M!Drop
  <2>3. QED
    BY <2>2 DEF M!Next
<1>4. CASE log' = log /\ Connected'
  <2>1. /\ applied' \in 0..Len(log) /\ Len(log) \in Nat
        /\ \A r \in Vouched' : r \in Ref /\ cache'[r] \in 0..Len(log)
                              /\ M!Fresh(log, r, cache'[r], applied')
    BY <1>1, <1>4 DEF MirrorInv, FreshAt, Now
  <2>2. upto' \in upto..Len(log)
    BY <1>4, <2>1, AppliedGrows
  <2>3. view' = [r \in Vouched' |-> cache'[r]] /\ upto' = applied'
    BY <1>4
  <2>4. view' \in [Vouched' -> 0..Len(log)] /\ Vouched' \in SUBSET Ref
    BY <2>1, <2>3
  <2>5. \A r \in DOMAIN view' : M!Fresh(log, r, view'[r], upto')
    BY <2>1, <2>3
  <2>6. M!Refresh
    BY <1>4, <2>2, <2>4, <2>5 DEF M!Refresh
  <2>7. QED
    BY <2>6 DEF M!Next
<1>5. QED
  BY <1>1, <1>2, <1>3, <1>4, LogStep

\* The feed implements Mirror: every object the cache vouches for is as it was at or after
\* a moment that never moves back (onCacheUpdateTimer, the token handed to Start).
THEOREM ImplementsMirror == SafeSpec => MirrorsServer
<1>1. IInv => MirrorInv
  BY InvMirror
<1>2. QED
  BY <1>1, FeedIsComplete, InitMirror, StepMirror, PTL DEF SafeSpec, MirrorsServer, M!Spec
==========================================================================================

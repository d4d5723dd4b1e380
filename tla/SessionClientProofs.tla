------------------------- MODULE SessionClientProofs -------------------------
(***************************************************************************)
(* Proofs about SessionClient, for any browsers and chat lines, and        *)
(* whatever the bounds on events, connections and errors.                  *)
(***************************************************************************)
EXTENDS SessionClient, FiniteSetTheorems, SequenceTheorems, TLAPS

-----------------------------------------------------------------------------
(* Largest elements, and sets in order *)

\* A set of numbers that holds 0 and the successor of each is all of them.
LEMMA NumberInduction ==
  ASSUME NEW S, 0 \in S, \A n \in Nat : n \in S => n + 1 \in S
  PROVE  \A n \in Nat : n \in S
<1> DEFINE R == {ss \in Nat \X Nat : ss[1] < ss[2]}
<1> DEFINE T == Nat \ S
<1>1. IsWellFoundedOn(R, Nat)
  BY NatLessThanWellFounded DEF OpToRel
<1> SUFFICES ASSUME T # {} PROVE FALSE
  OBVIOUS
<1>2. PICK x \in T : \A y \in T : <<y, x>> \notin R
  <2>1. T \subseteq Nat
    OBVIOUS
  <2> HIDE DEF R, T
  <2> QED BY <1>1, <2>1, WFMin
<1>3. x \in Nat /\ x # 0
  OBVIOUS
<1>4. x - 1 \in Nat /\ x - 1 < x /\ (x - 1) + 1 = x
  BY <1>3
<1>5. x - 1 \in T => <<x - 1, x>> \in R
  BY <1>3, <1>4
<1>6. x - 1 \in S
  BY <1>2, <1>4, <1>5
<1> QED BY <1>4, <1>6

\* A set of numbers that has one above all of them has a largest.
LEMMA MaxOf ==
  ASSUME NEW S \in SUBSET Nat, S # {}, NEW u \in Nat, \A x \in S : x <= u
  PROVE  Max(S) \in S /\ \A x \in S : x <= Max(S)
<1> DEFINE T == {n \in Nat : (\A x \in S : x <= n) => \E m \in S : \A x \in S : x <= m}
<1>1. 0 \in T
  <2> SUFFICES ASSUME \A x \in S : x <= 0 PROVE \E m \in S : \A x \in S : x <= m
    OBVIOUS
  <2>1. PICK m : m \in S
    OBVIOUS
  <2>2. m = 0
    BY <2>1
  <2> QED BY <2>1, <2>2
<1>2. ASSUME NEW n \in Nat, n \in T PROVE n + 1 \in T
  <2> SUFFICES ASSUME \A x \in S : x <= n + 1 PROVE \E m \in S : \A x \in S : x <= m
    OBVIOUS
  <2>1. CASE n + 1 \in S
    BY <2>1
  <2>2. CASE n + 1 \notin S
    <3>1. ASSUME NEW x \in S PROVE x <= n
      <4>1. x \in Nat /\ x <= n + 1 /\ x # n + 1
        BY <2>2
      <4> QED BY <4>1
    <3> QED BY <1>2, <3>1
  <2> QED BY <2>1, <2>2
<1>3. u \in T
  <2> HIDE DEF T
  <2> QED BY <1>1, <1>2, NumberInduction
<1>4. \E m \in S : \A x \in S : m >= x
  BY <1>3
<1> QED BY <1>4 DEF Max

\* The larger of two numbers.
LEMMA MaxOfTwo ==
  ASSUME NEW a \in Nat, NEW b \in Nat
  PROVE  Max({a, b}) = IF a >= b THEN a ELSE b
<1>1. Max({a, b}) \in {a, b} /\ \A x \in {a, b} : x <= Max({a, b})
  <2>1. {a, b} \in SUBSET Nat /\ {a, b} # {} /\ a + b \in Nat /\ \A x \in {a, b} : x <= a + b
    OBVIOUS
  <2> QED BY <2>1, MaxOf
<1> QED BY <1>1

\* A sequence of the elements of S in order.
Ordered(S, lines) ==
  /\ lines \in [1..Cardinality(S) -> S]
  /\ \A j, k \in 1..Cardinality(S) : j < k => lines[j] < lines[k]

\* There is one for every set of the numbers up to some N.
LEMMA OrderExists ==
  ASSUME NEW N \in Nat, NEW S \in SUBSET (1..N)
  PROVE  \E lines : Ordered(S, lines)
<1> DEFINE T == {n \in Nat : \A U \in SUBSET (1..N) : Cardinality(U) = n => \E lines : Ordered(U, lines)}
<1>f. \A U \in SUBSET (1..N) : IsFiniteSet(U) /\ Cardinality(U) \in Nat
  <2>1. IsFiniteSet(1..N)
    BY FS_Interval
  <2> QED BY <2>1, FS_Subset, FS_CardinalityType
<1>1. 0 \in T
  <2> SUFFICES ASSUME NEW U \in SUBSET (1..N), Cardinality(U) = 0 PROVE \E lines : Ordered(U, lines)
    OBVIOUS
  <2>1. [j \in 1..0 |-> 0] \in [1..0 -> U]
    OBVIOUS
  <2>2. Ordered(U, [j \in 1..0 |-> 0])
    BY <2>1 DEF Ordered
  <2> QED BY <2>2
<1>2. ASSUME NEW n \in Nat, n \in T PROVE n + 1 \in T
  <2> SUFFICES ASSUME NEW U \in SUBSET (1..N), Cardinality(U) = n + 1 PROVE \E lines : Ordered(U, lines)
    OBVIOUS
  <2>1. U # {} /\ U \in SUBSET Nat /\ \A x \in U : x <= N
    <3>1. U # {}
      BY FS_EmptySet
    <3> QED BY <3>1
  <2>2. Max(U) \in U /\ \A x \in U : x <= Max(U)
    BY <2>1, MaxOf
  <2> DEFINE m == Max(U)
             V == U \ {m}
  <2>3. V \in SUBSET (1..N) /\ Cardinality(V) = n /\ \A x \in V : x < m
    <3>1. Cardinality(V) = Cardinality(U) - 1
      BY <1>f, <2>2, FS_RemoveElement
    <3>2. \A x \in V : x \in Nat /\ m \in Nat /\ x <= m /\ x # m
      BY <2>1, <2>2
    <3> HIDE DEF V, m
    <3>3. \A x \in V : x < m
      BY <3>2
    <3>4. V \in SUBSET (1..N)
      BY DEF V
    <3>5. Cardinality(V) = n
      BY <3>1
    <3> QED BY <3>3, <3>4, <3>5
  <2>4. PICK lines : Ordered(V, lines)
    BY <1>2, <2>3
  <2> DEFINE more == [j \in 1..(n + 1) |-> IF j = n + 1 THEN m ELSE lines[j]]
  <2>5. \A j \in 1..n : lines[j] \in V /\ more[j] = lines[j]
    <3>1. lines \in [1..n -> V]
      <4> HIDE DEF V
      <4> QED BY <2>3, <2>4 DEF Ordered
    <3>2. \A j \in 1..n : j \in 1..(n + 1) /\ j # n + 1
      OBVIOUS
    <3> HIDE DEF V
    <3> QED BY <3>1, <3>2
  <2>6. more \in [1..(n + 1) -> U] /\ more[n + 1] = m
    BY <2>2, <2>5
  <2>7. ASSUME NEW j \in 1..(n + 1), NEW k \in 1..(n + 1), j < k PROVE more[j] < more[k]
    <3>1. j \in 1..n
      BY <2>7
    <3>2. CASE k = n + 1
      BY <2>3, <2>5, <2>6, <3>1, <3>2
    <3>3. CASE k # n + 1
      <4>1. k \in 1..n
        BY <3>3
      <4> HIDE DEF more
      <4> QED BY <2>3, <2>4, <2>5, <2>7, <3>1, <4>1 DEF Ordered
    <3> QED BY <3>2, <3>3
  <2>8. Ordered(U, more)
    <3> HIDE DEF more
    <3> QED BY <2>6, <2>7 DEF Ordered
  <2> QED BY <2>8
<1>3. \A n \in Nat : n \in T
  <2> HIDE DEF T
  <2> QED BY <1>1, <1>2, NumberInduction
<1> QED BY <1>3, <1>f

\* The events in order are the events, each after the ones before it.
LEMMA InOrderOf ==
  ASSUME NEW N \in Nat, NEW S \in SUBSET (1..N)
  PROVE  /\ InOrder(S) \in Seq(S)
         /\ \A j, k \in 1..Len(InOrder(S)) : j < k => InOrder(S)[j] < InOrder(S)[k]
         /\ \A i \in S : \E k \in 1..Len(InOrder(S)) : InOrder(S)[k] = i
<1> DEFINE n == Cardinality(S)
           lines == InOrder(S)
<1>1. IsFiniteSet(S) /\ n \in Nat
  <2>1. IsFiniteSet(1..N)
    BY FS_Interval
  <2> QED BY <2>1, FS_Subset, FS_CardinalityType
<1>2. Ordered(S, lines)
  BY OrderExists DEF InOrder, Ordered
<1>3. lines \in [1..n -> S] /\ \A j, k \in 1..n : j < k => lines[j] < lines[k]
  BY <1>2 DEF Ordered
<1> HIDE DEF lines
<1>4. lines \in Seq(S) /\ Len(lines) = n
  <2>1. lines \in Seq(S)
    BY <1>1, <1>3, SeqDef
  <2>2. DOMAIN lines = 1..n
    BY <1>3
  <2> QED BY <1>1, <2>1, <2>2, LenProperties
<1>5. lines \in Injection(1..n, S)
  <2>1. \A j \in 1..n : lines[j] \in Nat
    <3>1. S \subseteq Nat
      OBVIOUS
    <3> HIDE DEF n
    <3> QED BY <1>3, <3>1
  <2>2. ASSUME NEW j \in 1..n, NEW k \in 1..n, lines[j] = lines[k] PROVE j = k
    <3>1. ~(lines[j] < lines[k]) /\ ~(lines[k] < lines[j])
      BY <2>1, <2>2
    <3>2. ~(j < k) /\ ~(k < j)
      BY <1>3, <3>1
    <3> HIDE DEF n
    <3> QED BY <1>1, <3>2
  <2> QED BY <1>3, <2>2 DEF Injection, IsInjective
<1>6. lines \in Surjection(1..n, S)
  <2>1. Cardinality(1..n) = n
    <3> HIDE DEF n
    <3> QED BY <1>1, FS_Interval
  <2> QED BY <1>1, <1>5, <2>1, FS_Injection
<1>7. \A i \in S : \E k \in 1..n : lines[k] = i
  BY <1>6 DEF Surjection
<1> QED BY <1>3, <1>4, <1>7 DEF lines
-----------------------------------------------------------------------------
(* The invariant *)

\* No event's version is past the row's, and everybody may see a change.
LogInv ==
  \A i \in Sequence : /\ log[i].version <= VersionNow
                      /\ log[i].to # NoMove => log[i].audience = Client

\* A snapshot says what the log did up to its last event.
Accurate(snapshot) ==
  snapshot \in Snapshot /\ snapshot.last <= Len(log) /\ snapshot.status = StatusAt(snapshot.last)

\* c may see these events.
Visible(c, S) == \A i \in S : c \in log[i].audience

\* What c may see up to a snapshot's last event is among these events, or below
\* its mark.
Covered(c, snapshot, S) ==
  \A i \in 1..snapshot.last : c \in log[i].audience => i <= local[c].highWater \/ i \in S

RequestOK(c, asked) ==
  /\ asked.last <= local[c].highWater
  /\ asked.stage \in {"events", "answer"} => Accurate(asked.snapshot)
  /\ asked.stage = "answer" => Visible(c, asked.missed) /\ Covered(c, asked.snapshot, asked.missed)

MessageOK(c, message) ==
  /\ message.type = "event" => c \in log[message.sequence].audience
  /\ message.type = "answer" =>
       /\ Accurate(message.snapshot)
       /\ Visible(c, message.missed) /\ Covered(c, message.snapshot, message.missed)
InboxOK(c) == \A k \in 1..Len(inbox[c]) : MessageOK(c, inbox[c][k])

\* The transcript is in order and below the mark, and the status on display is
\* where the newest change went, or that of a snapshot no change postdates.
LocalOK(mine) ==
  /\ mine.highWater <= Len(log)
  /\ \A k \in 1..Len(mine.lines) : mine.lines[k] <= mine.highWater
  /\ \A j, k \in 1..Len(mine.lines) : j < k => mine.lines[j] < mine.lines[k]
  /\ mine.live # 0 => log[mine.live].to # NoMove
  /\ mine.snapshot # NoSnapshot =>
       /\ mine.snapshot.last <= Len(log)
       /\ \/ mine.live # 0 /\ mine.snapshot.status = log[mine.live].to
          \/ mine.live <= mine.snapshot.last /\ mine.snapshot.status = StatusAt(mine.snapshot.last)
SeenOK(c, mine) == mine.snapshot # NoSnapshot =>
  \A i \in 1..mine.snapshot.last : c \in log[i].audience => i <= mine.highWater

ClientOK(c) == RequestOK(c, request[c]) /\ InboxOK(c) /\ LocalOK(local[c]) /\ SeenOK(c, local[c])
ClientInv == TypeOK /\ LogInv /\ \A c \in Client : ClientOK(c)

-----------------------------------------------------------------------------
(* A log that grows *)

Grows ==
  /\ log' \in Seq(Entry)
  /\ Len(log) <= Len(log')
  /\ \A i \in Sequence : log'[i] = log[i]

\* The status after the first events does not change any more.
LEMMA StatusStays ==
  ASSUME TypeOK, Grows, NEW n \in 0..Len(log)
  PROVE  StatusAt(n)' = StatusAt(n)
<1>1. Len(log) \in Nat
  BY LenProperties DEF TypeOK
<1>2. n # 0 => n \in Sequence
  BY <1>1 DEF Sequence
<1> QED BY <1>2 DEF StatusAt, Grows

\* The types grow with it.
LEMMA TypesGrow ==
  ASSUME TypeOK, Grows
  PROVE  /\ Len(log) \in Nat /\ Len(log') \in Nat
         /\ Sequence \subseteq Sequence' /\ Message \subseteq Message'
         /\ Request \subseteq Request' /\ Local \subseteq Local'
<1>1. Len(log) \in Nat /\ Len(log') \in Nat
  BY LenProperties DEF TypeOK, Grows
<1>2. Sequence \subseteq Sequence'
  BY <1>1 DEF Sequence, Grows
<1>3. SUBSET Sequence \subseteq SUBSET Sequence' /\ Seq(Sequence) \subseteq Seq(Sequence')
  BY <1>2
<1>4. Message \subseteq Message'
  BY <1>2, <1>3 DEF Message, Snapshot
<1>5. Request \subseteq Request'
  BY <1>3 DEF Request, Snapshot
<1>6. Local \subseteq Local'
  BY <1>2, <1>3 DEF Local, Snapshot
<1> QED BY <1>1, <1>2, <1>4, <1>5, <1>6

\* What is accurate stays so, and what was covered at a mark is at a higher one.
LEMMA AccurateStays ==
  ASSUME TypeOK, Grows, NEW c \in Client, local[c].highWater \in Nat, local'[c].highWater \in Nat,
         local[c].highWater <= local'[c].highWater
  PROVE  /\ \A snapshot : Accurate(snapshot) => Accurate(snapshot)'
         /\ \A S \in SUBSET Sequence : Visible(c, S) => Visible(c, S)'
         /\ \A snapshot : \A S \in SUBSET Sequence :
              Accurate(snapshot) /\ Covered(c, snapshot, S) => Covered(c, snapshot, S)'
<1>0. Len(log) \in Nat /\ Len(log') \in Nat /\ Len(log) <= Len(log')
  BY TypesGrow DEF Grows
<1>1. ASSUME NEW snapshot, Accurate(snapshot) PROVE Accurate(snapshot)'
  <2>1. snapshot \in Snapshot /\ snapshot.last \in Nat /\ snapshot.last <= Len(log) /\ snapshot.status = StatusAt(snapshot.last)
    BY <1>1 DEF Accurate, Snapshot
  <2>2. snapshot.last \in 0..Len(log)
    BY <1>0, <2>1
  <2>3. StatusAt(snapshot.last)' = StatusAt(snapshot.last)
    BY <2>2, StatusStays
  <2> QED BY <1>0, <2>1, <2>3 DEF Accurate, Snapshot
<1>2. ASSUME NEW S \in SUBSET Sequence, Visible(c, S) PROVE Visible(c, S)'
  BY <1>2 DEF Visible, Grows
<1>3. ASSUME NEW snapshot, NEW S \in SUBSET Sequence, Accurate(snapshot), Covered(c, snapshot, S)
      PROVE  Covered(c, snapshot, S)'
  <2>1. snapshot.last \in Nat /\ snapshot.last <= Len(log)
    BY <1>3 DEF Accurate, Snapshot
  <2>2. \A i \in 1..snapshot.last : i \in Sequence /\ i \in Nat
    BY <1>0, <2>1 DEF Sequence
  <2> QED BY <1>3, <2>2 DEF Covered, Grows
<1> QED BY <1>1, <1>2, <1>3

\* So what was right of a message, a request and a client's state stays right.
LEMMA ClientsStay ==
  ASSUME TypeOK, Grows, NEW c \in Client, local[c].highWater \in Nat, local'[c].highWater \in Nat,
         local[c].highWater <= local'[c].highWater
  PROVE  /\ \A message \in Message : MessageOK(c, message) => MessageOK(c, message)'
         /\ \A asked \in Request : RequestOK(c, asked) => RequestOK(c, asked)'
         /\ \A mine \in Local : LocalOK(mine) /\ SeenOK(c, mine) => LocalOK(mine)' /\ SeenOK(c, mine)'
<1>0. Len(log) \in Nat /\ Len(log') \in Nat /\ Len(log) <= Len(log')
  BY TypesGrow DEF Grows
<1>1. ASSUME NEW message \in Message, MessageOK(c, message) PROVE MessageOK(c, message)'
  <2>1. CASE message.type = "event"
    <3>1. message.sequence \in Sequence /\ message.type # "answer"
      BY <2>1 DEF Message
    <3> QED BY <1>1, <2>1, <3>1 DEF MessageOK, Grows
  <2>2. CASE message.type = "answer"
    <3>1. message.missed \in SUBSET Sequence /\ message.type # "event"
      BY <2>2 DEF Message
    <3>2. Accurate(message.snapshot) /\ Visible(c, message.missed) /\ Covered(c, message.snapshot, message.missed)
      BY <1>1, <2>2 DEF MessageOK
    <3>3. Accurate(message.snapshot)' /\ Visible(c, message.missed)' /\ Covered(c, message.snapshot, message.missed)'
      BY <3>1, <3>2, AccurateStays
    <3> QED BY <3>1, <3>3 DEF MessageOK
  <2>3. CASE message.type \notin {"event", "answer"}
    BY <2>3 DEF MessageOK
  <2> QED BY <2>1, <2>2, <2>3
<1>2. ASSUME NEW asked \in Request, RequestOK(c, asked) PROVE RequestOK(c, asked)'
  <2>1. asked.last \in Nat /\ asked.missed \in SUBSET Sequence
    BY DEF Request
  <2>2. asked.last <= local'[c].highWater
    BY <1>2, <2>1 DEF RequestOK
  <2>3. asked.stage \in {"events", "answer"} => Accurate(asked.snapshot)'
    BY <1>2, AccurateStays DEF RequestOK
  <2>4. asked.stage = "answer" => Visible(c, asked.missed)' /\ Covered(c, asked.snapshot, asked.missed)'
    BY <1>2, <2>1, AccurateStays DEF RequestOK
  <2> QED BY <2>2, <2>3, <2>4 DEF RequestOK
<1>3. ASSUME NEW mine \in Local, LocalOK(mine), SeenOK(c, mine) PROVE LocalOK(mine)' /\ SeenOK(c, mine)'
  <2>1. /\ mine.highWater \in Nat /\ mine.live \in {0} \cup Sequence
        /\ mine.snapshot \in {NoSnapshot} \cup Snapshot /\ mine.snapshot.last \in Nat
    BY DEF Local, NoSnapshot, Snapshot
  <2>2. mine.highWater <= Len(log')
    BY <1>0, <1>3, <2>1 DEF LocalOK
  <2>3. mine.live # 0 => log'[mine.live].to # NoMove
    BY <1>3, <2>1 DEF LocalOK, Grows
  <2>4. ASSUME mine.snapshot # NoSnapshot
        PROVE  /\ mine.snapshot.last <= Len(log')
               /\ \/ mine.live # 0 /\ mine.snapshot.status = log'[mine.live].to
                  \/ mine.live <= mine.snapshot.last /\ mine.snapshot.status = StatusAt(mine.snapshot.last)'
    <3>1. mine.snapshot.last <= Len(log) /\ mine.snapshot.last \in 0..Len(log)
      BY <1>0, <1>3, <2>1, <2>4 DEF LocalOK
    <3>2. StatusAt(mine.snapshot.last)' = StatusAt(mine.snapshot.last)
      BY <3>1, StatusStays
    <3>3. mine.live # 0 => log'[mine.live] = log[mine.live]
      BY <2>1 DEF Grows
    <3> QED BY <1>0, <1>3, <2>1, <2>4, <3>1, <3>2, <3>3 DEF LocalOK
  <2>5. ASSUME mine.snapshot # NoSnapshot, NEW i \in 1..mine.snapshot.last
        PROVE  c \in log'[i].audience => i <= mine.highWater
    <3>1. i \in Sequence
      BY <1>0, <1>3, <2>1, <2>5 DEF LocalOK, Sequence
    <3> QED BY <1>3, <2>5, <3>1 DEF SeenOK, Grows
  <2> QED BY <1>3, <2>2, <2>3, <2>4, <2>5 DEF LocalOK, SeenOK
<1> QED BY <1>1, <1>2, <1>3
-----------------------------------------------------------------------------
(* What the client makes of events *)

\* Every version the log holds is a number up to the row's.
LEMMA Versions ==
  ASSUME TypeOK, LogInv
  PROVE  VersionNow \in Nat /\ \A i \in Sequence : log[i].version \in Nat /\ log[i].version <= VersionNow
<1>1. Len(log) \in Nat /\ \A i \in 1..Len(log) : log[i] \in Entry
  BY LenProperties, ElementOfSeq DEF TypeOK
<1>2. VersionNow \in Nat
  BY <1>1 DEF VersionNow, VersionAt, Entry
<1> QED BY <1>1, <1>2 DEF LogInv, Sequence, Entry

\* The transcript with new events, in order, behind what it had.
LEMMA LinesOf ==
  ASSUME NEW N \in Nat, NEW lines \in Seq(1..N), NEW S \in SUBSET (1..N), NEW mark \in Nat, NEW top \in Nat,
         \A k \in 1..Len(lines) : lines[k] <= mark,
         \A j, k \in 1..Len(lines) : j < k => lines[j] < lines[k],
         mark <= top, \A i \in S : mark < i /\ i <= top
  PROVE  LET all == lines \o InOrder(S) IN
         /\ all \in Seq(1..N)
         /\ \A k \in 1..Len(all) : all[k] <= top
         /\ \A j, k \in 1..Len(all) : j < k => all[j] < all[k]
         /\ \A i \in S : \E k \in 1..Len(all) : all[k] = i
<1> DEFINE more == InOrder(S)
           all == lines \o more
<1>1. /\ more \in Seq(S) /\ \A j, k \in 1..Len(more) : j < k => more[j] < more[k]
      /\ \A i \in S : \E k \in 1..Len(more) : more[k] = i
  BY InOrderOf
<1> HIDE DEF more
<1>2. more \in Seq(1..N)
  <2>1. Len(more) \in Nat /\ more \in [1..Len(more) -> S]
    BY <1>1, LenProperties
  <2>2. more \in [1..Len(more) -> 1..N]
    BY <2>1
  <2> QED BY <2>1, <2>2, SeqDef
<1>3. /\ all \in Seq(1..N) /\ Len(all) = Len(lines) + Len(more) /\ Len(lines) \in Nat /\ Len(more) \in Nat
      /\ \A k \in 1..Len(all) : all[k] = IF k <= Len(lines) THEN lines[k] ELSE more[k - Len(lines)]
  BY <1>2, ConcatProperties, LenProperties
<1>4. \A k \in 1..Len(more) : more[k] \in S
  BY <1>1, ElementOfSeq
<1>5. \A k \in 1..Len(lines) : lines[k] \in Nat
  BY ElementOfSeq
<1> HIDE DEF all
<1>6. ASSUME NEW k \in 1..Len(all)
      PROVE  \/ k \in 1..Len(lines) /\ all[k] = lines[k]
             \/ k - Len(lines) \in 1..Len(more) /\ all[k] = more[k - Len(lines)] /\ ~(k \in 1..Len(lines))
  BY <1>3
<1>s. \A i \in S : i \in Nat /\ mark < i /\ i <= top
  OBVIOUS
<1>7. ASSUME NEW k \in 1..Len(all) PROVE all[k] <= top
  <2>1. CASE k \in 1..Len(lines) /\ all[k] = lines[k]
    <3>1. lines[k] \in Nat /\ lines[k] <= mark
      BY <1>5, <2>1
    <3> QED BY <2>1, <3>1
  <2>2. CASE k - Len(lines) \in 1..Len(more) /\ all[k] = more[k - Len(lines)]
    BY <1>4, <1>s, <2>2
  <2> QED BY <1>6, <2>1, <2>2
<1>8. ASSUME NEW j \in 1..Len(all), NEW k \in 1..Len(all), j < k PROVE all[j] < all[k]
  <2>1. CASE k \in 1..Len(lines)
    <3>1. j \in 1..Len(lines)
      BY <1>3, <1>8, <2>1
    <3>2. all[j] = lines[j] /\ all[k] = lines[k]
      BY <1>3, <2>1, <3>1
    <3> QED BY <1>8, <2>1, <3>1, <3>2
  <2>2. CASE j \in 1..Len(lines) /\ ~(k \in 1..Len(lines))
    <3>1. all[j] = lines[j] /\ all[k] \in S
      BY <1>3, <1>4, <1>6, <2>2
    <3>2. lines[j] \in Nat /\ lines[j] <= mark /\ mark < all[k] /\ all[k] \in Nat
      BY <1>5, <1>s, <2>2, <3>1
    <3> QED BY <3>1, <3>2
  <2>3. CASE ~(j \in 1..Len(lines)) /\ ~(k \in 1..Len(lines))
    <3>1. /\ j - Len(lines) \in 1..Len(more) /\ k - Len(lines) \in 1..Len(more)
          /\ all[j] = more[j - Len(lines)] /\ all[k] = more[k - Len(lines)]
          /\ j - Len(lines) < k - Len(lines)
      BY <1>3, <1>6, <1>8, <2>3
    <3> QED BY <1>1, <3>1
  <2> QED BY <2>1, <2>2, <2>3
<1>9. ASSUME NEW i \in S PROVE \E k \in 1..Len(all) : all[k] = i
  <2>1. PICK k \in 1..Len(more) : more[k] = i
    BY <1>1
  <2>2. /\ k + Len(lines) \in 1..Len(all) /\ ~(k + Len(lines) <= Len(lines))
        /\ (k + Len(lines)) - Len(lines) = k
    BY <1>3
  <2>3. all[k + Len(lines)] = more[k]
    BY <1>3, <2>2
  <2> QED BY <2>1, <2>2, <2>3
<1> QED BY <1>3, <1>7, <1>8, <1>9 DEF all, more
\* What a client is left with by events it may see: no less of the log, in
\* order, and where the newest change went on display - provided it has, or is
\* given, what it may see up to its snapshot.
LEMMA EventsApplied ==
  ASSUME TypeOK, LogInv, NEW c \in Client, NEW mine \in Local, LocalOK(mine),
         NEW S \in SUBSET Sequence, NEW now, now = ApplyEvents(mine, S),
         mine.snapshot # NoSnapshot =>
           \A i \in 1..mine.snapshot.last : c \in log[i].audience => i <= mine.highWater \/ i \in S
  PROVE  /\ now \in Local /\ LocalOK(now) /\ SeenOK(c, now) /\ mine.highWater <= now.highWater
         /\ \A i \in S : i > mine.highWater => \E k \in 1..Len(now.lines) : now.lines[k] = i
<1> DEFINE new == New(mine, S)
           changes == Changes(new)
<1>1. /\ mine.highWater \in Nat /\ mine.version \in Nat /\ mine.live \in {0} \cup Sequence
      /\ mine.snapshot \in {NoSnapshot} \cup Snapshot /\ mine.lines \in Seq(Sequence) /\ mine.snapshot.last \in Nat
  BY DEF Local, NoSnapshot, Snapshot
<1>2. Len(log) \in Nat /\ Sequence = 1..Len(log) /\ Sequence \subseteq Nat
  BY LenProperties DEF TypeOK, Sequence
<1>3. /\ new \in SUBSET Sequence /\ \A i \in new : i \in Nat /\ i > mine.highWater /\ i <= Len(log)
      /\ \A i \in S : i > mine.highWater => i \in new
  <2>1. \A i \in new : i \in S /\ i > mine.highWater
    BY DEF New
  <2>2. \A i \in S : i > mine.highWater => i \in new
    BY DEF New
  <2>3. \A i \in Sequence : i \in Nat /\ i <= Len(log)
    BY <1>2
  <2> HIDE DEF new
  <2> QED BY <2>1, <2>2, <2>3
<1>4. /\ changes \subseteq new /\ \A i \in changes : log[i].to # NoMove
      /\ \A i \in new : log[i].to # NoMove => i \in changes
  BY DEF Changes
<1> HIDE DEF new, changes
<1>5. CASE new = {}
  <2>1. now = mine
    BY <1>5 DEF ApplyEvents, new
  <2>2. SeenOK(c, mine)
    <3> SUFFICES ASSUME mine.snapshot # NoSnapshot, NEW i \in 1..mine.snapshot.last, c \in log[i].audience
                 PROVE  i <= mine.highWater
      BY DEF SeenOK
    <3>1. i <= mine.highWater \/ (i \in S /\ i \in Nat)
      BY <1>2
    <3> QED BY <1>1, <1>3, <1>5, <3>1
  <2> QED BY <1>1, <1>3, <1>5, <2>1, <2>2
<1>6. CASE new # {}
  <2> DEFINE top == Max(new)
             versions == {log[i].version : i \in new}
             version == Max({mine.version} \cup versions)
             live == IF changes = {} THEN mine.live ELSE Max(changes)
             snapshot == IF changes = {} \/ mine.snapshot = NoSnapshot THEN mine.snapshot
                         ELSE [mine.snapshot EXCEPT !.status = log[Max(changes)].to]
             lines == mine.lines \o InOrder(new)
  <2>1. top \in new /\ (\A i \in new : i <= top) /\ top \in Nat /\ mine.highWater < top /\ top <= Len(log)
    <3>1. new \in SUBSET Nat /\ \A i \in new : i <= Len(log)
      BY <1>2, <1>3
    <3> QED BY <1>2, <1>3, <1>6, <3>1, MaxOf
  <2>2. version \in Nat
    <3>1. VersionNow \in Nat /\ \A v \in versions : v \in Nat /\ v <= VersionNow
      BY <1>3, Versions
    <3> HIDE DEF versions
    <3>2. {mine.version} \cup versions \in SUBSET Nat /\ {mine.version} \cup versions # {}
      BY <1>1, <3>1
    <3>3. mine.version + VersionNow \in Nat /\ \A v \in {mine.version} \cup versions : v <= mine.version + VersionNow
      BY <1>1, <3>1
    <3> QED BY <3>2, <3>3, MaxOf
  <2>3. changes # {} => Max(changes) \in changes /\ \A i \in changes : i <= Max(changes)
    <3>1. changes \in SUBSET Nat /\ \A i \in changes : i <= Len(log)
      BY <1>2, <1>3, <1>4
    <3> QED BY <1>2, <3>1, MaxOf
  <2>4. live \in {0} \cup Sequence /\ (live # 0 => log[live].to # NoMove)
    BY <1>1, <1>3, <1>4, <2>3 DEF LocalOK
  <2>5. /\ snapshot \in {NoSnapshot} \cup Snapshot /\ snapshot.last = mine.snapshot.last
        /\ snapshot # NoSnapshot => mine.snapshot # NoSnapshot
        /\ changes = {} => snapshot = mine.snapshot
        /\ changes # {} /\ snapshot # NoSnapshot => snapshot.status = log[Max(changes)].to
    <3>1. CASE changes = {} \/ mine.snapshot = NoSnapshot
      BY <1>1, <3>1
    <3>2. CASE changes # {} /\ mine.snapshot # NoSnapshot
      <4>1. log[Max(changes)].to \in Status
        <5>1. Max(changes) \in Sequence /\ log[Max(changes)].to # NoMove
          BY <1>3, <1>4, <2>3, <3>2
        <5>2. \A i \in Sequence : log[i] \in Entry
          BY <1>2, ElementOfSeq DEF TypeOK
        <5> HIDE DEF Max
        <5> QED BY <5>1, <5>2 DEF Entry
      <4>2. mine.snapshot \in Snapshot /\ snapshot = [mine.snapshot EXCEPT !.status = log[Max(changes)].to]
        BY <1>1, <3>2
      <4> HIDE DEF snapshot
      <4> QED BY <3>2, <4>1, <4>2 DEF Snapshot
    <3> QED BY <3>1, <3>2
  <2>6. /\ lines \in Seq(Sequence)
        /\ \A k \in 1..Len(lines) : lines[k] <= top
        /\ \A j, k \in 1..Len(lines) : j < k => lines[j] < lines[k]
        /\ \A i \in new : \E k \in 1..Len(lines) : lines[k] = i
    <3>1. /\ mine.highWater <= top /\ \A i \in new : mine.highWater < i /\ i <= top
          /\ \A k \in 1..Len(mine.lines) : mine.lines[k] <= mine.highWater
          /\ \A j, k \in 1..Len(mine.lines) : j < k => mine.lines[j] < mine.lines[k]
      BY <1>1, <1>3, <2>1 DEF LocalOK
    <3>2. mine.lines \in Seq(1..Len(log)) /\ new \in SUBSET (1..Len(log))
      BY <1>1, <1>2, <1>3
    <3> HIDE DEF top
    <3>3. /\ lines \in Seq(1..Len(log))
          /\ \A k \in 1..Len(lines) : lines[k] <= top
          /\ \A j, k \in 1..Len(lines) : j < k => lines[j] < lines[k]
          /\ \A i \in new : \E k \in 1..Len(lines) : lines[k] = i
      <4>1. /\ Len(log) \in Nat /\ mine.highWater \in Nat /\ top \in Nat
        BY <1>1, <1>2, <2>1
      <4> QED BY <3>1, <3>2, <4>1, LinesOf, ZenonT(30)
    <3> HIDE DEF lines
    <3> QED BY <1>2, <3>3
  <2>7. now = [highWater |-> top, version |-> version, live |-> live, snapshot |-> snapshot, lines |-> lines]
    BY <1>6 DEF ApplyEvents, new, changes
  <2> HIDE DEF top, versions, version, live, snapshot, lines
  <2>8. /\ now \in Local /\ now.highWater = top /\ now.live = live /\ now.snapshot = snapshot /\ now.lines = lines
    BY <2>1, <2>2, <2>4, <2>5, <2>6, <2>7 DEF Local
  <2>9. ASSUME snapshot # NoSnapshot
        PROVE  /\ snapshot.last <= Len(log)
               /\ \/ live # 0 /\ snapshot.status = log[live].to
                  \/ live <= snapshot.last /\ snapshot.status = StatusAt(snapshot.last)
    <3>1. /\ mine.snapshot # NoSnapshot /\ mine.snapshot.last <= Len(log)
          /\ \/ mine.live # 0 /\ mine.snapshot.status = log[mine.live].to
             \/ mine.live <= mine.snapshot.last /\ mine.snapshot.status = StatusAt(mine.snapshot.last)
      BY <2>5, <2>9 DEF LocalOK
    <3>2. CASE changes = {}
      BY <2>5, <3>1, <3>2 DEF live
    <3>3. CASE changes # {}
      <4>1. live = Max(changes) /\ live \in new /\ snapshot.status = log[live].to
        BY <1>4, <2>3, <2>5, <2>9, <3>3 DEF live
      <4>2. live # 0
        BY <1>1, <1>3, <4>1
      <4> QED BY <2>5, <3>1, <4>1, <4>2
    <3> QED BY <3>2, <3>3
  <2>10. LocalOK(now)
    BY <2>1, <2>4, <2>6, <2>8, <2>9 DEF LocalOK
  <2>11. SeenOK(c, now)
    <3> SUFFICES ASSUME snapshot # NoSnapshot, NEW i \in 1..snapshot.last, c \in log[i].audience
                 PROVE  i <= top
      BY <2>8 DEF SeenOK
    <3>1. i \in Nat /\ (i <= mine.highWater \/ i \in S)
      BY <1>1, <2>5
    <3>2. CASE i <= mine.highWater
      BY <1>1, <2>1, <3>1, <3>2
    <3>3. CASE ~(i <= mine.highWater)
      <4>1. i \in S /\ i > mine.highWater
        BY <1>1, <3>1, <3>3
      <4> QED BY <1>3, <2>1, <4>1
    <3> QED BY <3>2, <3>3
  <2> QED BY <1>1, <1>3, <2>1, <2>6, <2>8, <2>10, <2>11
<1> QED BY <1>5, <1>6
\* A client's state with the snapshot and the version of an answer.
Resumed(mine, snapshot) ==
  [mine EXCEPT !.snapshot = ResumedSnapshot(snapshot, mine.live), !.version = snapshot.version]

\* A snapshot that comes says what the row was, unless a change seen live that
\* postdates it is put back.
LEMMA SnapshotResumed ==
  ASSUME TypeOK, NEW mine \in Local, LocalOK(mine), NEW snapshot, Accurate(snapshot),
         NEW now, now = Resumed(mine, snapshot)
  PROVE  /\ now \in Local /\ LocalOK(now) /\ now.highWater = mine.highWater /\ now.lines = mine.lines
         /\ now.snapshot.last = snapshot.last
<1> DEFINE resumed == ResumedSnapshot(snapshot, mine.live)
<1>1. Len(log) \in Nat /\ Sequence = 1..Len(log) /\ \A i \in Sequence : log[i] \in Entry
  BY LenProperties, ElementOfSeq DEF TypeOK, Sequence
<1>2. /\ snapshot \in Snapshot /\ snapshot.last \in Nat /\ snapshot.last <= Len(log) /\ snapshot.version \in Nat
      /\ snapshot.status = StatusAt(snapshot.last)
  BY DEF Accurate, Snapshot
<1>3. mine.live \in Nat /\ mine.live \in {0} \cup Sequence /\ (mine.live # 0 => log[mine.live].to # NoMove)
  BY <1>1 DEF Local, LocalOK
<1>4. CASE mine.live > snapshot.last
  <2>1. mine.live \in Sequence /\ mine.live \in 1..mine.live
    BY <1>1, <1>2, <1>3, <1>4
  <2>2. log[mine.live].to \in Status
    BY <1>1, <1>3, <1>2, <1>4, <2>1 DEF Entry
  <2>3. resumed = [snapshot EXCEPT !.status = log[mine.live].to]
    BY <1>4 DEF ResumedSnapshot
  <2> HIDE DEF resumed
  <2>4. resumed \in Snapshot /\ resumed.last = snapshot.last /\ resumed.status = log[mine.live].to
    BY <1>2, <2>2, <2>3 DEF Snapshot
  <2>5. now = [mine EXCEPT !.snapshot = resumed, !.version = snapshot.version]
    BY DEF resumed, Resumed
  <2>6. /\ now \in Local /\ now.highWater = mine.highWater /\ now.lines = mine.lines /\ now.live = mine.live
        /\ now.snapshot = resumed
    BY <1>2, <2>4, <2>5 DEF Local
  <2>7. mine.live # 0
    BY <1>2, <1>3, <1>4
  <2> QED BY <1>2, <2>4, <2>6, <2>7 DEF LocalOK
<1>5. CASE ~(mine.live > snapshot.last)
  <2>1. resumed = snapshot
    BY <1>5 DEF ResumedSnapshot
  <2> HIDE DEF resumed
  <2>2. mine.live <= snapshot.last
    BY <1>2, <1>3, <1>5
  <2>3. now = [mine EXCEPT !.snapshot = snapshot, !.version = snapshot.version]
    BY <2>1 DEF resumed, Resumed
  <2>4. /\ now \in Local /\ now.highWater = mine.highWater /\ now.lines = mine.lines /\ now.live = mine.live
        /\ now.snapshot = snapshot
    BY <1>2, <2>3 DEF Local
  <2> QED BY <1>2, <2>2, <2>4 DEF LocalOK
<1> QED BY <1>4, <1>5

-----------------------------------------------------------------------------
(* The steps *)

\* What a client may be sent.
Good(c) == {message \in Message : MessageOK(c, message)}

\* An inbox is right when all its messages are.
LEMMA GoodInbox ==
  ASSUME NEW c, inbox[c] \in Seq(Message)
  PROVE  InboxOK(c) <=> inbox[c] \in Seq(Good(c))
<1>1. Len(inbox[c]) \in Nat /\ inbox[c] \in [1..Len(inbox[c]) -> Message]
  BY LenProperties
<1>2. ASSUME InboxOK(c) PROVE inbox[c] \in Seq(Good(c))
  <2>1. \A k \in 1..Len(inbox[c]) : inbox[c][k] \in Good(c)
    BY <1>1, <1>2 DEF InboxOK, Good
  <2>2. inbox[c] \in [1..Len(inbox[c]) -> Good(c)]
    BY <1>1, <2>1
  <2> QED BY <1>1, <2>2, SeqDef
<1>3. ASSUME inbox[c] \in Seq(Good(c)) PROVE InboxOK(c)
  <2>1. \A k \in 1..Len(inbox[c]) : inbox[c][k] \in Good(c)
    BY <1>3, ElementOfSeq
  <2> QED BY <2>1 DEF InboxOK, Good
<1> QED BY <1>2, <1>3

\* A step that leaves the log and the clients' states keeps the invariant, if
\* what it leaves on the way to a client and asked of the server is right.
LEMMA TransitStep ==
  ASSUME ClientInv, UNCHANGED <<log, local>>, unpublished' \subseteq unpublished, online' \subseteq Client,
         inbox' \in [Client -> Seq(Message)], request' \in [Client -> Request],
         command' \in [Client -> {NoCommand} \cup Nat], awaiting' \in [Client -> SUBSET Sequence],
         connects' \in [Client -> 0..MaxConnects], errors' \in 0..MaxErrors,
         \A c \in Client : inbox'[c] \in Seq(Good(c)) /\ RequestOK(c, request'[c])
  PROVE  ClientInv'
<1>1. TypeOK'
  <2>1. Sequence' = Sequence /\ Message' = Message /\ Request' = Request /\ Local' = Local
    BY DEF Sequence, Message, Request, Local
  <2> QED BY <2>1 DEF ClientInv, TypeOK
<1>2. LogInv'
  BY DEF ClientInv, LogInv, Sequence, VersionNow, VersionAt
<1>3. ASSUME NEW c \in Client PROVE ClientOK(c)'
  <2>1. RequestOK(c, request[c])'
    BY DEF RequestOK, Accurate, Visible, Covered, StatusAt, Changes
  <2>2. LocalOK(local[c])' /\ SeenOK(c, local[c])'
    BY DEF ClientInv, ClientOK, LocalOK, SeenOK, StatusAt, Changes
  <2>3. InboxOK(c)'
    <3>1. \A k \in 1..Len(inbox'[c]) : inbox'[c][k] \in Good(c)
      BY ElementOfSeq
    <3>2. \A message : MessageOK(c, message) => MessageOK(c, message)'
      BY DEF MessageOK, Accurate, Visible, Covered, StatusAt, Changes
    <3>3. ASSUME NEW k \in 1..Len(inbox'[c]) PROVE MessageOK(c, inbox[c][k])'
      <4>1. ASSUME NEW message, message = inbox'[c][k] PROVE MessageOK(c, inbox[c][k])'
        <5>1. MessageOK(c, message)'
          BY <3>1, <3>2, <4>1 DEF Good
        <5> QED BY <4>1, <5>1 DEF MessageOK
      <4> QED BY <4>1
    <3> QED BY <3>3 DEF InboxOK
  <2> QED BY <2>1, <2>2, <2>3 DEF ClientOK
<1> QED BY <1>1, <1>2, <1>3 DEF ClientInv
\* A commit appends to the log an event whose version is the row's: nothing a
\* client has or is sent depends on what comes after.
LEMMA CommitStep ==
  ASSUME ClientInv, NEW entry \in Entry, NEW published \in BOOLEAN, Commit(entry, published),
         entry.version >= VersionNow, entry.to # NoMove => entry.audience = Client,
         UNCHANGED <<online, inbox, request, local, connects, errors>>,
         command' \in [Client -> {NoCommand} \cup Nat],
         \A c \in Client : awaiting'[c] \subseteq awaiting[c] \cup {Len(log) + 1}, awaiting' = [c \in Client |-> awaiting'[c]]
  PROVE  ClientInv'
<1>1. TypeOK /\ LogInv /\ log \in Seq(Entry) /\ Len(log) \in Nat
  BY LenProperties DEF ClientInv, TypeOK
<1>2. /\ log' \in Seq(Entry) /\ Len(log') = Len(log) + 1 /\ log'[Len(log) + 1] = entry
      /\ \A i \in 1..Len(log) : log'[i] = log[i]
  BY <1>1, AppendProperties DEF Commit
<1>3. Grows
  BY <1>1, <1>2 DEF Grows, Sequence
<1>4. /\ Sequence \subseteq Sequence' /\ Message \subseteq Message' /\ Request \subseteq Request' /\ Local \subseteq Local'
      /\ Len(log) + 1 \in Sequence'
  BY <1>1, <1>2, <1>3, TypesGrow DEF Sequence
<1>5. TypeOK'
  <2>1. unpublished' \subseteq Sequence'
    BY <1>1, <1>4 DEF Commit, TypeOK
  <2>2. awaiting' \in [Client -> SUBSET Sequence']
    <3>1. \A c \in Client : awaiting'[c] \subseteq Sequence'
      BY <1>1, <1>4 DEF TypeOK
    <3> QED BY <3>1
  <2>3. inbox' \in [Client -> Seq(Message)']
    <3>1. Seq(Message) \subseteq Seq(Message')
      BY <1>4
    <3> QED BY <1>1, <3>1 DEF TypeOK
  <2>4. request' \in [Client -> Request'] /\ local' \in [Client -> Local']
    BY <1>1, <1>4 DEF TypeOK
  <2>5. online' \subseteq Client /\ connects' \in [Client -> 0..MaxConnects] /\ errors' \in 0..MaxErrors
    BY <1>1 DEF TypeOK
  <2> QED BY <1>2, <2>1, <2>2, <2>3, <2>4, <2>5 DEF TypeOK
<1>6. LogInv'
  <2>1. VersionNow' = entry.version /\ entry.version \in Nat
    BY <1>1, <1>2 DEF VersionNow, VersionAt, Entry
  <2>2. VersionNow \in Nat /\ \A i \in Sequence : log[i].version \in Nat /\ log[i].version <= VersionNow
    BY <1>1, Versions
  <2>3. ASSUME NEW i \in Sequence'
        PROVE  log'[i].version <= VersionNow' /\ (log'[i].to # NoMove => log'[i].audience = Client)
    <3>1. i \in Sequence \/ i = Len(log) + 1
      BY <1>1, <1>2 DEF Sequence
    <3>2. CASE i \in Sequence
      <4>1. log'[i] = log[i]
        BY <1>3, <3>2 DEF Grows
      <4> QED BY <1>1, <2>1, <2>2, <3>2, <4>1 DEF LogInv
    <3>3. CASE i = Len(log) + 1
      BY <1>2, <2>1, <3>3
    <3> QED BY <3>1, <3>2, <3>3
  <2> QED BY <2>3 DEF LogInv
<1>7. ASSUME NEW c \in Client PROVE ClientOK(c)'
  <2>1. /\ local[c] \in Local /\ local[c].highWater \in Nat /\ local'[c].highWater \in Nat
        /\ local[c].highWater <= local'[c].highWater /\ request[c] \in Request /\ inbox[c] \in Seq(Message)
    BY <1>1 DEF TypeOK, Local
  <2>2. RequestOK(c, request[c]) /\ InboxOK(c) /\ LocalOK(local[c]) /\ SeenOK(c, local[c])
    BY DEF ClientInv, ClientOK
  <2>3. RequestOK(c, request[c])'
    <3>1. ASSUME NEW asked, asked = request[c] PROVE RequestOK(c, request[c])'
      <4>1. RequestOK(c, asked)'
        BY <1>1, <1>3, <2>1, <2>2, <3>1, ClientsStay
      <4> QED BY <3>1, <4>1 DEF RequestOK
    <3> QED BY <3>1
  <2>4. LocalOK(local[c])' /\ SeenOK(c, local[c])'
    <3>1. ASSUME NEW mine, mine = local[c] PROVE LocalOK(local[c])' /\ SeenOK(c, local[c])'
      <4>1. LocalOK(mine)' /\ SeenOK(c, mine)'
        BY <1>1, <1>3, <2>1, <2>2, <3>1, ClientsStay
      <4> QED BY <3>1, <4>1 DEF LocalOK, SeenOK
    <3> QED BY <3>1
  <2>5. InboxOK(c)'
    <3>1. ASSUME NEW k \in 1..Len(inbox[c]), NEW message, message = inbox[c][k] PROVE MessageOK(c, inbox[c][k])'
      <4>1. message \in Message /\ MessageOK(c, message)
        BY <2>1, <2>2, <3>1, ElementOfSeq DEF InboxOK
      <4>2. MessageOK(c, message)'
        BY <1>1, <1>3, <2>1, <4>1, ClientsStay
      <4> QED BY <3>1, <4>2 DEF MessageOK
    <3> QED BY <3>1 DEF InboxOK
  <2> QED BY <2>3, <2>4, <2>5 DEF ClientOK
<1> QED BY <1>5, <1>6, <1>7 DEF ClientInv
\* What a client makes of the next message: it keeps its mark and its order, and
\* an answer leaves it with every event it carries above the mark.
LEMMA MessageReceived ==
  ASSUME ClientInv, NEW c \in Client, Receive(c)
  PROVE  /\ local' = [local EXCEPT ![c] = local'[c]]
         /\ local'[c] \in Local /\ LocalOK(local'[c]) /\ SeenOK(c, local'[c])
         /\ local[c].highWater <= local'[c].highWater
         /\ Head(inbox[c]).type = "answer" =>
              \A i \in Head(inbox[c]).missed :
                i > local[c].highWater => \E k \in 1..Len(local'[c].lines) : local'[c].lines[k] = i
<1> DEFINE message == Head(inbox[c])
           mine == local[c]
           now == CASE message.type = "event"  -> ApplyEvents(mine, {message.sequence})
                    [] message.type = "answer" -> HandleAnswer(mine, message)
                    [] message.type = "reply"  -> Absorb(mine, message.version)
<1>1. TypeOK /\ LogInv /\ local \in [Client -> Local] /\ mine \in Local /\ LocalOK(mine) /\ SeenOK(c, mine)
  BY DEF ClientInv, ClientOK, TypeOK
<1>2. message \in Message /\ MessageOK(c, message)
  <2>1. inbox[c] \in Seq(Message) /\ inbox[c] # <<>>
    BY <1>1 DEF Receive, TypeOK
  <2>2. 1 \in 1..Len(inbox[c]) /\ message = inbox[c][1]
    BY <2>1, EmptySeq, LenProperties
  <2> QED BY <2>1, <2>2, ElementOfSeq DEF ClientInv, ClientOK, InboxOK
<1>3. local' = [local EXCEPT ![c] = now]
  BY DEF Receive
<1>4. local'[c] = now /\ local' = [local EXCEPT ![c] = local'[c]]
  <2> HIDE DEF now
  <2> QED BY <1>1, <1>3
<1> HIDE DEF message, mine
<1>5. CASE message.type = "event"
  <2>1. message.sequence \in Sequence
    BY <1>2, <1>5 DEF Message
  <2> DEFINE S == {message.sequence}
  <2>2. S \in SUBSET Sequence /\ now = ApplyEvents(mine, S)
    BY <1>5, <2>1
  <2>3. mine.snapshot # NoSnapshot => \A i \in 1..mine.snapshot.last : c \in log[i].audience => i <= mine.highWater \/ i \in S
    BY <1>1 DEF SeenOK
  <2> HIDE DEF S, now
  <2>4. now \in Local /\ LocalOK(now) /\ SeenOK(c, now) /\ mine.highWater <= now.highWater
    BY <1>1, <2>2, <2>3, EventsApplied
  <2> QED BY <1>4, <1>5, <2>4 DEF mine, message
<1>6. CASE message.type = "answer"
  <2> DEFINE S == message.missed
             mid == Resumed(mine, message.snapshot)
  <2>1. S \in SUBSET Sequence
    BY <1>2, <1>6 DEF Message
  <2>2. Accurate(message.snapshot) /\ Covered(c, message.snapshot, S)
    BY <1>2, <1>6 DEF MessageOK
  <2>3. now = ApplyEvents(mid, S)
    BY <1>6 DEF HandleAnswer, Resumed
  <2>4. mid \in Local /\ LocalOK(mid) /\ mid.highWater = mine.highWater /\ mid.snapshot.last = message.snapshot.last
    BY <1>1, <2>2, SnapshotResumed
  <2>5. \A i \in 1..mid.snapshot.last : c \in log[i].audience => i <= mid.highWater \/ i \in S
    <3> HIDE DEF mid, S
    <3> QED BY <2>2, <2>4 DEF Covered, mine
  <2> HIDE DEF mid, S, now
  <2>6. /\ now \in Local /\ LocalOK(now) /\ SeenOK(c, now) /\ mid.highWater <= now.highWater
        /\ \A i \in S : i > mid.highWater => \E k \in 1..Len(now.lines) : now.lines[k] = i
    BY <1>1, <2>1, <2>3, <2>4, <2>5, EventsApplied
  <2> QED BY <1>4, <2>4, <2>6 DEF mine, message, S
<1>7. CASE message.type = "reply"
  <2>1. message.version \in Nat
    BY <1>2, <1>7 DEF Message
  <2> DEFINE version == Max({mine.version, message.version})
  <2>2. version \in Nat /\ now = [mine EXCEPT !.version = version]
    <3>1. version \in Nat
      BY <1>1, <2>1, MaxOfTwo DEF Local
    <3>2. now = Absorb(mine, message.version)
      BY <1>7
    <3> HIDE DEF version, now
    <3> QED BY <3>1, <3>2 DEF Absorb, version
  <2> HIDE DEF version, now
  <2>3. /\ now \in Local /\ now.highWater = mine.highWater /\ now.lines = mine.lines /\ now.live = mine.live
        /\ now.snapshot = mine.snapshot /\ now.highWater \in Nat
    BY <1>1, <2>2 DEF Local
  <2>4. LocalOK(now) /\ SeenOK(c, now)
    BY <1>1, <2>3 DEF LocalOK, SeenOK
  <2> QED BY <1>4, <1>7, <2>3, <2>4 DEF mine, message
<1>8. message.type \in {"event", "answer", "reply"}
  BY <1>2 DEF Message
<1> QED BY <1>5, <1>6, <1>7, <1>8

\* A message received keeps the invariant.
LEMMA ReceiveKeeps == \A c \in Client : ClientInv /\ Receive(c) => ClientInv'
<1> SUFFICES ASSUME NEW c \in Client, ClientInv, Receive(c) PROVE ClientInv'
  OBVIOUS
<1>1. TypeOK /\ LogInv /\ log' = log /\ Grows
  BY LenProperties DEF ClientInv, TypeOK, Receive, server, Grows
<1>2. /\ local' = [local EXCEPT ![c] = local'[c]] /\ local'[c] \in Local /\ LocalOK(local'[c]) /\ SeenOK(c, local'[c])
      /\ local[c].highWater <= local'[c].highWater
  BY MessageReceived
<1>3. local' \in [Client -> Local] /\ \A d \in Client \ {c} : local'[d] = local[d]
  BY <1>1, <1>2 DEF TypeOK
<1>4. Sequence' = Sequence /\ Message' = Message /\ Request' = Request /\ Local' = Local
  BY <1>1 DEF Sequence, Message, Request, Local
<1>5. /\ inbox' \in [Client -> Seq(Message)] /\ \A d \in Client \ {c} : inbox'[d] = inbox[d]
      /\ inbox'[c] = Tail(inbox[c]) /\ inbox[c] \in Seq(Message) /\ inbox[c] # <<>>
  <2>1. inbox \in [Client -> Seq(Message)] /\ inbox[c] # <<>> /\ inbox' = [inbox EXCEPT ![c] = Tail(@)]
    BY <1>1 DEF TypeOK, Receive
  <2>2. Tail(inbox[c]) \in Seq(Message)
    BY <2>1, HeadTailProperties
  <2> QED BY <2>1, <2>2
<1>6. TypeOK'
  BY <1>1, <1>3, <1>4, <1>5 DEF TypeOK, Receive, server
<1>7. LogInv'
  BY <1>1 DEF LogInv, Sequence, VersionNow, VersionAt
<1>8. ASSUME NEW d \in Client PROVE ClientOK(d)'
  <2>1. /\ local[d].highWater \in Nat /\ local'[d].highWater \in Nat /\ local[d].highWater <= local'[d].highWater
        /\ request[d] \in Request /\ inbox[d] \in Seq(Message)
    <3>1. \A x \in Local : x.highWater \in Nat
      BY DEF Local
    <3>2. local[d] \in Local /\ local'[d] \in Local /\ request[d] \in Request /\ inbox[d] \in Seq(Message)
      BY <1>1, <1>3 DEF TypeOK
    <3>3. local[d].highWater <= local'[d].highWater
      BY <1>2, <1>3, <3>1, <3>2
    <3> QED BY <3>1, <3>2, <3>3
  <2>2. RequestOK(d, request[d]) /\ InboxOK(d) /\ LocalOK(local[d]) /\ SeenOK(d, local[d])
    BY DEF ClientInv, ClientOK
  <2>3. RequestOK(d, request[d])'
    <3>1. ASSUME NEW asked, asked = request[d] PROVE RequestOK(d, request[d])'
      <4>1. RequestOK(d, asked)'
        BY <1>1, <2>1, <2>2, <3>1, ClientsStay
      <4>2. asked = request'[d]
        BY <3>1 DEF Receive
      <4> QED BY <4>1, <4>2 DEF RequestOK
    <3> QED BY <3>1
  <2>4. LocalOK(local[d])' /\ SeenOK(d, local[d])'
    <3>1. LocalOK(local'[d]) /\ SeenOK(d, local'[d])
      BY <1>2, <1>3, <2>2
    <3> QED BY <1>1, <3>1 DEF LocalOK, SeenOK, StatusAt, Changes
  <2>5. InboxOK(d)'
    <3>1. inbox'[d] \in Seq(Good(d))
      <4>1. inbox[d] \in Seq(Good(d))
        BY <2>1, <2>2, GoodInbox
      <4>2. CASE d = c
        <5>1. ASSUME NEW S, inbox[c] \in Seq(S) PROVE Tail(inbox[c]) \in Seq(S)
          BY <1>5, <5>1, HeadTailProperties
        <5> QED BY <1>5, <4>1, <4>2, <5>1
      <4>3. CASE d # c
        BY <1>5, <4>1, <4>3
      <4> QED BY <4>2, <4>3
    <3>2. ASSUME NEW k \in 1..Len(inbox'[d]), NEW message, message = inbox'[d][k] PROVE MessageOK(d, inbox[d][k])'
      <4>1. message \in Message /\ MessageOK(d, message)
        BY <3>1, <3>2, ElementOfSeq DEF Good
      <4>2. MessageOK(d, message)'
        BY <1>1, <2>1, <4>1, ClientsStay
      <4> QED BY <3>2, <4>2 DEF MessageOK
    <3> QED BY <3>2 DEF InboxOK
  <2> QED BY <2>3, <2>4, <2>5 DEF ClientOK
<1> QED BY <1>6, <1>7, <1>8 DEF ClientInv
\* The row's status is a status.
LEMMA StatusType == TypeOK => StatusNow \in Status /\ Len(log) \in Nat
<1> SUFFICES ASSUME TypeOK PROVE StatusNow \in Status /\ Len(log) \in Nat
  OBVIOUS
<1>1. Len(log) \in Nat /\ \A i \in 1..Len(log) : log[i] \in Entry
  BY LenProperties, ElementOfSeq DEF TypeOK
<1>2. Len(log) # 0 => log[Len(log)].status \in Status
  BY <1>1 DEF Entry
<1> QED BY <1>1, <1>2 DEF StatusNow, StatusAt, Status

\* Nothing that was asked is nothing to get wrong.
LEMMA NothingAsked ==
  ASSUME TypeOK, NEW c \in Client
  PROVE  NoRequest \in Request /\ RequestOK(c, NoRequest)
<1>1. local[c].highWater \in Nat
  BY DEF TypeOK, Local
<1> QED BY <1>1 DEF NoRequest, Request, RequestOK

\* What is on the way, as the invariant has it.
LEMMA InTransit ==
  ASSUME ClientInv
  PROVE  /\ TypeOK /\ \A c \in Client : inbox[c] \in Seq(Good(c)) /\ RequestOK(c, request[c])
         /\ inbox \in [Client -> Seq(Message)] /\ request \in [Client -> Request]
         /\ command \in [Client -> {NoCommand} \cup Nat] /\ awaiting \in [Client -> SUBSET Sequence]
         /\ connects \in [Client -> 0..MaxConnects] /\ errors \in 0..MaxErrors
         /\ online \subseteq Client /\ unpublished \subseteq Sequence
<1>1. TypeOK /\ \A c \in Client : InboxOK(c) /\ RequestOK(c, request[c])
  BY DEF ClientInv, ClientOK
<1>2. \A c \in Client : inbox[c] \in Seq(Message)
  BY <1>1 DEF TypeOK
<1> QED BY <1>1, <1>2, GoodInbox DEF TypeOK

\* A message that is right may be delivered.
LEMMA DeliverGood ==
  ASSUME ClientInv, NEW c \in Client, NEW message \in Good(c), Deliver(c, message)
  PROVE  inbox' \in [Client -> Seq(Message)] /\ \A d \in Client : inbox'[d] \in Seq(Good(d))
<1>1. /\ inbox \in [Client -> Seq(Message)] /\ \A d \in Client : inbox[d] \in Seq(Good(d))
      /\ inbox' = [inbox EXCEPT ![c] = Append(@, message)] /\ message \in Message
  BY InTransit DEF Deliver, Good
<1>2. Append(inbox[c], message) \in Seq(Message) /\ Append(inbox[c], message) \in Seq(Good(c))
  BY <1>1, AppendProperties
<1>3. inbox'[c] = Append(inbox[c], message) /\ \A d \in Client \ {c} : inbox'[d] = inbox[d]
  BY <1>1
<1>4. inbox' \in [Client -> Seq(Message)]
  BY <1>1, <1>2
<1>5. ASSUME NEW d \in Client PROVE inbox'[d] \in Seq(Good(d))
  <2>1. CASE d = c
    BY <1>2, <1>3, <2>1
  <2>2. CASE d # c
    BY <1>1, <1>3, <2>2
  <2> QED BY <2>1, <2>2
<1> QED BY <1>4, <1>5

\* A request that is right may be moved on.
LEMMA RequestMoved ==
  ASSUME ClientInv, NEW c \in Client, NEW new \in Request, RequestOK(c, new), request' = [request EXCEPT ![c] = new]
  PROVE  request' \in [Client -> Request] /\ \A d \in Client : RequestOK(d, request'[d])
<1>1. request \in [Client -> Request] /\ \A d \in Client : RequestOK(d, request[d])
  BY InTransit
<1>2. request'[c] = new /\ \A d \in Client \ {c} : request'[d] = request[d]
  BY <1>1
<1>3. ASSUME NEW d \in Client PROVE RequestOK(d, request'[d])
  <2>1. CASE d = c
    BY <1>2, <2>1
  <2>2. CASE d # c
    BY <1>1, <1>2, <2>2
  <2> QED BY <2>1, <2>2
<1> QED BY <1>1, <1>3

\* Every commit keeps the invariant.
LEMMA CommitsKeep ==
  ASSUME ClientInv,
         \/ \E audience \in Chat : Say(audience)
         \/ \E to \in Status : ChangeStatus(to)
         \/ StartTurn \/ RequestRoll
         \/ \E c \in Client : AcceptRoll(c)
  PROVE  ClientInv'
<1>1. TypeOK /\ VersionNow \in Nat /\ Len(log) \in Nat /\ StatusNow \in Status
  BY Versions, StatusType DEF ClientInv
<1>2. command \in [Client -> {NoCommand} \cup Nat] /\ awaiting \in [Client -> SUBSET Sequence]
  BY <1>1 DEF TypeOK
<1>3. ASSUME NEW audience \in Chat, Say(audience) PROVE ClientInv'
  <2> DEFINE entry == [to |-> NoMove, status |-> StatusNow, version |-> VersionNow, audience |-> audience]
  <2>1. entry \in Entry
    BY <1>1, ClientAssumption DEF Entry
  <2>2. entry.version >= VersionNow /\ entry.to = NoMove
    BY <1>1
  <2> QED BY <1>2, <1>3, <2>1, <2>2, CommitStep DEF Say
<1>4. ASSUME NEW status \in Status, NEW to \in Status \cup {NoMove}
      PROVE  /\ Moved(status, to) \in Entry /\ Moved(status, to).version >= VersionNow
             /\ Moved(status, to).audience = Client
  BY <1>1 DEF Entry, Moved
<1>5. ASSUME NEW status \in Status, NEW to \in Status \cup {NoMove}, NEW published \in BOOLEAN,
             Commit(Moved(status, to), published),
             UNCHANGED <<online, inbox, request, command, awaiting, local, connects, errors>>
      PROVE  ClientInv'
  BY <1>2, <1>4, <1>5, CommitStep
<1>6. ASSUME NEW to \in Status, ChangeStatus(to) PROVE ClientInv'
  BY <1>5, <1>6 DEF ChangeStatus
<1>7. ASSUME StartTurn PROVE ClientInv'
  <2>1. "DM_GENERATING" \in Status
    BY DEF Status
  <2> QED BY <1>5, <1>7, <2>1 DEF StartTurn
<1>8. ASSUME RequestRoll PROVE ClientInv'
  <2>1. "WAITING_FOR_ROLL" \in Status
    BY DEF Status
  <2> QED BY <1>5, <1>8, <2>1 DEF RequestRoll
<1>9. ASSUME NEW c \in Client, AcceptRoll(c) PROVE ClientInv'
  <2>1. PICK status \in AfterRoll : Commit(Moved(status, NoMove), TRUE)
    BY <1>9 DEF AcceptRoll
  <2>2. status \in Status
    BY <1>1 DEF AfterRoll, Status
  <2>3. /\ command' \in [Client -> {NoCommand} \cup Nat]
        /\ \A d \in Client : awaiting'[d] \subseteq awaiting[d] \cup {Len(log) + 1}
        /\ awaiting' = [d \in Client |-> awaiting'[d]]
    BY <1>2, <1>9 DEF AcceptRoll
  <2> QED BY <1>4, <1>9, <2>1, <2>2, <2>3, CommitStep DEF AcceptRoll
<1> QED BY <1>3, <1>6, <1>7, <1>8, <1>9
\* The steps that answer a client's requests and commands keep the invariant.
LEMMA AnswersKeep ==
  ASSUME ClientInv, NEW c \in Client,
         RefuseRoll(c) \/ ReadSnapshot(c) \/ ReadEvents(c) \/ AnswerResume(c) \/ ResumeFails(c)
  PROVE  ClientInv'
<1>1. TypeOK /\ VersionNow \in Nat /\ Len(log) \in Nat /\ StatusNow \in Status
  BY Versions, StatusType DEF ClientInv
<1>2. request[c] \in Request /\ RequestOK(c, request[c]) /\ local[c].highWater \in Nat
  BY <1>1, InTransit DEF TypeOK, Local
<1>3. ASSUME RefuseRoll(c) PROVE ClientInv'
  <2> DEFINE message == [type |-> "reply", version |-> VersionNow]
  <2>1. message \in Message /\ message.type = "reply"
    BY <1>1 DEF Message
  <2>2. message \in Good(c)
    BY <2>1 DEF Good, MessageOK
  <2> HIDE DEF message
  <2>3. /\ UNCHANGED <<log, local, unpublished, online, request, awaiting, connects, errors>>
        /\ Deliver(c, message) /\ command' = [command EXCEPT ![c] = NoCommand]
    BY <1>3 DEF RefuseRoll, server, message
  <2>4. inbox' \in [Client -> Seq(Message)] /\ \A d \in Client : inbox'[d] \in Seq(Good(d))
    BY <2>2, <2>3, DeliverGood
  <2> QED BY <2>3, <2>4, InTransit, TransitStep
<1>4. ASSUME ReadSnapshot(c) PROVE ClientInv'
  <2> DEFINE snapshot == [status |-> StatusNow, version |-> VersionNow, last |-> Len(log)]
             new == [request[c] EXCEPT !.stage = "events", !.snapshot = snapshot]
  <2>1. snapshot \in Snapshot /\ Accurate(snapshot)
    BY <1>1 DEF Snapshot, Accurate, StatusNow
  <2>2. request' = [request EXCEPT ![c] = new]
    BY <1>1, <1>4 DEF ReadSnapshot, TypeOK
  <2> HIDE DEF snapshot
  <2>3. new \in Request /\ new.stage = "events" /\ new.snapshot = snapshot /\ new.last = request[c].last
    BY <1>2, <2>1 DEF Request
  <2> HIDE DEF new
  <2>4. RequestOK(c, new)
    BY <1>2, <2>1, <2>3 DEF RequestOK
  <2>5. request' \in [Client -> Request] /\ \A d \in Client : RequestOK(d, request'[d])
    BY <2>2, <2>3, <2>4, RequestMoved
  <2>6. UNCHANGED <<log, local, unpublished, online, inbox, command, awaiting, connects, errors>>
    BY <1>4 DEF ReadSnapshot, server
  <2> QED BY <2>5, <2>6, InTransit, TransitStep
<1>5. ASSUME ReadEvents(c) PROVE ClientInv'
  <2> DEFINE missed == EventsSince(c, request[c].last)
             new == [request[c] EXCEPT !.stage = "answer", !.missed = missed]
  <2>1. request' = [request EXCEPT ![c] = new] /\ request[c].stage = "events"
    BY <1>1, <1>5 DEF ReadEvents, TypeOK
  <2>2. request[c].last \in Nat /\ request[c].last <= local[c].highWater /\ Accurate(request[c].snapshot)
    BY <1>2, <2>1 DEF RequestOK, Request
  <2>3. missed \in SUBSET Sequence /\ Visible(c, missed)
    BY <1>1, <2>2 DEF EventsSince, Sequence, Visible
  <2>4. Covered(c, request[c].snapshot, missed)
    <3> SUFFICES ASSUME NEW i \in 1..request[c].snapshot.last, c \in log[i].audience, ~(i <= local[c].highWater)
                 PROVE  i \in missed
      BY DEF Covered
    <3>1. request[c].snapshot.last \in Nat /\ request[c].snapshot.last <= Len(log)
      BY <2>2 DEF Accurate, Snapshot
    <3>2. i \in (request[c].last + 1)..Len(log)
      BY <1>1, <1>2, <2>2, <3>1
    <3> QED BY <3>2 DEF EventsSince
  <2> HIDE DEF missed
  <2>5. /\ new \in Request /\ new.stage = "answer" /\ new.snapshot = request[c].snapshot /\ new.last = request[c].last
        /\ new.missed = missed
    BY <1>2, <2>3 DEF Request
  <2> HIDE DEF new
  <2>6. RequestOK(c, new)
    BY <2>2, <2>3, <2>4, <2>5 DEF RequestOK
  <2>7. request' \in [Client -> Request] /\ \A d \in Client : RequestOK(d, request'[d])
    BY <2>1, <2>5, <2>6, RequestMoved
  <2>8. UNCHANGED <<log, local, unpublished, online, inbox, command, awaiting, connects, errors>>
    BY <1>5 DEF ReadEvents, server
  <2> QED BY <2>7, <2>8, InTransit, TransitStep
<1>6. ASSUME AnswerResume(c) PROVE ClientInv'
  <2> DEFINE message == [type |-> "answer", snapshot |-> request[c].snapshot, missed |-> request[c].missed]
  <2>1. /\ request[c].missed \in SUBSET Sequence /\ Accurate(request[c].snapshot)
        /\ Visible(c, request[c].missed) /\ Covered(c, request[c].snapshot, request[c].missed)
    BY <1>2, <1>6 DEF AnswerResume, RequestOK, Request
  <2>2. message \in Message /\ message.type = "answer"
    BY <2>1 DEF Message, Accurate
  <2>3. message \in Good(c)
    BY <2>1, <2>2 DEF Good, MessageOK
  <2> HIDE DEF message
  <2>4. /\ UNCHANGED <<log, local, unpublished, online, command, awaiting, connects, errors>>
        /\ Deliver(c, message) /\ request' = [request EXCEPT ![c] = NoRequest]
    BY <1>6 DEF AnswerResume, server, message
  <2>5. inbox' \in [Client -> Seq(Message)] /\ \A d \in Client : inbox'[d] \in Seq(Good(d))
    BY <2>3, <2>4, DeliverGood
  <2>6. request' \in [Client -> Request] /\ \A d \in Client : RequestOK(d, request'[d])
    BY <1>1, <2>4, NothingAsked, RequestMoved
  <2> QED BY <2>4, <2>5, <2>6, InTransit, TransitStep
<1>7. ASSUME ResumeFails(c) PROVE ClientInv'
  <2>1. /\ UNCHANGED <<log, local, unpublished, online, inbox, command, awaiting, connects>>
        /\ errors < MaxErrors /\ errors' = errors + 1 /\ request' = [request EXCEPT ![c] = NoRequest]
    BY <1>7 DEF ResumeFails, server
  <2>2. errors' \in 0..MaxErrors
    BY <1>1, <2>1, ClientAssumption DEF TypeOK
  <2>3. request' \in [Client -> Request] /\ \A d \in Client : RequestOK(d, request'[d])
    BY <1>1, <2>1, NothingAsked, RequestMoved
  <2> QED BY <2>1, <2>2, <2>3, InTransit, TransitStep
<1> QED BY <1>3, <1>4, <1>5, <1>6, <1>7

\* The steps of the sockets, and a publish, keep the invariant.
LEMMA SocketsKeep ==
  ASSUME ClientInv,
         \/ \E i \in unpublished : Publish(i)
         \/ \E c \in Client : Connect(c) \/ Disconnect(c) \/ Roll(c)
         \/ Crash
  PROVE  ClientInv'
<1>1. TypeOK
  BY InTransit
<1>2. ASSUME NEW i \in unpublished, Publish(i) PROVE ClientInv'
  <2> DEFINE event(c) == IF c \in Room(i) THEN <<[type |-> "event", sequence |-> i]>> ELSE <<>>
             reply(c) == IF i \in awaiting[c] THEN <<[type |-> "reply", version |-> log[i].version]>> ELSE <<>>
  <2>1. i \in Sequence /\ log[i].version \in Nat
    BY InTransit, Versions DEF ClientInv
  <2>2. ASSUME NEW c \in Client PROVE event(c) \in Seq(Good(c)) /\ reply(c) \in Seq(Good(c))
    <3>1. ASSUME c \in Room(i) PROVE [type |-> "event", sequence |-> i] \in Good(c)
      BY <2>1, <3>1 DEF Good, Message, MessageOK, Room
    <3>2. [type |-> "reply", version |-> log[i].version] \in Good(c)
      BY <2>1 DEF Good, Message, MessageOK
    <3>3. <<>> \in Seq(Good(c)) /\ \A message \in Good(c) : <<message>> \in Seq(Good(c))
      OBVIOUS
    <3> QED BY <3>1, <3>2, <3>3
  <2> HIDE DEF event, reply
  <2>3. inbox' = [c \in Client |-> inbox[c] \o event(c) \o reply(c)]
    BY <1>2 DEF Publish, event, reply
  <2>4. ASSUME NEW c \in Client PROVE inbox'[c] \in Seq(Good(c)) /\ inbox'[c] \in Seq(Message)
    <3>1. inbox[c] \in Seq(Good(c))
      BY InTransit
    <3>2. \A S : \A s, t \in Seq(S) : s \o t \in Seq(S)
      BY ConcatProperties
    <3>3. inbox'[c] \in Seq(Good(c))
      BY <2>2, <2>3, <3>1, <3>2
    <3>4. Good(c) \subseteq Message
      BY DEF Good
    <3>5. Seq(Good(c)) \subseteq Seq(Message)
      BY <3>4
    <3> QED BY <3>3, <3>5
  <2>5. inbox' \in [Client -> Seq(Message)]
    BY <2>3, <2>4
  <2>6. awaiting' \in [Client -> SUBSET Sequence]
    BY <1>1, <1>2 DEF Publish, TypeOK
  <2>7. /\ UNCHANGED <<log, local, online, request, command, connects, errors>>
        /\ unpublished' \subseteq unpublished
    BY <1>2 DEF Publish
  <2> QED BY <2>4, <2>5, <2>6, <2>7, InTransit, TransitStep
<1>3. ASSUME NEW c \in Client, Connect(c) PROVE ClientInv'
  <2> DEFINE new == [NoRequest EXCEPT !.stage = "snapshot", !.last = local[c].highWater]
  <2>1. local[c].highWater \in Nat
    BY <1>1 DEF TypeOK, Local
  <2>2. new \in Request /\ new.stage = "snapshot" /\ new.last = local[c].highWater
    BY <2>1 DEF Request, NoRequest
  <2>3. /\ UNCHANGED <<log, local, unpublished, inbox, command, awaiting, errors>>
        /\ request' = [request EXCEPT ![c] = new] /\ online' = online \cup {c}
        /\ connects[c] < MaxConnects /\ connects' = [connects EXCEPT ![c] = @ + 1]
    BY <1>3 DEF Connect, server
  <2> HIDE DEF new
  <2>4. RequestOK(c, new)
    BY <2>1, <2>2 DEF RequestOK
  <2>5. request' \in [Client -> Request] /\ \A d \in Client : RequestOK(d, request'[d])
    BY <2>2, <2>3, <2>4, RequestMoved
  <2>6. connects' \in [Client -> 0..MaxConnects]
    BY <1>1, <2>3, ClientAssumption DEF TypeOK
  <2>7. online' \subseteq Client
    BY <1>1, <2>3 DEF TypeOK
  <2> QED BY <2>3, <2>5, <2>6, <2>7, InTransit, TransitStep
<1>4. ASSUME NEW lost \in SUBSET Client, Disconnected(lost), unpublished' \subseteq unpublished PROVE ClientInv'
  <2>1. \A c \in Client : /\ inbox'[c] \in {<<>>, inbox[c]} /\ request'[c] \in {NoRequest, request[c]}
                          /\ command'[c] \in {NoCommand, command[c]} /\ awaiting'[c] \in {{}, awaiting[c]}
    BY <1>4 DEF Disconnected
  <2>2. ASSUME NEW c \in Client PROVE inbox'[c] \in Seq(Good(c)) /\ inbox'[c] \in Seq(Message)
    <3>1. \A S : <<>> \in Seq(S)
      OBVIOUS
    <3> QED BY <2>1, <3>1, InTransit
  <2>3. ASSUME NEW c \in Client PROVE request'[c] \in Request /\ RequestOK(c, request'[c])
    <3>1. CASE request'[c] = NoRequest
      BY <1>1, <3>1, NothingAsked
    <3>2. CASE request'[c] = request[c]
      BY <3>2, InTransit
    <3> QED BY <2>1, <3>1, <3>2
  <2>4. /\ command' \in [Client -> {NoCommand} \cup Nat] /\ awaiting' \in [Client -> SUBSET Sequence]
        /\ inbox' \in [Client -> Seq(Message)] /\ request' \in [Client -> Request]
    <3>1. command' \in [Client -> {NoCommand} \cup Nat]
      BY <1>4, InTransit DEF Disconnected
    <3>2. awaiting' \in [Client -> SUBSET Sequence]
      BY <1>4, InTransit DEF Disconnected
    <3>3. inbox' \in [Client -> Seq(Message)]
      BY <1>4, <2>2 DEF Disconnected
    <3>4. request' \in [Client -> Request]
      BY <1>4, <2>3 DEF Disconnected
    <3> QED BY <3>1, <3>2, <3>3, <3>4
  <2>5. UNCHANGED <<log, local, connects, errors>> /\ online' \subseteq Client
    BY <1>1, <1>4 DEF Disconnected, TypeOK
  <2> QED BY <1>4, <2>2, <2>3, <2>4, <2>5, InTransit, TransitStep
<1>5. ASSUME NEW c \in Client, Disconnect(c) PROVE ClientInv'
  BY <1>4, <1>5 DEF Disconnect
<1>6. ASSUME Crash PROVE ClientInv'
  BY <1>4, <1>6 DEF Crash
<1>7. ASSUME NEW c \in Client, Roll(c) PROVE ClientInv'
  <2>1. /\ UNCHANGED <<log, local, unpublished, online, inbox, request, awaiting, connects, errors>>
        /\ command' = [command EXCEPT ![c] = local[c].version]
    BY <1>7 DEF Roll, server
  <2>2. command' \in [Client -> {NoCommand} \cup Nat]
    BY <1>1, <2>1 DEF TypeOK, Local
  <2> QED BY <2>1, <2>2, InTransit, TransitStep
<1> QED BY <1>2, <1>3, <1>5, <1>6, <1>7

-----------------------------------------------------------------------------
(* The theorems *)

\* A step that changes nothing keeps the invariant.
LEMMA NothingMoves == ClientInv /\ UNCHANGED vars => ClientInv'
<1> SUFFICES ASSUME ClientInv, UNCHANGED vars PROVE ClientInv'
  OBVIOUS
<1>1. UNCHANGED <<log, local, unpublished, online, inbox, request, command, awaiting, connects, errors>>
  BY DEF vars
<1> QED BY <1>1, InTransit, TransitStep

\* The server and its clients' browsers fit together whatever the order of
\* commits, publishes, reads, deliveries, losses of sockets and crashes.
THEOREM ClientInvariant == Spec => []ClientInv
<1>1. Init => ClientInv
  <2> SUFFICES ASSUME Init PROVE ClientInv
    OBVIOUS
  <2>1. log = <<>> /\ Len(log) = 0
    BY EmptySeq DEF Init
  <2>2. \A S : <<>> \in Seq(S)
    OBVIOUS
  <2>3. NoRequest \in Request
    BY DEF NoRequest, Request
  <2> DEFINE mine == [highWater |-> 0, version |-> 0, live |-> 0, snapshot |-> NoSnapshot, lines |-> <<>>]
  <2>4. mine \in Local /\ local = [c \in Client |-> mine]
    BY <2>2 DEF Local, Init
  <2>5. TypeOK
    BY <2>1, <2>2, <2>3, <2>4, ClientAssumption DEF Init, TypeOK
  <2>6. LogInv
    BY <2>1 DEF LogInv, Sequence
  <2>7. ASSUME NEW c \in Client PROVE ClientOK(c)
    <3>1. RequestOK(c, request[c])
      BY <2>5, NothingAsked DEF Init
    <3>2. InboxOK(c)
      BY EmptySeq DEF Init, InboxOK
    <3>3. local[c] = mine
      BY <2>4
    <3>4. LocalOK(mine) /\ SeenOK(c, mine)
      BY <2>1, EmptySeq DEF LocalOK, SeenOK
    <3> QED BY <3>1, <3>2, <3>3, <3>4 DEF ClientOK
  <2> QED BY <2>5, <2>6, <2>7 DEF ClientInv
<1>2. ClientInv /\ [Next]_vars => ClientInv'
  <2>1. ASSUME ClientInv, Next PROVE ClientInv'
    BY <2>1, CommitsKeep, AnswersKeep, SocketsKeep, ReceiveKeeps DEF Next, ServerStep
  <2> QED BY <2>1, NothingMoves
<1> QED BY <1>1, <1>2, PTL DEF Spec

\* Every variable of the session's clients keeps its type, and nothing refers to
\* an event the log does not hold.
THEOREM TypesCorrect == Spec => []TypeOK
<1>1. ClientInv => TypeOK
  BY DEF ClientInv
<1> QED BY <1>1, ClientInvariant, PTL

\* A transcript is in the order of the log and holds no event twice (useSession's
\* applyEvent), whatever is delivered live, in answers and again.
THEOREM TranscriptsInOrder == Spec => []TranscriptInOrder
<1>1. ClientInv => TranscriptInOrder
  BY DEF ClientInv, ClientOK, LocalOK, TranscriptInOrder
<1> QED BY <1>1, ClientInvariant, PTL

\* No whisper is on its way to the socket of a third player (publish, eventsSince).
THEOREM WhispersPrivate == Spec => []WhispersStayPrivate
<1>1. ClientInv => WhispersStayPrivate
  BY DEF ClientInv, ClientOK, InboxOK, MessageOK, Visible, WhispersStayPrivate
<1> QED BY <1>1, ClientInvariant, PTL

\* A snapshot never hides a change the client has applied and that postdates it,
\* and a change that has been applied never goes back to an older one
\* (resumedSnapshot, applyEvent).
THEOREM StatusStaysForward == Spec => []StatusIsNotRolledBack
<1>1. ClientInv => StatusIsNotRolledBack
  BY DEF ClientInv, ClientOK, LocalOK, StatusIsNotRolledBack
<1> QED BY <1>1, ClientInvariant, PTL
\* The inbox of a client whose socket stays up gets shorter only by a message
\* that the client receives.
LEMMA OnlyReceived ==
  ASSUME ClientInv, Next, NEW c \in Client, inbox[c] # <<>>, inbox'[c] = Tail(inbox[c]), c \in online'
  PROVE  Receive(c)
<1>1. inbox \in [Client -> Seq(Message)] /\ inbox[c] \in Seq(Message)
  BY InTransit
<1>2. Len(inbox[c]) \in Nat /\ Len(inbox'[c]) = Len(inbox[c]) - 1
  BY <1>1, HeadTailProperties, LenProperties
<1>3. inbox'[c] # inbox[c]
  <2>1. \A n \in Nat : n # n - 1
    OBVIOUS
  <2>2. Len(inbox[c]) # Len(inbox'[c])
    BY <1>2, <2>1
  <2> QED BY <2>2
<1>4. ASSUME NEW d \in Client, NEW message, Deliver(d, message) PROVE FALSE
  <2>1. CASE d = c
    <3>1. inbox'[c] = Append(inbox[c], message)
      BY <1>1, <1>4, <2>1 DEF Deliver
    <3>2. ASSUME NEW s \in Seq(Message) PROVE Len(Append(s, message)) = Len(s) + 1
      <4>1. s \in Seq(Message \cup {message})
        BY LenProperties, SeqDef
      <4> QED BY <4>1, AppendProperties
    <3> QED BY <1>1, <1>2, <3>1, <3>2
  <2>2. CASE d # c
    BY <1>1, <1>3, <1>4, <2>2 DEF Deliver
  <2> QED BY <2>1, <2>2
<1>5. ASSUME NEW i \in unpublished, Publish(i) PROVE FALSE
  <2> DEFINE event == IF c \in Room(i) THEN <<[type |-> "event", sequence |-> i]>> ELSE <<>>
             reply == IF i \in awaiting[c] THEN <<[type |-> "reply", version |-> log[i].version]>> ELSE <<>>
  <2>1. inbox'[c] = inbox[c] \o event \o reply
    BY <1>5 DEF Publish
  <2>2. \E S : inbox[c] \in Seq(S) /\ event \in Seq(S) /\ reply \in Seq(S)
    <3> DEFINE S == Message \cup {[type |-> "event", sequence |-> i], [type |-> "reply", version |-> log[i].version]}
    <3>1. inbox[c] \in Seq(S)
      BY <1>1, LenProperties, SeqDef
    <3>2. event \in Seq(S) /\ reply \in Seq(S)
      <4>1. \A T : <<>> \in Seq(T) /\ \A a \in T : <<a>> \in Seq(T)
        OBVIOUS
      <4>2. [type |-> "event", sequence |-> i] \in S /\ [type |-> "reply", version |-> log[i].version] \in S
        OBVIOUS
      <4> HIDE DEF S
      <4> QED BY <4>1, <4>2
    <3> QED BY <3>1, <3>2
  <2> HIDE DEF event, reply
  <2>3. PICK S : inbox[c] \in Seq(S) /\ event \in Seq(S) /\ reply \in Seq(S)
    BY <2>2
  <2>4. inbox[c] \o event \in Seq(S) /\ Len(inbox[c] \o event) = Len(inbox[c]) + Len(event) /\ Len(event) \in Nat
    BY <2>3, ConcatProperties, LenProperties
  <2>5. Len(inbox'[c]) = Len(inbox[c]) + Len(event) + Len(reply) /\ Len(reply) \in Nat
    <3>1. \A s, t \in Seq(S) : Len(s \o t) = Len(s) + Len(t) /\ Len(t) \in Nat
      BY ConcatProperties, LenProperties
    <3>2. Len((inbox[c] \o event) \o reply) = Len(inbox[c] \o event) + Len(reply) /\ Len(reply) \in Nat
      BY <2>3, <2>4, <3>1
    <3> QED BY <2>1, <2>4, <3>2
  <2> QED BY <1>2, <2>4, <2>5
<1>6. ASSUME NEW lost, Disconnected(lost) PROVE FALSE
  BY <1>3, <1>6 DEF Disconnected
<1>7. ASSUME NEW d \in Client, Receive(d) PROVE d = c
  BY <1>1, <1>3, <1>7 DEF Receive
<1>8. ASSUME inbox' = inbox PROVE FALSE
  BY <1>3, <1>8
<1>9. \A d \in Client : /\ RefuseRoll(d) => \E message : Deliver(d, message)
                        /\ AnswerResume(d) => \E message : Deliver(d, message)
                        /\ Disconnect(d) => Disconnected({d})
  BY DEF RefuseRoll, AnswerResume, Disconnect
<1>10. \A d \in Client : AcceptRoll(d) \/ ReadSnapshot(d) \/ ReadEvents(d) \/ ResumeFails(d) \/ Connect(d) \/ Roll(d)
                           => inbox' = inbox
  BY DEF AcceptRoll, ReadSnapshot, ReadEvents, ResumeFails, Connect, Roll
<1>11. (\E audience \in Chat : Say(audience)) \/ (\E to \in Status : ChangeStatus(to)) \/ StartTurn \/ RequestRoll
         => inbox' = inbox
  BY DEF Say, ChangeStatus, StartTurn, RequestRoll
<1>12. Crash => Disconnected(Client)
  BY DEF Crash
<1> QED BY <1>4, <1>5, <1>6, <1>7, <1>8, <1>9, <1>10, <1>11, <1>12 DEF Next, ServerStep

\* What the answer to a resume leaves in the transcript reaches as far as the
\* snapshot shown with it (onResume's two reads), whatever commits in between.
THEOREM AnswersReach == Spec => AnswerReachesItsSnapshot
<1>1. ClientInv /\ Next => ReachesItsSnapshot
  <2> SUFFICES ASSUME ClientInv, Next, NEW c \in Client, Answers(c),
                      NEW i \in (local[c].highWater + 1)..Head(inbox[c]).snapshot.last, c \in log[i].audience
               PROVE  \E k \in 1..Len(local'[c].lines) : local'[c].lines[k] = i
    BY DEF ReachesItsSnapshot
  <2> DEFINE message == Head(inbox[c])
  <2>1. Receive(c) /\ message.type = "answer"
    BY OnlyReceived DEF Answers
  <2>2. message \in Good(c)
    <3>1. inbox[c] \in Seq(Good(c)) /\ inbox[c] # <<>>
      BY InTransit DEF Answers
    <3> QED BY <3>1, HeadTailProperties
  <2>3. Accurate(message.snapshot) /\ Covered(c, message.snapshot, message.missed)
    BY <2>1, <2>2 DEF Good, MessageOK
  <2>4. local[c].highWater \in Nat /\ message.snapshot.last \in Nat
    BY <2>3, InTransit DEF TypeOK, Local, Accurate, Snapshot
  <2> HIDE DEF message
  <2>5. i \in 1..message.snapshot.last /\ i > local[c].highWater /\ ~(i <= local[c].highWater)
    BY <2>4 DEF message
  <2>6. i \in message.missed
    BY <2>3, <2>5 DEF Covered
  <2> QED BY <2>1, <2>5, <2>6, MessageReceived DEF message
<1> QED BY <1>1, ClientInvariant, PTL DEF Spec, AnswerReachesItsSnapshot

=============================================================================

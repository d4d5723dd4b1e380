--------------------------- MODULE DmStreamProofs ---------------------------
(***************************************************************************)
(* Proofs about DmStream, for any fence and any texts: a turn that streams *)
(* is a turn of DmGraph, so that what DmGraphProofs shows of one holds of  *)
(* the other; and what the table is sent is the narration, wherever the    *)
(* chunks are cut.                                                         *)
(***************************************************************************)
EXTENDS DmStream, SequenceTheorems, WellFoundedInduction, TLAPS

\* The gate and the parser add nothing to the turn: every step of a call is a
\* step of its node, or one the turn does not notice (call_dm).
THEOREM StreamImplementsTurn == StreamSpec => Spec
<1>1. StreamInit => Init
  BY DEF StreamInit
<1>2. NoReply \in Possible
  BY DEF Possible
<1>3. [StreamNext]_streamVars => [Next]_vars
  <2>1. CASE UNCHANGED streamVars
    BY <2>1 DEF streamVars
  <2>2. CASE StreamStep
    <3>1. ASSUME NEW text \in Text, StartCall(text) PROVE UNCHANGED vars
      BY <3>1 DEF StartCall
    <3>2. ASSUME NEW n \in 1..Len(raw), Delta(n) PROVE UNCHANGED vars
      BY <3>2 DEF Delta, vars
    <3>3. ASSUME NEW reply \in Possible, FinishCall(reply) PROVE Next
      BY <3>3 DEF FinishCall, Next, Work
    <3>4. ASSUME NoProvider PROVE Next
      BY <3>4, <1>2 DEF NoProvider, Next, Work
    <3> QED
      BY <2>2, <3>1, <3>2, <3>3, <3>4 DEF StreamStep
  <2>3. CASE OtherNode
    BY <2>3 DEF OtherNode, Next, Work
  <2>4. CASE (Resume \/ Terminated) /\ UNCHANGED stream
    BY <2>4 DEF Next
  <2> QED
    BY <2>1, <2>2, <2>3, <2>4 DEF StreamNext
<1> QED
  BY <1>1, <1>3, PTL DEF StreamSpec, Spec

-----------------------------------------------------------------------------
(* Where the fence is *)

N == Len(Marker)

\* The fence, symbol by symbol, at a place of a text.
Occurs(text, i) ==
  /\ i \in 1..(Len(text) - N + 1)
  /\ \A k \in 1..N : text[i + k - 1] = Marker[k]

\* A set of numbers that is not empty has a least one.
LEMMA LeastNumber ==
  ASSUME NEW S \in SUBSET Nat, S # {}
  PROVE  Min(S) \in S /\ \A y \in S : Min(S) <= y
<1> DEFINE R == {ss \in Nat \X Nat : ss[1] < ss[2]}
<1>1. IsWellFoundedOn(R, Nat)
  BY NatLessThanWellFounded DEF OpToRel
<1>2. PICK x \in S : \A y \in S : <<y, x>> \notin R
  <2> HIDE DEF R
  <2> QED BY <1>1, WFMin
<1>3. ASSUME NEW y \in S PROVE x <= y
  <2>1. x \in Nat /\ y \in Nat
    OBVIOUS
  <2>2. ~ (y < x)
    BY <1>2, <2>1
  <2> QED BY <2>1, <2>2
<1> QED
  BY <1>3 DEF Min

\* The fence is a text of at least one symbol.
LEMMA Fence == Marker \in Seq(Symbol) /\ N \in Nat \ {0}
  BY StreamAssumption, EmptySeq DEF N

\* Comparing a stretch of a text with the fence compares it symbol by symbol.
LEMMA OccursIsStretch ==
  ASSUME NEW text \in Seq(Symbol), NEW i \in 1..(Len(text) - N + 1)
  PROVE  Occurs(text, i) <=> SubSeq(text, i, i + N - 1) = Marker
<1> DEFINE stretch == SubSeq(text, i, i + N - 1)
<1>1. i \in Nat \ {0} /\ i + N - 1 <= Len(text) /\ i + N - 1 \in Nat
  BY Fence, LenProperties
<1>2. \A j \in i..(i + N - 1) : text[j] \in Symbol
  BY <1>1, Fence, ElementOfSeq
<1>3. /\ stretch \in Seq(Symbol) /\ Len(stretch) = N
      /\ \A k \in 1..N : stretch[k] = text[i + k - 1]
  <2>1. /\ stretch \in Seq(Symbol)
        /\ Len(stretch) = IF i <= i + N - 1 THEN (i + N - 1) - i + 1 ELSE 0
        /\ \A k \in 1..((i + N - 1) - i + 1) : stretch[k] = text[i + k - 1]
    <3> HIDE DEF stretch
    <3> QED BY <1>1, <1>2, SubSeqProperties DEF stretch
  <2> QED BY <1>1, <2>1, Fence
<1>4. stretch = Marker <=> \A k \in 1..N : stretch[k] = Marker[k]
  <2> HIDE DEF stretch
  <2> QED BY <1>3, Fence, SeqEqual DEF N
<1> QED
  BY <1>3, <1>4 DEF Occurs

\* At finds the first place the fence is at, if there is one.
LEMMA AtIsFirst ==
  ASSUME NEW text \in Seq(Symbol)
  PROVE  /\ At(text) \in Nat
         /\ At(text) = 0 => \A i \in Nat : ~Occurs(text, i)
         /\ At(text) # 0 => Occurs(text, At(text))
         /\ \A i \in Nat : Occurs(text, i) => At(text) # 0 /\ At(text) <= i
<1> DEFINE places == {i \in 1..(Len(text) - N + 1) : SubSeq(text, i, i + N - 1) = Marker}
<1>1. \A i \in Nat : i \in places <=> Occurs(text, i)
  BY OccursIsStretch DEF Occurs
<1>2. places \in SUBSET (Nat \ {0})
  BY Fence, LenProperties
<1>3. At(text) = IF places = {} THEN 0 ELSE Min(places)
  BY DEF At, N
<1>4. places # {} => Min(places) \in places /\ \A y \in places : Min(places) <= y
  <2> HIDE DEF places
  <2> QED BY <1>2, LeastNumber
<1> HIDE DEF places
<1>5. places = {} => At(text) = 0 /\ \A i \in Nat : ~Occurs(text, i)
  BY <1>1, <1>3
<1>6. places # {} => At(text) \in Nat \ {0} /\ At(text) \in places
  BY <1>2, <1>3, <1>4
<1>7. \A i \in Nat : Occurs(text, i) => At(text) # 0 /\ At(text) <= i
  BY <1>1, <1>3, <1>4, <1>6
<1> QED
  BY <1>1, <1>5, <1>6, <1>7

\* What is first of a text, as the gate and the parser cut it.
LEMMA FirstAndAfter ==
  ASSUME NEW text \in Seq(Symbol), NEW n \in 0..Len(text)
  PROVE  /\ First(text, n) \in Seq(Symbol) /\ Len(First(text, n)) = n
         /\ \A k \in 1..n : First(text, n)[k] = text[k]
         /\ After(text, n) \in Seq(Symbol) /\ Len(After(text, n)) = Len(text) - n
         /\ \A k \in 1..(Len(text) - n) : After(text, n)[k] = text[n + k]
         /\ First(text, n) \o After(text, n) = text
<1>1. Len(text) \in Nat /\ \A k \in 1..Len(text) : text[k] \in Symbol
  BY LenProperties, ElementOfSeq
<1>2. /\ First(text, n) \in Seq(Symbol) /\ Len(First(text, n)) = n
      /\ \A k \in 1..n : First(text, n)[k] = text[k]
  <2>1. /\ SubSeq(text, 1, n) \in Seq(Symbol)
        /\ Len(SubSeq(text, 1, n)) = IF 1 <= n THEN n - 1 + 1 ELSE 0
        /\ \A k \in 1..(n - 1 + 1) : SubSeq(text, 1, n)[k] = text[1 + k - 1]
    BY <1>1, SubSeqProperties
  <2> QED BY <1>1, <2>1 DEF First
<1>3. /\ After(text, n) \in Seq(Symbol) /\ Len(After(text, n)) = Len(text) - n
      /\ \A k \in 1..(Len(text) - n) : After(text, n)[k] = text[n + k]
  <2>1. /\ SubSeq(text, n + 1, Len(text)) \in Seq(Symbol)
        /\ Len(SubSeq(text, n + 1, Len(text))) =
              IF n + 1 <= Len(text) THEN Len(text) - (n + 1) + 1 ELSE 0
        /\ \A k \in 1..(Len(text) - (n + 1) + 1) :
             SubSeq(text, n + 1, Len(text))[k] = text[(n + 1) + k - 1]
    BY <1>1, SubSeqProperties
  <2> QED BY <1>1, <2>1 DEF After
<1>4. First(text, n) \o After(text, n) = text
  <2> DEFINE both == First(text, n) \o After(text, n)
  <2>1. /\ both \in Seq(Symbol) /\ Len(both) = Len(text)
        /\ \A k \in 1..Len(text) :
             both[k] = IF k <= n THEN First(text, n)[k] ELSE After(text, n)[k - n]
    BY <1>1, <1>2, <1>3, ConcatProperties
  <2>2. \A k \in 1..Len(text) : both[k] = text[k]
    BY <1>1, <1>2, <1>3, <2>1
  <2> QED BY <2>1, <2>2, SeqEqual
<1> QED BY <1>2, <1>3, <1>4

\* A place lies in the first n symbols of a text if it lies in the text and the
\* fence ends there.
LEMMA OccursInFirst ==
  ASSUME NEW text \in Seq(Symbol), NEW n \in 0..Len(text), NEW i \in Nat
  PROVE  Occurs(First(text, n), i) <=> Occurs(text, i) /\ i + N - 1 <= n
<1>1. N \in Nat \ {0} /\ Len(text) \in Nat /\ n \in Nat
  BY Fence, LenProperties
<1>2. Len(First(text, n)) = n /\ \A k \in 1..n : First(text, n)[k] = text[k]
  BY FirstAndAfter
<1>3. i \in 1..(n - N + 1) => \A k \in 1..N : First(text, n)[i + k - 1] = text[i + k - 1]
  BY <1>1, <1>2
<1> QED
  BY <1>1, <1>2, <1>3 DEF Occurs

\* A place behind the first of two texts lies in the second.
LEMMA OccursBehind ==
  ASSUME NEW a \in Seq(Symbol), NEW b \in Seq(Symbol), NEW i \in Nat, i > Len(a)
  PROVE  Occurs(a \o b, i) <=> Occurs(b, i - Len(a))
<1>1. N \in Nat \ {0} /\ Len(a) \in Nat /\ Len(b) \in Nat
  BY Fence, LenProperties
<1>2. /\ Len(a \o b) = Len(a) + Len(b)
      /\ \A k \in 1..(Len(a) + Len(b)) : (a \o b)[k] = IF k <= Len(a) THEN a[k] ELSE b[k - Len(a)]
  BY ConcatProperties
<1>3. i \in 1..(Len(a) + Len(b) - N + 1) =>
        \A k \in 1..N : (a \o b)[i + k - 1] = b[(i - Len(a)) + k - 1]
  BY <1>1, <1>2
<1>4. i \in 1..(Len(a \o b) - N + 1) <=> i - Len(a) \in 1..(Len(b) - N + 1)
  <2>1. Len(a \o b) - N + 1 = Len(a) + Len(b) - N + 1
    BY <1>1, <1>2
  <2>2. i \in 1..(Len(a) + Len(b) - N + 1) <=> i - Len(a) \in 1..(Len(b) - N + 1)
    BY <1>1
  <2> QED BY <2>1, <2>2, Zenon
<1>5. ASSUME i \in 1..(Len(a \o b) - N + 1)
      PROVE  (\A k \in 1..N : (a \o b)[i + k - 1] = Marker[k])
               <=> (\A k \in 1..N : b[(i - Len(a)) + k - 1] = Marker[k])
  <2>1. i \in 1..(Len(a) + Len(b) - N + 1)
    BY <1>1, <1>2, <1>5
  <2> QED BY <1>3, <2>1
<1> QED
  BY <1>4, <1>5, Zenon DEF Occurs

-----------------------------------------------------------------------------
(* The gate *)

\* What has arrived of the completion.
Arrived == First(raw, arrived)

\* While no fence has gone by, the gate holds as much of the end of what has
\* arrived as the fence is long, or all of it.
OpenGate ==
  /\ Arrived = streamed \o held
  /\ At(Arrived) = 0
  /\ Len(held) = N \/ (Len(held) <= N /\ streamed = <<>>)

\* Once it has, the table has what was before it.
SealedGate ==
  /\ held = <<>>
  /\ At(Arrived) # 0
  /\ streamed = First(Arrived, At(Arrived) - 1)

GateInv ==
  /\ raw \in Seq(Symbol) /\ arrived \in 0..Len(raw)
  /\ held \in Seq(Symbol) /\ streamed \in Seq(Symbol)
  /\ calling \in BOOLEAN /\ sealed \in BOOLEAN
  /\ IF calling THEN IF sealed THEN SealedGate ELSE OpenGate
     ELSE arrived = Len(raw) /\ streamed = Narration(raw)

\* A place in the middle of what was sent and is held is none if nothing arrived
\* holds the fence: it would end before the end of what is held.
LEMMA NoPlaceInSent ==
  ASSUME NEW sent \in Seq(Symbol), NEW kept \in Seq(Symbol), NEW chunk \in Seq(Symbol),
         At(sent \o kept) = 0, Len(kept) = N \/ sent = <<>>,
         NEW i \in Nat, Occurs(sent \o (kept \o chunk), i)
  PROVE  i > Len(sent) /\ Occurs(kept \o chunk, i - Len(sent))
<1> DEFINE text == (sent \o kept) \o chunk
<1>1. /\ sent \o kept \in Seq(Symbol) /\ kept \o chunk \in Seq(Symbol) /\ text \in Seq(Symbol)
      /\ Len(sent \o kept) = Len(sent) + Len(kept)
      /\ Len(text) = Len(sent) + Len(kept) + Len(chunk)
      /\ text = sent \o (kept \o chunk)
      /\ Len(sent) \in Nat /\ Len(kept) \in Nat /\ Len(chunk) \in Nat /\ N \in Nat \ {0}
  BY ConcatProperties, ConcatAssociative, LenProperties, Fence
<1>2. First(text, Len(sent \o kept)) = sent \o kept
  <2>1. \A k \in 1..Len(sent \o kept) : text[k] = (sent \o kept)[k]
    BY <1>1, ConcatProperties
  <2>2. Len(sent \o kept) \in 0..Len(text)
    BY <1>1
  <2>3. /\ First(text, Len(sent \o kept)) \in Seq(Symbol)
        /\ Len(First(text, Len(sent \o kept))) = Len(sent \o kept)
        /\ \A k \in 1..Len(sent \o kept) : First(text, Len(sent \o kept))[k] = text[k]
    BY <1>1, <2>2, FirstAndAfter
  <2>4. \A k \in 1..Len(sent \o kept) : First(text, Len(sent \o kept))[k] = (sent \o kept)[k]
    BY <2>1, <2>3
  <2> HIDE DEF text
  <2> QED BY <1>1, <2>3, <2>4, SeqEqual
<1>3. i > Len(sent)
  <2> SUFFICES ASSUME i <= Len(sent) PROVE FALSE
    BY <1>1
  <2>1. Occurs(text, i) /\ i \in Nat \ {0}
    BY <1>1 DEF Occurs
  <2>2. Len(kept) = N
    <3>1. sent = <<>> => Len(sent) = 0
      BY EmptySeq
    <3> QED BY <2>1, <3>1
  <2>3. Occurs(First(text, Len(sent \o kept)), i)
    <3>1. i + N - 1 <= Len(sent \o kept) /\ Len(sent \o kept) \in 0..Len(text)
      BY <1>1, <2>2
    <3> QED BY <1>1, <2>1, <3>1, OccursInFirst
  <2> QED BY <1>1, <1>2, <2>3, AtIsFirst
<1> QED
  BY <1>1, <1>3, OccursBehind

\* The first place of the fence, given that it is one and none is before it.
LEMMA AtIs ==
  ASSUME NEW text \in Seq(Symbol), NEW i \in Nat \ {0}, Occurs(text, i),
         \A j \in Nat : Occurs(text, j) => i <= j
  PROVE  At(text) = i
  BY AtIsFirst

\* The narration is what is before the fence: the first of a text agrees with
\* the whole text on it, once the fence is in it.
LEMMA AtOfFirst ==
  ASSUME NEW text \in Seq(Symbol), NEW n \in 0..Len(text)
  PROVE  /\ At(First(text, n)) # 0 => At(text) = At(First(text, n)) /\ At(text) - 1 \in 0..n
         /\ At(First(text, n)) = 0 /\ At(text) # 0 => At(text) + N - 1 > n
<1>1. /\ First(text, n) \in Seq(Symbol) /\ Len(First(text, n)) = n /\ n \in Nat /\ Len(text) \in Nat
      /\ N \in Nat \ {0}
  BY FirstAndAfter, LenProperties, Fence
<1>2. ASSUME At(First(text, n)) # 0
      PROVE  At(text) = At(First(text, n)) /\ At(text) - 1 \in 0..n
  <2> DEFINE i == At(First(text, n))
  <2>1. i \in Nat \ {0} /\ Occurs(First(text, n), i)
    BY <1>1, <1>2, AtIsFirst
  <2>2. Occurs(text, i) /\ i + N - 1 <= n
    BY <2>1, OccursInFirst
  <2>3. ASSUME NEW j \in Nat, Occurs(text, j) PROVE i <= j
    <3> SUFFICES ASSUME j < i PROVE FALSE
      BY <2>1
    <3>1. j + N - 1 <= n
      BY <1>1, <2>1, <2>2
    <3>2. Occurs(First(text, n), j)
      BY <2>3, <3>1, OccursInFirst
    <3> QED BY <1>1, <2>1, <3>2, AtIsFirst
  <2>4. At(text) = i
    <3> HIDE DEF i
    <3> QED BY <2>1, <2>2, <2>3, AtIs
  <2> QED BY <1>1, <2>1, <2>2, <2>4
<1>3. ASSUME At(First(text, n)) = 0, At(text) # 0
      PROVE  At(text) + N - 1 > n
  <2>1. At(text) \in Nat \ {0} /\ Occurs(text, At(text))
    BY <1>3, AtIsFirst
  <2>2. ~ Occurs(First(text, n), At(text))
    BY <1>1, <1>3, <2>1, AtIsFirst
  <2> QED BY <1>1, <2>1, <2>2, OccursInFirst
<1> QED BY <1>2, <1>3

-----------------------------------------------------------------------------
(* The steps of a call *)

\* One chunk through the gate, whatever it holds.
LEMMA PushKeepsGate ==
  ASSUME NEW chunk \in Seq(Symbol), Len(chunk) > 0,
         GateInv, calling, Push(chunk), calling', raw' = raw,
         arrived' \in 0..Len(raw), First(raw, arrived') = Arrived \o chunk
  PROVE  GateInv'
<1> DEFINE all == held \o chunk
<1>1. /\ raw \in Seq(Symbol) /\ arrived \in 0..Len(raw) /\ held \in Seq(Symbol)
      /\ streamed \in Seq(Symbol) /\ sealed \in BOOLEAN /\ calling' \in BOOLEAN
  BY DEF GateInv
<1>2. /\ Arrived \in Seq(Symbol) /\ Len(Arrived) = arrived /\ Arrived' = Arrived \o chunk
      /\ Arrived' \in Seq(Symbol) /\ Len(Arrived') = arrived'
  BY <1>1, FirstAndAfter DEF Arrived
<1>3. CASE sealed
  <2>1. SealedGate /\ UNCHANGED <<held, sealed, streamed>>
    BY <1>3 DEF GateInv, Push
  <2>2. First(First(raw, arrived'), arrived) = Arrived /\ arrived \in 0..Len(First(raw, arrived'))
    <3>1. /\ Len(Arrived \o chunk) = arrived + Len(chunk) /\ arrived \in Nat /\ Len(chunk) \in Nat
          /\ \A k \in 1..arrived : (Arrived \o chunk)[k] = Arrived[k]
      BY <1>1, <1>2, ConcatProperties, LenProperties
    <3>2. arrived \in 0..Len(Arrived \o chunk) /\ Arrived \o chunk \in Seq(Symbol)
      BY <1>2, <3>1
    <3>3. /\ First(Arrived \o chunk, arrived) \in Seq(Symbol)
          /\ Len(First(Arrived \o chunk, arrived)) = arrived
          /\ \A k \in 1..arrived : First(Arrived \o chunk, arrived)[k] = (Arrived \o chunk)[k]
      BY <3>2, FirstAndAfter
    <3>4. First(Arrived \o chunk, arrived) = Arrived
      BY <1>2, <3>1, <3>3, SeqEqual
    <3> QED BY <3>2, <3>4
  <2>3. /\ At(Arrived') = At(Arrived) /\ At(Arrived) - 1 \in 0..arrived
        /\ At(Arrived) # 0
    <3>1. First(Arrived', arrived) = Arrived /\ arrived \in 0..Len(Arrived')
      BY <1>2, <2>2
    <3> QED BY <1>2, <2>1, <3>1, AtOfFirst DEF SealedGate
  <2>4. First(Arrived', At(Arrived) - 1) = First(Arrived, At(Arrived) - 1)
    <3> DEFINE n == At(Arrived) - 1
    <3>1. n \in 0..Len(Arrived) /\ n \in 0..Len(Arrived')
      BY <1>2, <2>2, <2>3
    <3>2. \A k \in 1..n : (Arrived \o chunk)[k] = Arrived[k]
      BY <1>1, <1>2, <3>1, ConcatProperties, LenProperties
    <3>3. /\ First(Arrived, n) \in Seq(Symbol) /\ Len(First(Arrived, n)) = n
          /\ \A k \in 1..n : First(Arrived, n)[k] = Arrived[k]
          /\ First(Arrived', n) \in Seq(Symbol) /\ Len(First(Arrived', n)) = n
          /\ \A k \in 1..n : First(Arrived', n)[k] = Arrived'[k]
      BY <1>2, <3>1, FirstAndAfter
    <3>4. \A k \in 1..n : First(Arrived', n)[k] = First(Arrived, n)[k]
      BY <1>2, <3>2, <3>3
    <3> HIDE DEF n
    <3>5. First(Arrived', n) = First(Arrived, n)
      BY <3>3, <3>4, SeqEqual
    <3> QED BY <3>5 DEF n
  <2>5. SealedGate'
    BY <2>1, <2>3, <2>4 DEF SealedGate
  <2> QED
    BY <1>1, <1>3, <2>1, <2>5 DEF GateInv
<1>4. CASE ~sealed
  <2>1. OpenGate
    BY <1>4 DEF GateInv
  <2>2. /\ all \in Seq(Symbol) /\ Arrived' = streamed \o all
        /\ Len(all) = Len(held) + Len(chunk) /\ Len(held) \in Nat /\ Len(chunk) \in Nat
        /\ Len(streamed) \in Nat /\ N \in Nat \ {0}
    <3>1. /\ all \in Seq(Symbol) /\ Len(all) = Len(held) + Len(chunk)
          /\ Len(held) \in Nat /\ Len(chunk) \in Nat /\ Len(streamed) \in Nat
          /\ N \in Nat \ {0}
      BY <1>1, ConcatProperties, LenProperties, Fence
    <3>2. (streamed \o held) \o chunk = streamed \o all
      BY <1>1, ConcatAssociative
    <3>3. Arrived' = streamed \o all
      BY <1>2, <2>1, <3>2, Zenon DEF OpenGate
    <3> QED BY <3>1, <3>3
  <2>3. \A i \in Nat : Occurs(Arrived', i) => i > Len(streamed) /\ Occurs(all, i - Len(streamed))
    BY <1>1, <2>1, <2>2, NoPlaceInSent DEF OpenGate
  <2> HIDE DEF all
  <2>4. CASE At(all) # 0
    <3> DEFINE k == At(all)
               i == Len(streamed) + k
    <3>1. k \in Nat \ {0} /\ Occurs(all, k) /\ k - 1 \in 0..Len(all)
      <4>1. k \in Nat \ {0} /\ Occurs(all, k)
        BY <2>2, <2>4, AtIsFirst
      <4>2. k \in 1..(Len(all) - N + 1) /\ Len(all) \in Nat
        BY <2>2, <4>1, LenProperties DEF Occurs
      <4> QED BY <2>2, <4>1, <4>2
    <3>2. streamed' = streamed \o First(all, k - 1) /\ sealed' = TRUE /\ held' = <<>>
      BY <1>4, <2>4 DEF Push, Emit, all
    <3>3. First(all, k - 1) \in Seq(Symbol)
      BY <2>2, <3>1, FirstAndAfter
    <3>4. Occurs(Arrived', i) /\ i \in Nat \ {0}
      <4>1. i \in Nat /\ i > Len(streamed) /\ i - Len(streamed) = k
        BY <2>2, <3>1
      <4> HIDE DEF i, k
      <4> QED BY <1>1, <2>2, <3>1, <4>1, OccursBehind
    <3>5. \A j \in Nat : Occurs(Arrived', j) => i <= j
      <4> SUFFICES ASSUME NEW j \in Nat, Occurs(Arrived', j) PROVE i <= j
        OBVIOUS
      <4>1. j > Len(streamed) /\ Occurs(all, j - Len(streamed)) /\ j - Len(streamed) \in Nat
        BY <2>2, <2>3
      <4>2. k <= j - Len(streamed)
        BY <2>2, <4>1, AtIsFirst
      <4> QED BY <2>2, <3>1, <4>2
    <3>6. At(Arrived') = i
      <4> HIDE DEF i
      <4> QED BY <1>2, <3>4, <3>5, AtIs
    <3>7. streamed \o First(all, k - 1) = First(streamed \o all, i - 1)
      <4> DEFINE n == i - 1
                 told == First(all, k - 1)
      <4>1. n \in 0..Len(streamed \o all) /\ n = Len(streamed) + (k - 1) /\ streamed \o all \in Seq(Symbol)
        BY <1>1, <2>2, <3>1, ConcatProperties
      <4>2. /\ told \in Seq(Symbol) /\ Len(told) = k - 1
            /\ \A m \in 1..(k - 1) : told[m] = all[m]
        BY <2>2, <3>1, FirstAndAfter
      <4>3. /\ streamed \o told \in Seq(Symbol) /\ Len(streamed \o told) = n
            /\ \A m \in 1..n : (streamed \o told)[m]
                 = IF m <= Len(streamed) THEN streamed[m] ELSE told[m - Len(streamed)]
        <5> HIDE DEF n, told, k, i
        <5>1. /\ streamed \o told \in Seq(Symbol)
              /\ Len(streamed \o told) = Len(streamed) + Len(told)
              /\ \A m \in 1..(Len(streamed) + Len(told)) : (streamed \o told)[m]
                   = IF m <= Len(streamed) THEN streamed[m] ELSE told[m - Len(streamed)]
          BY <1>1, <4>2, ConcatProperties
        <5> QED BY <4>1, <4>2, <5>1
      <4>4. \A m \in 1..n : (streamed \o all)[m]
              = IF m <= Len(streamed) THEN streamed[m] ELSE all[m - Len(streamed)]
        BY <1>1, <2>2, <3>1, <4>1, ConcatProperties
      <4>5. /\ First(streamed \o all, n) \in Seq(Symbol) /\ Len(First(streamed \o all, n)) = n
            /\ \A m \in 1..n : First(streamed \o all, n)[m] = (streamed \o all)[m]
        BY <4>1, FirstAndAfter
      <4>6. ASSUME NEW m \in 1..n
            PROVE  (streamed \o told)[m] = First(streamed \o all, n)[m]
        <5> HIDE DEF n, told, k, i
        <5>1. CASE m <= Len(streamed)
          BY <4>3, <4>4, <4>5, <5>1
        <5>2. CASE ~(m <= Len(streamed))
          <6>1. m - Len(streamed) \in 1..(k - 1)
            BY <2>2, <3>1, <4>1, <5>2
          <6>2. told[m - Len(streamed)] = all[m - Len(streamed)]
            BY <4>2, <6>1
          <6> QED BY <4>3, <4>4, <4>5, <5>2, <6>2
        <5> QED BY <5>1, <5>2
      <4> HIDE DEF n, told
      <4>7. streamed \o told = First(streamed \o all, n)
        BY <4>3, <4>5, <4>6, SeqEqual
      <4> QED BY <4>7 DEF n, told
    <3>8. SealedGate' /\ streamed' \in Seq(Symbol) /\ held' \in Seq(Symbol)
      <4>1. streamed' = First(Arrived', At(Arrived') - 1)
        BY <2>2, <3>2, <3>6, <3>7
      <4>2. streamed' \in Seq(Symbol) /\ held' \in Seq(Symbol)
        BY <1>1, <3>2, <3>3, ConcatProperties, EmptySeq
      <4> QED BY <3>2, <3>4, <3>6, <4>1, <4>2 DEF SealedGate
    <3> QED
      BY <1>1, <3>2, <3>8 DEF GateInv
  <2>5. CASE At(all) = 0
    <3> DEFINE safe == IF Len(all) > N THEN Len(all) - N ELSE 0
    <3>1. /\ streamed' = streamed \o First(all, safe) /\ held' = After(all, safe)
          /\ sealed' = sealed
      BY <1>4, <2>5 DEF Push, Emit, N, all
    <3>2. safe \in 0..Len(all)
      BY <2>2
    <3>3. /\ First(all, safe) \in Seq(Symbol) /\ Len(First(all, safe)) = safe
          /\ After(all, safe) \in Seq(Symbol) /\ Len(After(all, safe)) = Len(all) - safe
          /\ First(all, safe) \o After(all, safe) = all
      BY <2>2, <3>2, FirstAndAfter
    <3>4. streamed' \in Seq(Symbol) /\ held' \in Seq(Symbol) /\ streamed' \o held' = Arrived'
      <4> HIDE DEF safe
      <4>1. streamed' \in Seq(Symbol) /\ held' \in Seq(Symbol)
        BY <1>1, <3>1, <3>3, ConcatProperties
      <4>2. (streamed \o First(all, safe)) \o After(all, safe)
              = streamed \o (First(all, safe) \o After(all, safe))
        <5>1. /\ streamed \in Seq(Symbol) /\ First(all, safe) \in Seq(Symbol)
              /\ After(all, safe) \in Seq(Symbol)
          BY <1>1, <3>3
        <5>2. \A a, b, c \in Seq(Symbol) : (a \o b) \o c = a \o (b \o c)
          BY ConcatAssociative
        <5> QED BY <5>1, <5>2, Zenon
      <4>3. streamed' \o held' = (streamed \o First(all, safe)) \o After(all, safe)
        BY <3>1
      <4>4. streamed' \o held' = streamed \o all
        BY <3>3, <4>2, <4>3, Zenon
      <4> QED BY <2>2, <4>1, <4>4, Zenon
    <3>5. At(Arrived') = 0
      <4> SUFFICES ASSUME At(Arrived') # 0 PROVE FALSE
        OBVIOUS
      <4>1. At(Arrived') \in Nat /\ Occurs(Arrived', At(Arrived'))
        BY <1>2, AtIsFirst
      <4>2. /\ Occurs(all, At(Arrived') - Len(streamed)) /\ At(Arrived') - Len(streamed) \in Nat
        BY <2>2, <2>3, <4>1
      <4> QED BY <2>2, <2>5, <4>2, AtIsFirst
    <3>6. Len(held') = N \/ (Len(held') <= N /\ streamed' = <<>>)
      <4>1. CASE Len(all) > N
        BY <2>2, <3>1, <3>3, <4>1
      <4>2. CASE ~(Len(all) > N)
        <5>1. safe = 0 /\ streamed = <<>> /\ Len(held') <= N
          <6>1. safe = 0 /\ Len(all) <= N /\ Len(all) \in Nat
            BY <2>2, <4>2
          <6>2. Len(held) # N
            BY <2>2, <6>1
          <6>3. Len(held') = Len(all)
            <7> HIDE DEF safe
            <7> QED BY <3>1, <3>3, <6>1
          <6> QED BY <2>1, <6>1, <6>2, <6>3 DEF OpenGate
        <5>2. First(all, safe) = <<>>
          BY <3>3, <5>1, EmptySeq
        <5> QED BY <3>1, <5>1, <5>2, EmptySeq, ConcatEmptySeq
      <4> QED BY <4>1, <4>2
    <3>7. OpenGate'
      BY <3>4, <3>5, <3>6 DEF OpenGate
    <3> QED
      BY <1>1, <1>4, <3>1, <3>4, <3>7 DEF GateInv
  <2> QED BY <2>4, <2>5
<1> QED BY <1>1, <1>3, <1>4

\* Before, between and after the chunks.
LEMMA StreamKeepsGate == GateInv /\ [StreamNext]_streamVars => GateInv'
<1> SUFFICES ASSUME GateInv, [StreamNext]_streamVars PROVE GateInv'
  OBVIOUS
<1>1. /\ raw \in Seq(Symbol) /\ arrived \in 0..Len(raw) /\ held \in Seq(Symbol)
      /\ streamed \in Seq(Symbol) /\ sealed \in BOOLEAN /\ calling \in BOOLEAN
  BY DEF GateInv
<1>2. ASSUME UNCHANGED stream PROVE GateInv'
  BY <1>2 DEF stream, GateInv, SealedGate, OpenGate, Arrived
<1>3. <<>> \in Seq(Symbol) /\ Len(<<>>) = 0
  BY EmptySeq
<1>4. At(<<>>) = 0
  <2> SUFFICES ASSUME At(<<>>) # 0 PROVE FALSE
    OBVIOUS
  <2>1. Occurs(<<>>, At(<<>>))
    BY <1>3, AtIsFirst
  <2> QED BY <1>3, <2>1, Fence DEF Occurs
<1>5. ASSUME NEW text \in Text, StartCall(text) PROVE GateInv'
  <2>1. /\ calling' = TRUE /\ raw' = text /\ arrived' = 0
        /\ held' = <<>> /\ sealed' = FALSE /\ streamed' = <<>>
    BY <1>5 DEF StartCall
  <2>2. text \in Seq(Symbol)
    BY StreamAssumption
  <2>3. Arrived' = <<>>
    BY <2>1, <2>2, SubSeqEmpty DEF Arrived, First
  <2>4. <<>> \o <<>> = <<>>
    BY <1>3, ConcatEmptySeq
  <2>5. OpenGate'
    BY <1>3, <1>4, <2>1, <2>3, <2>4, Fence DEF OpenGate
  <2>6. raw' \in Seq(Symbol) /\ arrived' \in 0..Len(raw') /\ calling' \in BOOLEAN /\ sealed' \in BOOLEAN
    <3>1. Len(text) \in Nat
      BY <2>2, LenProperties
    <3>2. 0 \in 0..Len(text)
      BY <3>1
    <3> QED BY <2>1, <2>2, <3>2, Zenon
  <2>7. held' \in Seq(Symbol) /\ streamed' \in Seq(Symbol)
    BY <1>3, <2>1, Zenon
  <2> QED
    BY <2>1, <2>5, <2>6, <2>7, Zenon DEF GateInv
<1>6. ASSUME NEW n \in 1..Len(raw), Delta(n) PROVE GateInv'
  <2> DEFINE chunk == SubSeq(raw, arrived + 1, arrived + n)
  <2>1. /\ calling /\ calling' = calling /\ raw' = raw /\ arrived' = arrived + n
        /\ n \in 1..(Len(raw) - arrived) /\ Push(chunk)
    BY <1>6 DEF Delta
  <2>2. arrived \in Nat /\ n \in Nat \ {0} /\ arrived + n \in 0..Len(raw) /\ Len(raw) \in Nat
    BY <1>1, <2>1, LenProperties
  <2>3. /\ chunk \in Seq(Symbol) /\ Len(chunk) = n
        /\ \A k \in 1..n : chunk[k] = raw[arrived + k]
    <3>1. \A i \in (arrived + 1)..(arrived + n) : raw[i] \in Symbol
      BY <1>1, <2>2, ElementOfSeq
    <3>2. /\ chunk \in Seq(Symbol)
          /\ Len(chunk) = IF arrived + 1 <= arrived + n THEN (arrived + n) - (arrived + 1) + 1 ELSE 0
          /\ \A k \in 1..((arrived + n) - (arrived + 1) + 1) : chunk[k] = raw[(arrived + 1) + k - 1]
      BY <2>2, <3>1, SubSeqProperties
    <3> HIDE DEF chunk
    <3> QED BY <2>2, <3>2
  <2> HIDE DEF chunk
  <2>4. First(raw, arrived + n) = Arrived \o chunk
    <3>1. /\ First(raw, arrived + n) \in Seq(Symbol) /\ Len(First(raw, arrived + n)) = arrived + n
          /\ \A k \in 1..(arrived + n) : First(raw, arrived + n)[k] = raw[k]
          /\ Arrived \in Seq(Symbol) /\ Len(Arrived) = arrived
          /\ \A k \in 1..arrived : Arrived[k] = raw[k]
      BY <1>1, <2>2, FirstAndAfter DEF Arrived
    <3>2. /\ Arrived \o chunk \in Seq(Symbol) /\ Len(Arrived \o chunk) = Len(Arrived) + Len(chunk)
          /\ \A k \in 1..(Len(Arrived) + Len(chunk)) : (Arrived \o chunk)[k]
               = IF k <= Len(Arrived) THEN Arrived[k] ELSE chunk[k - Len(Arrived)]
      BY <2>3, <3>1, ConcatProperties
    <3>3. ASSUME NEW k \in 1..(arrived + n) PROVE First(raw, arrived + n)[k] = (Arrived \o chunk)[k]
      <4>0. (Arrived \o chunk)[k] = IF k <= arrived THEN Arrived[k] ELSE chunk[k - arrived]
        BY <2>2, <2>3, <3>1, <3>2
      <4>1. CASE k <= arrived
        <5>1. k \in 1..arrived
          BY <2>2, <4>1
        <5> QED BY <3>1, <4>0, <4>1, <5>1
      <4>2. CASE ~(k <= arrived)
        <5>1. k - arrived \in 1..n /\ arrived + (k - arrived) = k
          BY <2>2, <4>2
        <5>2. chunk[k - arrived] = raw[k]
          BY <2>3, <5>1
        <5> QED BY <3>1, <4>0, <4>2, <5>2
      <4> QED BY <4>1, <4>2
    <3> QED BY <2>3, <3>1, <3>2, <3>3, SeqEqual
  <2> QED
    BY <2>1, <2>2, <2>3, <2>4, PushKeepsGate
<1>7. ASSUME NEW reply \in Possible, FinishCall(reply) PROVE GateInv'
  <2>1. /\ calling /\ calling' = FALSE /\ raw' = Arrived /\ held' = <<>>
        /\ arrived' = arrived /\ sealed' = sealed
        /\ streamed' = streamed \o (IF sealed THEN <<>> ELSE held)
    BY <1>7 DEF FinishCall, Emit, Arrived
  <2>2. Arrived \in Seq(Symbol) /\ Len(Arrived) = arrived /\ arrived \in Nat
    BY <1>1, FirstAndAfter, LenProperties DEF Arrived
  <2>3. streamed' = Narration(Arrived)
    <3>1. CASE sealed
      BY <1>1, <2>1, <3>1, ConcatEmptySeq DEF GateInv, SealedGate, Narration
    <3>2. CASE ~sealed
      BY <2>1, <3>2 DEF GateInv, OpenGate, Narration
    <3> QED BY <3>1, <3>2
  <2>4. streamed' \in Seq(Symbol)
    BY <1>1, <1>3, <2>1, ConcatProperties
  <2>5. raw' \in Seq(Symbol) /\ arrived' \in 0..Len(raw') /\ arrived' = Len(raw') /\ sealed' \in BOOLEAN
    BY <1>1, <2>1, <2>2
  <2>6. held' \in Seq(Symbol) /\ calling' \in BOOLEAN /\ ~calling'
    BY <1>3, <2>1, Zenon
  <2>7. streamed' = Narration(raw')
    BY <2>1, <2>3, Zenon
  <2> QED
    BY <2>4, <2>5, <2>6, <2>7, Zenon DEF GateInv, Narration, At, First
<1>8. Narration(<<>>) = <<>>
  BY <1>4 DEF Narration
<1>9. ASSUME NoProvider PROVE GateInv'
  <2>1. /\ ~calling /\ calling' = calling /\ sealed' = FALSE /\ arrived' = 0
        /\ raw' = <<>> /\ held' = <<>> /\ streamed' = <<>>
    BY <1>9 DEF NoProvider
  <2>2. /\ raw' \in Seq(Symbol) /\ held' \in Seq(Symbol) /\ streamed' \in Seq(Symbol)
        /\ Len(raw') = 0 /\ streamed' = Narration(raw')
    BY <1>3, <1>8, <2>1, Zenon
  <2>3. arrived' \in 0..Len(raw') /\ arrived' = Len(raw')
    BY <2>1, <2>2
  <2> QED
    BY <1>1, <2>1, <2>2, <2>3, Zenon DEF GateInv, Narration, At, First
<1>10. UNCHANGED streamVars => UNCHANGED stream
  BY DEF streamVars
<1> QED
  BY <1>2, <1>5, <1>6, <1>7, <1>9, <1>10 DEF StreamNext, StreamStep, OtherNode

\* However the chunks are cut, the table is sent a prefix of the narration, at
\* most a fence behind what has arrived, and all of it in the end (makeDeltaGate).
THEOREM StreamsAreNarration == StreamSpec => []StreamIsNarration
<1>1. StreamInit => GateInv
  <2> SUFFICES ASSUME StreamInit PROVE GateInv
    OBVIOUS
  <2>1. <<>> \in Seq(Symbol) /\ Len(<<>>) = 0
    BY EmptySeq
  <2>2. Narration(<<>>) = <<>>
    <3> SUFFICES ASSUME At(<<>>) # 0 PROVE FALSE
      BY DEF Narration
    <3>1. Occurs(<<>>, At(<<>>))
      BY <2>1, AtIsFirst
    <3> QED BY <2>1, <3>1, Fence DEF Occurs
  <2>3. /\ calling = FALSE /\ sealed = FALSE /\ arrived = 0
        /\ raw = <<>> /\ held = <<>> /\ streamed = <<>>
    BY DEF StreamInit
  <2>4. /\ raw \in Seq(Symbol) /\ held \in Seq(Symbol) /\ streamed \in Seq(Symbol)
        /\ Len(raw) = 0 /\ streamed = Narration(raw)
    BY <2>1, <2>2, <2>3, Zenon
  <2>5. arrived \in 0..Len(raw) /\ arrived = Len(raw)
    BY <2>3, <2>4
  <2> QED BY <2>3, <2>4, <2>5, Zenon DEF GateInv
<1>2. GateInv => StreamIsNarration
  <2> SUFFICES ASSUME GateInv PROVE StreamIsNarration
    OBVIOUS
  <2>1. /\ raw \in Seq(Symbol) /\ arrived \in 0..Len(raw) /\ held \in Seq(Symbol)
        /\ streamed \in Seq(Symbol) /\ sealed \in BOOLEAN /\ calling \in BOOLEAN
        /\ Len(raw) \in Nat /\ Len(streamed) \in Nat /\ Len(held) \in Nat /\ N \in Nat \ {0}
    BY LenProperties, Fence DEF GateInv
  <2>2. /\ Arrived \in Seq(Symbol) /\ Len(Arrived) = arrived
        /\ \A k \in 1..arrived : Arrived[k] = raw[k]
    BY <2>1, FirstAndAfter DEF Arrived
  <2>3. CASE ~calling
    <3>1. streamed = Narration(raw) /\ arrived = Len(raw)
      BY <2>3 DEF GateInv
    <3>2. First(raw, arrived) = raw
      BY <2>1, <3>1, SubSeqFull DEF First
    <3> QED
      BY <2>1, <3>1, <3>2 DEF StreamIsNarration, IsPrefix, N
  <2>4. CASE calling /\ sealed
    <3>1. /\ At(Arrived) # 0 /\ streamed = First(Arrived, At(Arrived) - 1)
      BY <2>4 DEF GateInv, SealedGate
    <3>2. At(raw) = At(Arrived) /\ At(raw) - 1 \in 0..arrived
      BY <2>1, <3>1, AtOfFirst DEF Arrived
    <3>3. First(raw, At(raw) - 1) = First(Arrived, At(Arrived) - 1)
      <4> DEFINE n == At(raw) - 1
      <4>1. n \in 0..Len(raw) /\ n \in 0..Len(Arrived)
        BY <2>1, <2>2, <3>2
      <4> HIDE DEF n
      <4>2. /\ First(raw, n) \in Seq(Symbol) /\ Len(First(raw, n)) = n
            /\ \A k \in 1..n : First(raw, n)[k] = raw[k]
            /\ First(Arrived, n) \in Seq(Symbol) /\ Len(First(Arrived, n)) = n
            /\ \A k \in 1..n : First(Arrived, n)[k] = Arrived[k]
        BY <2>1, <2>2, <4>1, FirstAndAfter
      <4>3. \A k \in 1..n : First(raw, n)[k] = First(Arrived, n)[k]
        BY <2>1, <2>2, <4>1, <4>2
      <4>4. First(raw, n) = First(Arrived, n)
        BY <4>2, <4>3, SeqEqual
      <4> QED BY <3>2, <4>4 DEF n
    <3>4. Narration(raw) = streamed /\ Narration(Arrived) = streamed
      BY <3>1, <3>2, <3>3 DEF Narration
    <3> QED
      BY <2>1, <2>4, <3>4 DEF StreamIsNarration, IsPrefix, Arrived, N
  <2>5. CASE calling /\ ~sealed
    <3>1. OpenGate
      BY <2>5 DEF GateInv
    <3>2. /\ Len(Arrived) = Len(streamed) + Len(held) /\ Len(held) <= N
          /\ \A k \in 1..Len(streamed) : Arrived[k] = streamed[k]
      BY <2>1, <3>1, ConcatProperties DEF OpenGate
    <3>3. Narration(Arrived) = Arrived
      BY <3>1 DEF OpenGate, Narration
    <3>4. \A n \in Len(streamed)..Len(raw) : IsPrefix(streamed, First(raw, n))
      <4> SUFFICES ASSUME NEW n \in Len(streamed)..Len(raw) PROVE IsPrefix(streamed, First(raw, n))
        OBVIOUS
      <4>1. /\ First(raw, n) \in Seq(Symbol) /\ Len(First(raw, n)) = n
            /\ \A k \in 1..n : First(raw, n)[k] = raw[k]
        BY <2>1, FirstAndAfter
      <4>2. Len(streamed) \in 0..Len(First(raw, n)) /\ Len(streamed) \in 0..Len(streamed)
        BY <2>1, <4>1
      <4>3. /\ First(First(raw, n), Len(streamed)) \in Seq(Symbol)
            /\ Len(First(First(raw, n), Len(streamed))) = Len(streamed)
            /\ \A k \in 1..Len(streamed) : First(First(raw, n), Len(streamed))[k] = First(raw, n)[k]
        BY <4>1, <4>2, FirstAndAfter
      <4>4. \A k \in 1..Len(streamed) : First(First(raw, n), Len(streamed))[k] = streamed[k]
        BY <2>1, <2>2, <3>2, <4>1, <4>3
      <4>5. First(First(raw, n), Len(streamed)) = streamed
        BY <2>1, <4>3, <4>4, SeqEqual
      <4>6. SubSeq(streamed, 1, Len(streamed)) = streamed
        BY <2>1, SubSeqFull
      <4> QED BY <4>2, <4>5, <4>6 DEF IsPrefix, First
    <3>5. IsPrefix(streamed, Narration(raw))
      <4>1. CASE At(raw) = 0
        <5>1. First(raw, Len(raw)) = raw
          BY <2>1, SubSeqFull DEF First
        <5>2. Len(raw) \in Len(streamed)..Len(raw)
          BY <2>1, <2>2, <3>2
        <5> QED BY <3>4, <4>1, <5>1, <5>2 DEF Narration
      <4>2. CASE At(raw) # 0
        <5>1. At(raw) \in Nat \ {0} /\ At(raw) + N - 1 > arrived /\ At(raw) \in 1..(Len(raw) - N + 1)
          BY <2>1, <3>1, <4>2, AtOfFirst, AtIsFirst DEF OpenGate, Arrived, Occurs
        <5>2. Len(streamed) = 0 \/ Len(held) = N
          BY <3>1, EmptySeq DEF OpenGate
        <5>3. At(raw) - 1 \in Len(streamed)..Len(raw)
          BY <2>1, <2>2, <3>2, <5>1, <5>2
        <5> QED BY <3>4, <4>2, <5>3 DEF Narration
      <4> QED BY <4>1, <4>2
    <3> QED
      BY <2>1, <2>5, <3>2, <3>3, <3>5 DEF StreamIsNarration, Arrived, N
  <2> QED BY <2>1, <2>3, <2>4, <2>5
<1> QED
  BY <1>1, <1>2, StreamKeepsGate, PTL DEF StreamSpec

=============================================================================

------------------------------ MODULE DmStream ------------------------------
(***************************************************************************)
(* The narration the table sees while the model is still talking: one call *)
(* of call_dm in its steps, with the completion arriving in chunks of any  *)
(* size and the gate (makeDeltaGate) that must let the prose through and   *)
(* keep the control block back, wherever the chunks are cut. The rest of   *)
(* the turn is DmGraph; here its CallDm is the last step of a call.        *)
(*                                                                         *)
(* A text is a sequence of symbols; Marker stands for the fence "```dm-    *)
(* json" and Json for a control block, well-formed or not.                 *)
(***************************************************************************)
EXTENDS DmGraph, SequencesExt, FiniteSetsExt

CONSTANTS
  Symbol,   \* what a text consists of
  Marker,   \* DM_JSON_MARKER
  Json,     \* the symbol of a control block
  Text      \* what a provider may send

ASSUME StreamAssumption == Marker \in Seq(Symbol) /\ Marker # <<>> /\ \A text \in Text : text \in Seq(Symbol)

VARIABLES
  calling,   \* whether generate is running
  raw,       \* what the provider sends, then what it has sent
  arrived,   \* how much of it has arrived
  held,      \* the gate: what it holds back,
  sealed,    \* and whether the marker has gone by
  streamed   \* the deltas the table was sent for this call, in order

stream == <<calling, raw, arrived, held, sealed, streamed>>
streamVars == <<vars, stream>>

StreamInit ==
  /\ Init
  /\ calling = FALSE /\ sealed = FALSE
  /\ raw = <<>> /\ held = <<>> /\ streamed = <<>>
  /\ arrived = 0

-----------------------------------------------------------------------------
\* indexOf: where the marker begins, 0 if it is not there.
At(text) ==
  LET places == {i \in 1..(Len(text) - Len(Marker) + 1) : SubSeq(text, i, i + Len(Marker) - 1) = Marker}
  IN IF places = {} THEN 0 ELSE Min(places)

First(text, n) == SubSeq(text, 1, n)
After(text, n) == SubSeq(text, n + 1, Len(text))

\* parseDmOutput: all before the first marker is narration, all of it when there
\* is none; a control block is looked for behind the marker, or else anywhere.
Narration(text) == IF At(text) = 0 THEN text ELSE First(text, At(text) - 1)
HasBlock(text) == Json \in Range(After(text, IF At(text) = 0 THEN 0 ELSE At(text) - 1))

\* What parseDmOutput can make of a text.
ReadAs(text, reply) == reply.kind = "block" => HasBlock(text)

-----------------------------------------------------------------------------
\* The provider is looked up, the gate is new; generate has not sent anything.
StartCall(text) ==
  /\ node = "call_dm" /\ ~calling
  /\ supersteps < GRAPH_RECURSION_LIMIT
  /\ calling' = TRUE
  /\ raw' = text
  /\ arrived' = 0
  /\ held' = <<>> /\ sealed' = FALSE /\ streamed' = <<>>
  /\ UNCHANGED vars

Emit(text) == streamed' = streamed \o text

\* Mutant: the marker is looked for in the chunk, not across chunks.
Push_ChunkAlone(chunk) ==
  IF sealed THEN UNCHANGED <<held, sealed, streamed>>
  ELSE IF At(chunk) # 0
  THEN /\ Emit(held \o First(chunk, At(chunk) - 1))
       /\ sealed' = TRUE
       /\ held' = <<>>
  ELSE LET all == held \o chunk
           safe == IF Len(all) > Len(Marker) THEN Len(all) - Len(Marker) ELSE 0
       IN /\ Emit(First(all, safe))
          /\ held' = After(all, safe)
          /\ UNCHANGED sealed

\* The gate: all but the last symbols, as many as the marker has, may go.
Push(chunk) ==
  LET all == held \o chunk
      safe == IF Len(all) > Len(Marker) THEN Len(all) - Len(Marker) ELSE 0
  IN IF sealed THEN UNCHANGED <<held, sealed, streamed>>
     ELSE IF At(all) # 0
     THEN /\ Emit(First(all, At(all) - 1))
          /\ sealed' = TRUE
          /\ held' = <<>>
     ELSE /\ Emit(First(all, safe))
          /\ held' = After(all, safe)
          /\ UNCHANGED sealed

\* A chunk of the completion: the adapter appends it to raw and hands it on.
Delta(n) ==
  /\ calling
  /\ n \in 1..(Len(raw) - arrived)
  /\ arrived' = arrived + n
  /\ Push(SubSeq(raw, arrived + 1, arrived + n))
  /\ UNCHANGED <<calling, raw, vars>>

\* generate returns, or throws with part of the completion sent; gate.end()
\* either way lets go of what is held when no marker has come.
FinishCall(reply) ==
  /\ calling
  /\ reply.kind # "error" => arrived = Len(raw) /\ ReadAs(raw, reply)
  /\ Emit(IF sealed THEN <<>> ELSE held)
  /\ held' = <<>>
  /\ raw' = First(raw, arrived)
  /\ calling' = FALSE
  /\ UNCHANGED <<arrived, sealed>>
  /\ CallDm(reply)

\* Without a provider nothing is sent.
NoProvider ==
  /\ ~calling
  /\ CallDm(NoReply)
  /\ raw' = <<>> /\ arrived' = 0 /\ held' = <<>> /\ sealed' = FALSE /\ streamed' = <<>>
  /\ UNCHANGED calling

StreamStep ==
  \/ \E text \in Text : StartCall(text)
  \/ \E n \in 1..Len(raw) : Delta(n)
  \/ \E reply \in Possible : FinishCall(reply)
  \/ NoProvider

\* The nodes that do not talk to the model.
OtherNode ==
  /\ ~calling
  /\ Prepare \/ Interrupt \/ ExecuteReadTools \/ ValidateOutput \/ RecursionLimit \/ GraphThrows
  /\ UNCHANGED stream

StreamNext ==
  \/ StreamStep
  \/ OtherNode
  \/ (Resume \/ Terminated) /\ UNCHANGED stream

StreamSpec == StreamInit /\ [][StreamNext]_streamVars

\* The provider goes on sending until it has sent everything or fails; the event
\* loop runs the nodes. Nobody has to roll.
FairStreamSpec == StreamSpec /\ WF_streamVars(StreamStep \/ OtherNode)

-----------------------------------------------------------------------------
(* Properties *)

\* M6.6: however a completion is cut into chunks, what is streamed of it is the
\* narration that parseDmOutput takes from it, without a part of the fence; it
\* lags behind what has arrived by no more than the length of the fence, and
\* nothing is missing when the call is over, also when it failed (makeDeltaGate).
\* A block without its fence is narration to the gate, as it is to the parser.
StreamIsNarration ==
  /\ IsPrefix(streamed, Narration(raw))
  /\ Len(Narration(First(raw, arrived))) <= Len(streamed) + Len(Marker)
  /\ ~calling => streamed = Narration(raw)

=============================================================================

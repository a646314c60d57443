---------------------------- MODULE AnswerProofs ----------------------------
(***************************************************************************)
(* Proofs about the answer to a request, on its two stretches:             *)
(*                                                                         *)
(*   CascadeStream: the poller, its channel and the transcoding loop, for  *)
(*   every number of rounds, every capacity of the channel and every       *)
(*   number and length of the planner's responses (Init, Next and Spec     *)
(*   are those of CascadeStream);                                          *)
(*                                                                         *)
(*   ToolMapper: what the mappers make of the text, for every set of       *)
(*   answers, every way to cut them into deltas and every number of turns  *)
(*   (MapperInit, MapperNext and MapperSpec).                              *)
(*                                                                         *)
(* The two share no variable.  The facts about texts, Kept, FlattenSeq and *)
(* Whole that the second stretch needs are proved by induction, from the   *)
(* least element of a set of numbers.                                      *)
(***************************************************************************)
EXTENDS CascadeStream, ToolMapper, SequenceTheorems, WellFoundedInduction, TLAPS

-----------------------------------------------------------------------------
(* Types.                                                                  *)

\* The kind tells a delta from a failure.
LEMMA PieceKind ==
  ASSUME NEW x \in Piece \cup Failure, x.kind = "text"
  PROVE  x \in Piece
BY DEF Piece, Failure

\* The length of the last response; a response that is not empty is one of them.
LEMMA LastType == TypeOK => LastLen \in 0 .. MaxLen /\ (LastLen > 0 => Len(text) \in 1 .. MaxSteps)
BY TextAssumption DEF TypeOK, LastLen

\* A round ends the task or counts.
LEMMA RoundTypes ==
  ASSUME TypeOK, NEW idle \in BOOLEAN, Round(idle)
  PROVE  polls' \in 0 .. MaxPolls + 1 /\ poller' \in {"poll", "ended"}
BY PollingAssumption DEF TypeOK, Round

\* Before the cascade is started there is no poller.
Unopened ==
  engine = "off" => poller = "off" /\ chan = <<>> /\ heard = <<>> /\ sent.len = 0

TypeInv == TypeOK /\ Unopened

\* Init gives the types.
LEMMA InitTypes == Init => TypeInv
<1>. SUFFICES ASSUME Init PROVE TypeInv
  OBVIOUS
<1>1. next \in IF poller = "send" THEN Piece \cup Failure ELSE {Nothing}
  BY DEF Init
<1>2. /\ text \in Seq(0 .. MaxLen) /\ Len(text) <= MaxSteps
      /\ chan \in Seq(Piece \cup Failure) /\ Len(chan) <= Capacity
      /\ heard \in Seq(Piece)
  BY TextAssumption, CapacityAssumption DEF Init
<1>3. /\ polls \in 0 .. MaxPolls + 1
      /\ sent \in [step : 0 .. MaxSteps, len : 0 .. MaxLen]
  BY PollingAssumption, TextAssumption DEF Init
<1>4. begun \in BOOLEAN /\ denied \in BOOLEAN /\ lastError \in BOOLEAN /\ banned \in BOOLEAN
  BY DEF Init
<1>5. Unopened
  BY DEF Init, Unopened
<1>. QED
  BY <1>1, <1>2, <1>3, <1>4, <1>5 DEF Init, TypeInv, TypeOK

\* The poller leaves the rest alone: what it changes is of its type, so the state is.
LEMMA PollerFrame ==
  ASSUME TypeOK,
         UNCHANGED <<cascade, denied, lastError, engine, heard, client, banned>>,
         poller' \in {"poll", "send", "ended", "panicked"},
         polls' \in 0 .. MaxPolls + 1,
         sent' \in [step : 0 .. MaxSteps, len : 0 .. MaxLen],
         seen' \in {"idle", "running"},
         next' \in IF poller' = "send" THEN Piece \cup Failure ELSE {Nothing},
         chan' \in Seq(Piece \cup Failure), Len(chan') <= Capacity
  PROVE  TypeOK'
BY DEF TypeOK, cascade

\* The poller keeps the types.
LEMMA PollerTypes == TypeOK /\ Poller => TypeOK'
<1>. SUFFICES ASSUME TypeOK, Poller PROVE TypeOK'
  OBVIOUS
<1>t. /\ polls \in 0 .. MaxPolls + 1 /\ sent \in [step : 0 .. MaxSteps, len : 0 .. MaxLen]
      /\ seen \in {"idle", "running"} /\ run \in {"idle", "running"}
      /\ poller # "send" => next = Nothing
      /\ poller = "send" => next \in Piece \cup Failure
      /\ chan \in Seq(Piece \cup Failure) /\ Len(chan) <= Capacity
  BY DEF TypeOK
<1>1. CASE Poll
  <2>u. /\ UNCHANGED <<cascade, denied, lastError, engine, heard, client, banned>>
        /\ sent' = sent /\ chan' = chan /\ seen' \in {"idle", "running"}
        /\ next = Nothing
    BY <1>1, <1>t DEF Poll
  <2>1. CASE LastLen > sent.len
    <3>1. [kind |-> "text", step |-> Len(text), from |-> sent.len, to |-> LastLen] \in Piece
      BY <2>1, LastType DEF TypeOK, Piece
    <3>2. /\ poller' \in {"send", "panicked"} /\ polls' = polls
          /\ next' \in IF poller' = "send" THEN Piece \cup Failure ELSE {Nothing}
      BY <1>1, <2>1, <2>u, <3>1 DEF Poll
    <3>. QED
      BY <1>t, <2>u, <3>2, PollerFrame
  <2>2. CASE ~(LastLen > sent.len)
    <3>1. Round(run = "idle") /\ next' = next
      BY <1>1, <2>2 DEF Poll
    <3>2. polls' \in 0 .. MaxPolls + 1 /\ poller' \in {"poll", "ended"}
      BY <3>1, RoundTypes
    <3>. QED
      BY <1>t, <2>u, <3>1, <3>2, PollerFrame
  <2>. QED
    BY <2>1, <2>2
<1>2. CASE PollNothing
  <2>1. /\ UNCHANGED <<cascade, denied, lastError, engine, heard, client, banned>>
        /\ UNCHANGED <<sent, chan, seen, next>>
        /\ next = Nothing /\ Round(FALSE)
    BY <1>2, <1>t DEF PollNothing
  <2>2. polls' \in 0 .. MaxPolls + 1 /\ poller' \in {"poll", "ended"}
    BY <2>1, RoundTypes
  <2>. QED
    BY <1>t, <2>1, <2>2, PollerFrame
<1>3. CASE PollFails
  <2>1. /\ UNCHANGED <<cascade, denied, lastError, engine, heard, client, banned>>
        /\ UNCHANGED <<sent, chan, seen>>
        /\ next = Nothing
    BY <1>3, <1>t DEF PollFails
  <2>2. /\ polls' \in 0 .. MaxPolls + 1 /\ poller' \in {"poll", "send"}
        /\ next' \in IF poller' = "send" THEN Piece \cup Failure ELSE {Nothing}
    BY <1>3, <1>t, <2>1, PollingAssumption DEF PollFails, Failure
  <2>. QED
    BY <1>t, <2>1, <2>2, PollerFrame
<1>4. CASE Send
  <2>1. poller = "send" /\ next' = Nothing /\ next \in Piece \cup Failure
    BY <1>4, <1>t DEF Send
  <2>u. /\ UNCHANGED <<cascade, denied, lastError, engine, heard, client, banned>>
        /\ seen' = seen
    BY <1>4 DEF Send
  <2>2. CASE engine \in {"first", "loop"}
    <3>c. chan' = Append(chan, next) /\ Len(chan) < Capacity
      BY <1>4, <2>2 DEF Send
    <3>d. chan' \in Seq(Piece \cup Failure) /\ Len(chan') <= Capacity
      BY <1>t, <2>1, <3>c, CapacityAssumption
    <3>1. CASE next.kind = "text"
      <4>1. next \in Piece
        BY <2>1, <3>1, PieceKind
      <4>2. sent' = [step |-> next.step, len |-> next.to] /\ Round(seen = "idle")
        BY <1>4, <2>2, <3>1 DEF Send
      <4>3. sent' \in [step : 0 .. MaxSteps, len : 0 .. MaxLen]
        BY <4>1, <4>2, TextAssumption DEF Piece
      <4>4. polls' \in 0 .. MaxPolls + 1 /\ poller' \in {"poll", "ended"}
        BY <4>2, RoundTypes
      <4>. QED
        BY <1>t, <2>1, <2>u, <3>d, <4>3, <4>4, PollerFrame
    <3>2. CASE next.kind # "text"
      <4>1. sent' = sent /\ polls' = polls /\ poller' = "ended"
        BY <1>4, <2>2, <3>2 DEF Send
      <4>. QED
        BY <1>t, <2>1, <2>u, <3>d, <4>1, PollerFrame
    <3>. QED
      BY <3>1, <3>2
  <2>3. CASE engine \notin {"first", "loop"}
    <3>1. UNCHANGED <<sent, chan, polls>> /\ poller' = "ended"
      BY <1>4, <2>3 DEF Send
    <3>. QED
      BY <1>t, <2>1, <2>u, <3>1, PollerFrame
  <2>. QED
    BY <2>2, <2>3
<1>. QED
  BY <1>1, <1>2, <1>3, <1>4 DEF Poller

\* So does the transcoder.
LEMMA TranscoderFrame ==
  ASSUME TypeOK, UNCHANGED <<cascade, denied, lastError, polling>>,
         chan' \in Seq(Piece \cup Failure), Len(chan') <= Capacity,
         heard' \in Seq(Piece), engine' \in {"loop", "final", "failed", "dropped"},
         client' \in {client, "reading", "403", "500"}, banned' \in BOOLEAN
  PROVE  TypeOK'
BY DEF TypeOK, cascade, polling

\* The transcoder keeps the types.
LEMMA TranscoderTypes == TypeOK /\ Transcoder => TypeOK'
<1>. SUFFICES ASSUME TypeOK, Transcoder PROVE TypeOK'
  OBVIOUS
<1>u. UNCHANGED <<cascade, denied, lastError, polling>>
  BY DEF Transcoder, FirstFrame, NextFrame
<1>b. banned' \in BOOLEAN
  BY DEF TypeOK, Transcoder, FirstFrame, NextFrame, Refuse
<1>e. /\ engine' \in {"loop", "final", "failed", "dropped"}
      /\ client' \in {client, "reading", "403", "500"}
  BY DEF Transcoder, FirstFrame, NextFrame, Refuse
<1>1. CASE chan # <<>>
  <2>1. /\ Head1 \in Piece \cup Failure
        /\ Tail(chan) \in Seq(Piece \cup Failure)
        /\ Len(Tail(chan)) <= Capacity
    BY <1>1, CapacityAssumption DEF TypeOK, Head1
  <2>2. Head1.kind = "text" => Head1 \in Piece
    BY <2>1, PieceKind
  <2>3. /\ Head1.kind = "text" => <<Head1>> \in Seq(Piece) /\ Append(heard, Head1) \in Seq(Piece)
        /\ heard \in Seq(Piece)
    BY <2>2 DEF TypeOK
  <2>4. chan' = Tail(chan)
    BY <1>1 DEF Transcoder, FirstFrame, NextFrame
  <2>5. heard' \in Seq(Piece)
    BY <1>1, <2>3 DEF Transcoder, FirstFrame, NextFrame
  <2>. QED
    BY <1>u, <1>b, <1>e, <2>1, <2>4, <2>5, TranscoderFrame
<1>2. CASE chan = <<>>
  <2>1. UNCHANGED <<chan, heard>>
    BY <1>2 DEF Transcoder, FirstFrame, NextFrame
  <2>2. /\ chan \in Seq(Piece \cup Failure) /\ Len(chan) <= Capacity
        /\ heard \in Seq(Piece)
    BY DEF TypeOK
  <2>. QED
    BY <1>u, <1>b, <1>e, <2>1, <2>2, TranscoderFrame
<1>. QED
  BY <1>1, <1>2

\* Only Open starts the poller.
LEMMA StepUnopened == TypeInv /\ [Next]_vars => Unopened'
BY DEF TypeInv, TypeOK, Unopened, Next, vars, cascade, polling, LanguageServer, Begin,
       Write, Finish, Deny, OtherDenied, Poller, Poll, PollNothing, PollFails, Send,
       Transcoder, FirstFrame, NextFrame, Refuse, Open, OpenFails, Close, Disconnect

\* Every step keeps the types.
LEMMA StepTypes == TypeInv /\ [Next]_vars => TypeOK'
<1>. SUFFICES ASSUME TypeOK, Unopened, [Next]_vars PROVE TypeOK'
  BY DEF TypeInv
<1>. USE DEF TypeOK, cascade, polling
<1>1. CASE Begin
  BY <1>1 DEF Begin
<1>2. CASE Write
  <2>1. CASE Len(text) < MaxSteps /\ text' = Append(text, 0)
    BY <1>2, <2>1, TextAssumption DEF Write
  <2>2. CASE text # <<>> /\ LastLen < MaxLen /\ text' = [text EXCEPT ![Len(text)] = @ + 1]
    <3>1. Len(text) \in 1 .. Len(text) /\ text[Len(text)] + 1 \in 0 .. MaxLen
      BY <2>2, TextAssumption DEF LastLen
    <3>2. text' \in Seq(0 .. MaxLen) /\ Len(text') = Len(text)
      BY <2>2, <3>1
    <3>. QED
      BY <1>2, <3>2 DEF Write
  <2>. QED
    BY <1>2, <2>1, <2>2 DEF Write
<1>3. CASE Finish
  BY <1>3 DEF Finish
<1>4. CASE Deny
  BY <1>4 DEF Deny
<1>5. CASE OtherDenied
  BY <1>5 DEF OtherDenied
<1>6. CASE Poller
  BY <1>6, PollerTypes
<1>7. CASE Transcoder
  BY <1>7, TranscoderTypes
<1>8. CASE Open
  BY <1>8 DEF Open, Unopened
<1>9. CASE OpenFails
  BY <1>9 DEF OpenFails, Refuse
<1>10. CASE Close
  BY <1>10 DEF Close
<1>11. CASE Disconnect
  BY <1>11 DEF Disconnect
<1>12. CASE UNCHANGED vars
  BY <1>12 DEF vars
<1>. QED
  BY <1>1, <1>2, <1>3, <1>4, <1>5, <1>6, <1>7, <1>8, <1>9, <1>10, <1>11, <1>12
     DEF Next, LanguageServer

\* The types hold, and with them the bounds: on the rounds of the poller, and on the
\* channel between the poller and the transcoder.
THEOREM StreamTypes == Spec => []TypeOK
<1>1. TypeInv /\ [Next]_vars => TypeInv'
  BY StepTypes, StepUnopened DEF TypeInv
<1>2. TypeInv => TypeOK
  BY DEF TypeInv
<1>. QED
  BY <1>1, <1>2, InitTypes, PTL DEF Spec

-----------------------------------------------------------------------------
(* What PollerStops rests on: each step of the poller brings it closer to  *)
(* its end, and the only wait on its way is for room in the channel.       *)

\* How many steps the poller may still take.
StepsLeft ==
  CASE poller = "off" -> 2 * (MaxPolls + 1 - polls) + 3
    [] poller = "poll" -> 2 * (MaxPolls + 1 - polls) + 2
    [] poller = "send" -> 2 * (MaxPolls + 1 - polls) + 1
    [] OTHER -> 0

\* A round ends the task or goes up to the bound.
LEMMA RoundCloser ==
  ASSUME NEW idle \in BOOLEAN, Round(idle)
  PROVE  \/ poller' = "ended" /\ polls' = polls
         \/ poller' = "poll" /\ polls' = polls + 1
BY DEF Round

\* Where the poller goes.
LEMMA PollerMoves ==
  ASSUME TypeOK, Poller
  PROVE  \/ poller \in {"poll", "send"} /\ poller' \in {"ended", "panicked"}
         \/ poller = "poll" /\ poller' = "send" /\ polls' = polls
         \/ poller \in {"poll", "send"} /\ poller' = "poll" /\ polls' = polls + 1
<1>1. CASE Poll
  BY <1>1, RoundCloser DEF Poll
<1>2. CASE PollNothing
  BY <1>2, RoundCloser DEF PollNothing
<1>3. CASE PollFails
  BY <1>3 DEF PollFails
<1>4. CASE Send
  BY <1>4, RoundCloser DEF Send
<1>. QED
  BY <1>1, <1>2, <1>3, <1>4 DEF Poller

\* The other steps leave it where it is, or start it.
LEMMA OthersMove ==
  ASSUME [Next]_vars
  PROVE  Poller \/ UNCHANGED <<poller, polls>>
         \/ (poller = "off" /\ poller' = "poll" /\ polls' = polls) \/ ~Unopened
BY DEF Next, vars, cascade, polling, LanguageServer, Begin, Write, Finish, Deny, OtherDenied,
       Transcoder, FirstFrame, NextFrame, Refuse, Open, OpenFails, Close, Disconnect, Unopened

\* Each step of the poller brings it closer to its end, no other step sets it back.
LEMMA StepCloser ==
  TypeInv /\ TypeOK' /\ [Next]_vars =>
    /\ StepsLeft \in Nat /\ StepsLeft' <= StepsLeft
    /\ Poller => StepsLeft' < StepsLeft
<1>. SUFFICES ASSUME TypeInv, TypeOK', [Next]_vars
              PROVE  /\ StepsLeft \in Nat /\ StepsLeft' <= StepsLeft
                     /\ Poller => StepsLeft' < StepsLeft
  OBVIOUS
<1>t. /\ MaxPolls \in Nat /\ polls \in 0 .. MaxPolls + 1 /\ polls' \in 0 .. MaxPolls + 1
  BY PollingAssumption DEF TypeInv, TypeOK
<1>1. StepsLeft \in Nat /\ StepsLeft' \in Nat
  BY <1>t DEF StepsLeft
<1>2. CASE Poller
  BY <1>2, <1>t, <1>1, PollerMoves DEF TypeInv, StepsLeft
<1>3. CASE UNCHANGED <<poller, polls>> /\ ~Poller
  <2>1. StepsLeft' = StepsLeft
    BY <1>3 DEF StepsLeft
  <2>. QED
    BY <1>1, <1>3, <2>1
<1>4. CASE poller = "off" /\ poller' = "poll" /\ polls' = polls /\ ~Poller
  BY <1>1, <1>4, <1>t DEF StepsLeft
<1>. QED
  BY <1>2, <1>3, <1>4, OthersMove DEF TypeInv

\* The task takes finitely many steps: at most two for each of its rounds, whichever calls
\* fail and whatever the cascade and the reader do.
THEOREM PollerComesCloser ==
  Spec => [][/\ StepsLeft \in Nat /\ StepsLeft' <= StepsLeft
             /\ Poller => StepsLeft' < StepsLeft]_vars
<1>1. TypeInv /\ [Next]_vars => TypeInv'
  BY StepTypes, StepUnopened DEF TypeInv
<1>2. TypeInv => TypeOK
  BY DEF TypeInv
<1>3. TypeInv /\ TypeInv' /\ [Next]_vars =>
        /\ StepsLeft \in Nat /\ StepsLeft' <= StepsLeft
        /\ Poller => StepsLeft' < StepsLeft
  BY StepCloser DEF TypeInv
<1>. QED
  BY <1>1, <1>3, InitTypes, PTL DEF Spec

-----------------------------------------------------------------------------
(* The order of the deltas.  The invariant follows a delta from the poller *)
(* through the channel to the transcoder.                                  *)

Listening == engine \in {"first", "loop"}
Polling == poller \in {"poll", "send"}

Follows(a, b) == a.step <= b.step /\ a.to = b.from

\* The response last_sent_len was measured in is one of the trajectory.
Measured == sent.step <= Len(text)

\* The delta being sent starts at last_sent_len.
NextFits ==
  (poller = "send" /\ next.kind = "text") =>
     next.from = sent.len /\ sent.step <= next.step /\ next.step <= Len(text)

\* A failure is the last thing a poller sends.
FailureLast ==
  \A i \in 1 .. Len(chan) : chan[i].kind # "text" => i = Len(chan) /\ ~Polling

\* The deltas in the channel follow each other, ...
ChanInOrder ==
  \A i \in 1 .. Len(chan) - 1 : chan[i + 1].kind = "text" => Follows(chan[i], chan[i + 1])

\* ... the first of them follows what has been heard, ...
ChanFits ==
  (Listening /\ chan # <<>> /\ chan[1].kind = "text") =>
     IF heard = <<>> THEN chan[1].from = 0 ELSE Follows(heard[Len(heard)], chan[1])

\* ... and the last thing sent ends at last_sent_len.
SentIsEnd ==
  (Listening /\ Polling) =>
     /\ chan # <<>> =>
          chan[Len(chan)].step = sent.step /\ chan[Len(chan)].to = sent.len
     /\ chan = <<>> /\ heard # <<>> =>
          heard[Len(heard)].step = sent.step /\ heard[Len(heard)].to = sent.len
     /\ chan = <<>> /\ heard = <<>> => sent.len = 0

\* Before the first frame nothing has been heard.
FirstUnheard == engine = "first" => heard = <<>>

OrderInv ==
  /\ Measured /\ NextFits /\ FailureLast /\ ChanInOrder /\ ChanFits /\ SentIsEnd
  /\ FirstUnheard /\ InOrder

\* Init has nothing in order.
LEMMA InitOrder == Init => OrderInv
BY DEF Init, OrderInv, Measured, NextFits, FailureLast, ChanInOrder, ChanFits, SentIsEnd,
       FirstUnheard, InOrder, Listening, Polling

\* Steps that leave the stream alone keep its order: the trajectory only gets longer, and
\* the transcoder at most stops listening.
LEMMA FrameOrder ==
  ASSUME OrderInv, UNCHANGED <<sent, next, chan, heard>>,
         Len(text) \in Nat, Len(text') \in Nat, Len(text) <= Len(text'),
         sent.step \in Nat, next.kind = "text" => next.step \in Nat,
         poller' = "send" => poller = "send", Polling' => Polling,
         Listening' => Listening, engine' = "first" => heard = <<>>
  PROVE  OrderInv'
<1>. USE DEF OrderInv
<1>1. Measured'
  BY DEF Measured
<1>2. NextFits'
  BY DEF NextFits
<1>3. FailureLast'
  BY DEF FailureLast
<1>4. ChanInOrder' /\ InOrder'
  BY DEF ChanInOrder, InOrder, Follows
<1>5. ChanFits'
  BY DEF ChanFits, Follows
<1>6. SentIsEnd'
  BY DEF SentIsEnd
<1>7. FirstUnheard'
  BY DEF FirstUnheard
<1>. QED
  BY <1>1, <1>2, <1>3, <1>4, <1>5, <1>6, <1>7

\* The poller reads a delta that starts at last_sent_len and sends it behind the others.
LEMMA PollerOrder == TypeInv /\ OrderInv /\ Poller => OrderInv'
<1>. SUFFICES ASSUME TypeInv, OrderInv, Poller PROVE OrderInv'
  OBVIOUS
<1>t. /\ Len(text) \in Nat /\ sent.step \in Nat /\ sent.len \in Nat
      /\ next.kind = "text" => next.step \in Nat
  BY TextAssumption, PieceKind DEF TypeInv, TypeOK, Piece, Nothing
<1>1. CASE Poll
  <2>. USE <1>1 DEF Poll, cascade
  <2>1. NextFits'
    BY <1>t, PollingAssumption DEF NextFits, OrderInv, Measured, Round
  <2>2. Measured' /\ FirstUnheard' /\ ChanInOrder' /\ InOrder'
    BY DEF OrderInv, Measured, FirstUnheard, ChanInOrder, InOrder, Follows
  <2>3. Polling' => Polling
    BY DEF Polling
  <2>4. FailureLast' /\ ChanFits' /\ SentIsEnd'
    BY <2>3 DEF OrderInv, FailureLast, ChanFits, SentIsEnd, Listening, Follows
  <2>. QED
    BY <2>1, <2>2, <2>4 DEF OrderInv
<1>2. CASE PollNothing
  <2>1. (Polling' => Polling) /\ poller' # "send"
    BY <1>2 DEF PollNothing, Round, Polling
  <2>. QED
    BY <1>2, <1>t, <2>1, FrameOrder DEF PollNothing, cascade, Listening, OrderInv, FirstUnheard
<1>3. CASE PollFails
  <2>. USE <1>3 DEF PollFails, cascade
  <2>1. NextFits'
    BY DEF NextFits
  <2>2. Measured' /\ FirstUnheard' /\ ChanInOrder' /\ InOrder'
    BY DEF OrderInv, Measured, FirstUnheard, ChanInOrder, InOrder, Follows
  <2>3. Polling' => Polling
    BY DEF Polling
  <2>4. FailureLast' /\ ChanFits' /\ SentIsEnd'
    BY <2>3 DEF OrderInv, FailureLast, ChanFits, SentIsEnd, Listening, Follows
  <2>. QED
    BY <2>1, <2>2, <2>4 DEF OrderInv
<1>4. CASE Send
  <2>p. poller = "send" /\ Polling /\ next' = Nothing /\ poller' # "send"
    BY <1>4 DEF Send, Polling, Round
  <2>n. NextFits'
    BY <2>p DEF NextFits
  <2>f. FirstUnheard' /\ InOrder'
    BY <1>4 DEF Send, OrderInv, FirstUnheard, InOrder
  <2>1. CASE engine \notin {"first", "loop"}
    <3>1. /\ ~Listening' /\ ~Polling' /\ UNCHANGED <<text, sent, chan>>
      BY <1>4, <2>1 DEF Send, Listening, Polling, cascade
    <3>. QED
      BY <2>n, <2>f, <3>1 DEF OrderInv, Measured, FailureLast, ChanInOrder, ChanFits,
                              SentIsEnd, Follows
  <2>2. CASE engine \in {"first", "loop"}
    <3>1. /\ Listening /\ chan' = Append(chan, next)
          /\ UNCHANGED <<text, heard>>
      BY <1>4, <2>2 DEF Send, Listening, cascade
    <3>2. /\ Len(chan') = Len(chan) + 1
          /\ chan'[Len(chan')] = next
          /\ \A i \in 1 .. Len(chan) : chan'[i] = chan[i]
          /\ Len(chan) \in Nat
      BY <3>1 DEF TypeInv, TypeOK
    <3>3. \A i \in 1 .. Len(chan) : chan[i].kind = "text"
      BY <2>p DEF OrderInv, FailureLast
    <3>4. FailureLast'
      <4>1. next.kind # "text" => ~Polling'
        BY <1>4, <2>2 DEF Send, Polling
      <4>. QED
        BY <3>2, <3>3, <4>1 DEF FailureLast
    <3>5. next.kind = "text" => next.from = sent.len /\ sent.step <= next.step
      BY <2>p DEF OrderInv, NextFits
    <3>6. chan # <<>> => Len(chan) \in 1 .. Len(chan)
      BY DEF TypeInv, TypeOK
    <3>7. ChanInOrder'
      <4>1. (chan # <<>> /\ next.kind = "text") => Follows(chan[Len(chan)], next)
        BY <2>p, <3>1, <3>5 DEF OrderInv, SentIsEnd, Follows
      <4>. QED
        BY <3>2, <3>6, <4>1 DEF OrderInv, ChanInOrder, Follows
    <3>8. ChanFits'
      <4>1. CASE chan = <<>>
        <5>1. chan'[1] = next
          BY <3>1, <4>1
        <5>2. (next.kind = "text" /\ heard # <<>>) => Follows(heard[Len(heard)], next)
          BY <2>p, <3>1, <3>5, <4>1 DEF OrderInv, SentIsEnd, Follows
        <5>3. (next.kind = "text" /\ heard = <<>>) => next.from = 0
          BY <2>p, <3>1, <3>5, <4>1 DEF OrderInv, SentIsEnd
        <5>. QED
          BY <3>1, <5>1, <5>2, <5>3 DEF ChanFits
      <4>2. CASE chan # <<>>
        <5>1. chan'[1] = chan[1]
          BY <3>2, <3>6, <4>2
        <5>. QED
          BY <3>1, <3>6, <4>2, <5>1 DEF OrderInv, ChanFits
      <4>. QED
        BY <4>1, <4>2
    <3>9. SentIsEnd'
      <4>1. next.kind = "text" => sent'.step = next.step /\ sent'.len = next.to
        BY <1>4, <2>2 DEF Send
      <4>2. next.kind # "text" => ~Polling'
        BY <1>4, <2>2 DEF Send, Polling
      <4>3. chan' # <<>>
        BY <3>2
      <4>. QED
        BY <3>2, <4>1, <4>2, <4>3 DEF SentIsEnd
    <3>10. Measured'
      BY <1>4, <2>2, <2>p, <3>1 DEF Send, OrderInv, NextFits, Measured
    <3>. QED
      BY <2>n, <2>f, <3>4, <3>7, <3>8, <3>9, <3>10 DEF OrderInv
  <2>. QED
    BY <2>1, <2>2
<1>. QED
  BY <1>1, <1>2, <1>3, <1>4 DEF Poller

\* The transcoder takes over the first delta in the channel, which follows what has been
\* heard; after a failure it hears nothing more.
LEMMA TranscoderOrder == TypeInv /\ OrderInv /\ Transcoder => OrderInv'
<1>. SUFFICES ASSUME TypeInv, OrderInv, Transcoder PROVE OrderInv'
  OBVIOUS
<1>t. /\ Len(text) \in Nat /\ sent.step \in Nat
      /\ next.kind = "text" => next.step \in Nat
  BY TextAssumption, PieceKind DEF TypeInv, TypeOK, Piece, Nothing
<1>u. /\ UNCHANGED <<text, poller, sent, next>>
      /\ Listening
  BY DEF Transcoder, FirstFrame, NextFrame, cascade, polling, Listening
<1>m. Measured' /\ NextFits' /\ (Polling' <=> Polling)
  BY <1>u DEF OrderInv, Measured, NextFits, Polling
<1>1. CASE chan = <<>>
  <2>1. UNCHANGED <<chan, heard>> /\ engine' # "first"
    BY <1>1 DEF Transcoder, FirstFrame, NextFrame, Refuse
  <2>. QED
    BY <1>t, <1>u, <1>m, <2>1, FrameOrder
<1>2. CASE chan # <<>>
  <2>1. chan' = Tail(chan) /\ engine' # "first"
    BY <1>2 DEF Transcoder, FirstFrame, NextFrame, Refuse
  <2>2. /\ Len(chan) \in Nat \ {0} /\ Len(chan') = Len(chan) - 1
        /\ \A i \in 1 .. Len(chan') : chan'[i] = chan[i + 1]
    BY <1>2, <2>1 DEF TypeInv, TypeOK
  <2>3. FailureLast'
    BY <1>m, <2>2 DEF OrderInv, FailureLast
  <2>4. ChanInOrder'
    <3>1. SUFFICES ASSUME NEW i \in 1 .. Len(chan') - 1, chan'[i + 1].kind = "text"
                   PROVE  Follows(chan'[i], chan'[i + 1])
      BY DEF ChanInOrder, Follows
    <3>2. /\ i + 1 \in 1 .. Len(chan) - 1
          /\ chan'[i] = chan[i + 1] /\ chan'[i + 1] = chan[(i + 1) + 1]
      BY <2>2
    <3>. QED
      BY <3>1, <3>2 DEF OrderInv, ChanInOrder
  <2>5. FirstUnheard'
    BY <2>1 DEF FirstUnheard
  <2>6. CASE chan[1].kind # "text"
    <3>1. heard' = heard /\ ~Listening'
      BY <1>2, <2>6 DEF Transcoder, FirstFrame, NextFrame, Refuse, Head1, Listening
    <3>. QED
      BY <1>m, <2>3, <2>4, <2>5, <3>1 DEF OrderInv, ChanFits, SentIsEnd, InOrder
  <2>7. CASE chan[1].kind = "text"
    <3>1. heard' = Append(heard, chan[1])
      <4>1. CASE FirstFrame
        <5>1. heard = <<>> /\ heard' = <<chan[1]>>
          BY <1>2, <2>7, <4>1 DEF FirstFrame, Refuse, Head1, OrderInv, FirstUnheard
        <5>. QED
          BY <5>1
      <4>2. CASE NextFrame
        BY <1>2, <2>7, <4>2 DEF NextFrame, Head1
      <4>. QED
        BY <4>1, <4>2 DEF Transcoder
    <3>2. /\ Len(heard) \in Nat /\ Len(heard') = Len(heard) + 1
          /\ heard'[Len(heard')] = chan[1]
          /\ \A i \in 1 .. Len(heard) : heard'[i] = heard[i]
          /\ heard # <<>> => Len(heard) # 0
          /\ heard' # <<>>
      <4>1. chan[1] \in Piece
        BY <2>2, <2>7, PieceKind DEF TypeInv, TypeOK
      <4>. QED
        BY <3>1, <4>1 DEF TypeInv, TypeOK
    <3>3. IF heard = <<>> THEN chan[1].from = 0 ELSE Follows(heard[Len(heard)], chan[1])
      BY <1>2, <1>u, <2>7 DEF OrderInv, ChanFits
    <3>4. InOrder'
      <4>1. heard'[1].from = 0
        BY <3>2, <3>3 DEF OrderInv, InOrder
      <4>2. ASSUME NEW i \in 1 .. Len(heard') - 1
            PROVE  Follows(heard'[i], heard'[i + 1])
        BY <3>2, <3>3 DEF OrderInv, InOrder, Follows
      <4>. QED
        BY <4>1, <4>2 DEF InOrder, Follows
    <3>5. ChanFits'
      <4>1. chan' # <<>> => Len(chan) > 1 /\ chan'[1] = chan[2]
        BY <2>1, <2>2
      <4>2. (Len(chan) > 1 /\ chan[2].kind = "text") => Follows(chan[1], chan[2])
        BY <2>2 DEF OrderInv, ChanInOrder
      <4>. QED
        BY <3>2, <4>1, <4>2 DEF ChanFits
    <3>6. SentIsEnd'
      <4>1. Polling => chan[Len(chan)].step = sent.step /\ chan[Len(chan)].to = sent.len
        BY <1>2, <1>u DEF OrderInv, SentIsEnd
      <4>2. chan' # <<>> => chan'[Len(chan')] = chan[Len(chan)]
        BY <2>1, <2>2
      <4>3. chan' = <<>> => Len(chan) = 1
        BY <2>1, <2>2
      <4>. QED
        BY <1>m, <1>u, <3>2, <4>1, <4>2, <4>3 DEF SentIsEnd
    <3>. QED
      BY <1>m, <2>3, <2>4, <2>5, <3>4, <3>5, <3>6 DEF OrderInv
  <2>. QED
    BY <2>6, <2>7
<1>. QED
  BY <1>1, <1>2

\* Every step keeps the order.
LEMMA StepOrder == TypeInv /\ OrderInv /\ [Next]_vars => OrderInv'
<1>. SUFFICES ASSUME TypeInv, OrderInv, [Next]_vars PROVE OrderInv'
  OBVIOUS
<1>t. /\ Len(text) \in Nat /\ sent.step \in Nat
      /\ next.kind = "text" => next.step \in Nat
  BY TextAssumption, PieceKind DEF TypeInv, TypeOK, Piece, Nothing
<1>1. CASE Poller
  BY <1>1, PollerOrder
<1>2. CASE Transcoder
  BY <1>2, TranscoderOrder
<1>3. CASE Write
  <2>1. Len(text') \in Nat /\ Len(text) <= Len(text')
    BY <1>3 DEF Write, TypeInv, TypeOK
  <2>2. /\ UNCHANGED <<sent, next, chan, heard>>
        /\ UNCHANGED <<poller, engine>>
    BY <1>3 DEF Write, polling
  <2>. QED
    BY <1>t, <2>1, <2>2, FrameOrder DEF Polling, Listening, OrderInv, FirstUnheard
<1>4. CASE Open
  BY <1>4 DEF Open, cascade, TypeInv, Unopened, OrderInv, Measured, NextFits, FailureLast,
              ChanInOrder, ChanFits, SentIsEnd, FirstUnheard, InOrder
<1>5. CASE Begin \/ Finish \/ Deny \/ OtherDenied \/ OpenFails \/ Close \/ Disconnect
           \/ UNCHANGED vars
  <2>1. /\ UNCHANGED <<sent, next, chan, heard>>
        /\ UNCHANGED <<poller, text>>
        /\ engine' = engine \/ engine' = "dropped"
    BY <1>5 DEF Begin, Finish, Deny, OtherDenied, OpenFails, Refuse, Close, Disconnect,
                vars, cascade, polling
  <2>. QED
    BY <1>t, <2>1, FrameOrder DEF Polling, Listening, OrderInv, FirstUnheard
<1>. QED
  BY <1>1, <1>2, <1>3, <1>4, <1>5 DEF Next, LanguageServer

\* The client gets the text in order: no character twice, and none left out within a
\* response, whatever the capacity of the channel and wherever the polling stops.
THEOREM StreamInOrder == Spec => []InOrder
<1>1. TypeInv /\ [Next]_vars => TypeInv'
  BY StepTypes, StepUnopened DEF TypeInv
<1>2. OrderInv => InOrder
  BY DEF OrderInv
<1>. QED
  BY <1>1, <1>2, InitTypes, InitOrder, StepOrder, PTL DEF Spec

-----------------------------------------------------------------------------
(* The end of the text.  A cascade the poller has seen idle after it ran   *)
(* does not go on, so its text is what was read then.                      *)

\* The deltas may still reach the client in order.
Served == engine \in {"first", "loop", "final"}
Telling == poller = "send" /\ next.kind = "text"

\* A trajectory has a response only when the cascade has run.
WrittenBegun == (text # <<>> \/ run = "running") => begun

\* A cascade that is idle after it has run does not go on: an idle one of which a delta
\* has been read is over.
Settles == (seen = "idle" /\ (sent.step > 0 \/ Telling)) => begun /\ run = "idle"

\* The delta read last from an idle cascade reaches to its end, and so does last_sent_len
\* once it is sent.
Caught ==
  (seen = "idle" /\ Served /\ poller \in {"poll", "send", "ended"}) =>
     /\ Telling => next.to >= LastLen
     /\ (sent.step > 0 /\ ~Telling) => sent.len >= LastLen

\* The last delta on its way ends at last_sent_len, also when the poller has stopped.
SentArrives ==
  Served =>
     /\ (chan # <<>> /\ chan[Len(chan)].kind = "text") =>
          chan[Len(chan)].step = sent.step /\ chan[Len(chan)].to = sent.len
     /\ (chan = <<>> /\ heard # <<>>) =>
          heard[Len(heard)].step = sent.step /\ heard[Len(heard)].to = sent.len

\* The final frame is written when the channel is closed, and read to its end.
FinalGone == engine = "final" => Gone /\ chan = <<>>

\* Before the start no trajectory has been read.
Unread == engine = "off" => seen = "running" /\ poller = "off" /\ sent.step = 0

TailInv == WrittenBegun /\ Settles /\ Caught /\ SentArrives /\ FinalGone /\ Unread

\* Init has delivered nothing.
LEMMA InitTail == Init => TailInv
BY DEF Init, TailInv, WrittenBegun, Settles, Caught, SentArrives, FinalGone, Unread, Served,
       Telling

\* A response that has been measured, or of which a delta is being sent, is there; so the
\* cascade has run.
LEMMA MeasuredBegun ==
  ASSUME TypeInv, OrderInv, WrittenBegun
  PROVE  (sent.step > 0 \/ Telling) => begun
<1>1. sent.step \in Nat /\ Len(text) \in Nat /\ (text = <<>> => Len(text) = 0)
  BY TextAssumption DEF TypeInv, TypeOK
<1>2. Telling => next.step \in Nat \ {0}
  BY TextAssumption, PieceKind DEF TypeInv, TypeOK, Piece, Nothing, Telling
<1>3. sent.step <= Len(text) /\ (Telling => next.step <= Len(text))
  BY DEF OrderInv, Measured, NextFits, Telling
<1>. QED
  BY <1>1, <1>2, <1>3 DEF WrittenBegun

\* What happens to the language server, and to the client before the end of the stream,
\* takes nothing back that has been delivered.
LEMMA TailFrame ==
  ASSUME TailInv, WrittenBegun', UNCHANGED <<sent, seen, next, chan, heard, poller>>,
         begun => begun',
         ~begun \/ (run = "idle" => text' = text /\ run' = "idle"),
         (sent.step > 0 \/ Telling) => begun,
         engine' \in {engine, "dropped"}
  PROVE  TailInv'
<1>1. Telling' <=> Telling
  BY DEF Telling
<1>2. Served' => Served
  BY DEF Served
<1>3. Settles'
  BY <1>1 DEF TailInv, Settles
<1>4. Caught'
  <2>1. (seen = "idle" /\ (sent.step > 0 \/ Telling)) => text' = text
    BY DEF TailInv, Settles
  <2>2. text' = text => LastLen' = LastLen
    BY DEF LastLen
  <2>. QED
    BY <1>1, <1>2, <2>1, <2>2 DEF TailInv, Caught
<1>5. SentArrives'
  BY <1>2 DEF TailInv, SentArrives
<1>6. FinalGone' /\ Unread'
  BY DEF TailInv, FinalGone, Unread, Gone
<1>. QED
  BY <1>3, <1>4, <1>5, <1>6 DEF TailInv

\* The poller reads to the end of an idle cascade, sends what it has read, and only then
\* stops.
LEMMA PollerTail ==
  ASSUME TypeInv, OrderInv, TailInv, Poller
  PROVE  TailInv'
<1>t. /\ sent.step \in Nat /\ sent.len \in Nat /\ LastLen \in Nat
      /\ LastLen > 0 => text # <<>>
      /\ poller # "send" => next.kind # "text"
  BY TextAssumption, LastType DEF TypeInv, TypeOK, Nothing, LastLen
<1>b. (sent.step > 0 \/ Telling) => begun
  BY MeasuredBegun DEF TailInv
<1>u. UNCHANGED <<run, text, begun, engine, heard>> /\ LastLen' = LastLen /\ (Served' <=> Served)
  BY DEF Poller, Poll, PollNothing, PollFails, Send, cascade, LastLen, Served
<1>w. WrittenBegun'
  BY <1>u DEF TailInv, WrittenBegun
<1>p. poller \in {"poll", "send"}
  BY DEF Poller, Poll, PollNothing, PollFails, Send
<1>g. FinalGone' /\ Unread'
  BY <1>p, <1>u DEF TailInv, FinalGone, Unread, Gone
<1>1. CASE Poll
  <2>1. /\ poller = "poll" /\ seen' = run
        /\ UNCHANGED <<sent, chan>>
    BY <1>1 DEF Poll
  <2>2. SentArrives'
    BY <1>u, <2>1 DEF TailInv, SentArrives
  <2>3. CASE LastLen > sent.len
    <3>1. begun
      BY <1>t, <2>3 DEF TailInv, WrittenBegun
    <3>2. \/ /\ next' = [kind |-> "text", step |-> Len(text), from |-> sent.len, to |-> LastLen]
             /\ poller' = "send"
          \/ poller' = "panicked"
      BY <1>1, <2>3 DEF Poll
    <3>3. Settles'
      BY <1>u, <2>1, <3>1 DEF Settles
    <3>4. Caught'
      BY <1>t, <1>u, <3>2 DEF Caught, Telling
    <3>. QED
      BY <1>w, <1>g, <2>2, <3>3, <3>4 DEF TailInv
  <2>4. CASE ~(LastLen > sent.len)
    <3>1. poller' # "send"
      BY <1>1, <2>4 DEF Poll, Round
    <3>2. ~Telling'
      BY <3>1 DEF Telling
    <3>3. Settles'
      BY <1>b, <1>u, <2>1, <3>2 DEF Settles
    <3>4. Caught'
      BY <1>t, <1>u, <2>1, <2>4, <3>2 DEF Caught
    <3>. QED
      BY <1>w, <1>g, <2>2, <3>3, <3>4 DEF TailInv
  <2>. QED
    BY <2>3, <2>4
<1>2. CASE PollNothing \/ PollFails
  <2>1. /\ poller = "poll" /\ UNCHANGED <<sent, seen, chan>>
        /\ poller' = "send" => next'.kind # "text"
    BY <1>2 DEF PollNothing, PollFails, Round
  <2>2. ~Telling /\ ~Telling'
    BY <2>1 DEF Telling
  <2>3. Settles'
    BY <1>u, <2>1, <2>2 DEF TailInv, Settles
  <2>4. Caught'
    BY <1>u, <2>1, <2>2 DEF TailInv, Caught
  <2>5. SentArrives'
    BY <1>u, <2>1 DEF TailInv, SentArrives
  <2>. QED
    BY <1>w, <1>g, <2>3, <2>4, <2>5 DEF TailInv
<1>3. CASE Send
  <2>1. poller = "send" /\ seen' = seen /\ poller' # "send"
    BY <1>3 DEF Send, Round
  <2>2. ~Telling'
    BY <2>1 DEF Telling
  <2>3. CASE engine \notin {"first", "loop"}
    <3>1. sent' = sent
      BY <1>3, <2>3 DEF Send
    <3>2. ~Served
      BY <2>1, <2>3 DEF TailInv, FinalGone, Gone, Served
    <3>3. Settles'
      BY <1>u, <2>1, <2>2, <3>1 DEF TailInv, Settles
    <3>4. Caught' /\ SentArrives'
      BY <1>u, <3>2 DEF Caught, SentArrives
    <3>. QED
      BY <1>w, <1>g, <3>3, <3>4 DEF TailInv
  <2>4. CASE engine \in {"first", "loop"}
    <3>1. chan' = Append(chan, next) /\ Served
      BY <1>3, <2>4 DEF Send, Served
    <3>2. chan' # <<>> /\ chan'[Len(chan')] = next
      BY <3>1 DEF TypeInv, TypeOK
    <3>3. CASE next.kind = "text"
      <4>1. sent'.step = next.step /\ sent'.len = next.to
        BY <1>3, <2>4, <3>3 DEF Send
      <4>2. Telling
        BY <2>1, <3>3 DEF Telling
      <4>3. Settles'
        BY <1>u, <2>1, <4>2 DEF TailInv, Settles
      <4>4. Caught'
        BY <1>u, <2>1, <2>2, <3>1, <4>1, <4>2 DEF TailInv, Caught
      <4>5. SentArrives'
        BY <3>2, <4>1 DEF SentArrives
      <4>. QED
        BY <1>w, <1>g, <4>3, <4>4, <4>5 DEF TailInv
    <3>4. CASE next.kind # "text"
      <4>1. sent' = sent
        BY <1>3, <2>4, <3>4 DEF Send
      <4>2. ~Telling
        BY <3>4 DEF Telling
      <4>3. Settles'
        BY <1>u, <2>1, <2>2, <4>1 DEF TailInv, Settles
      <4>4. Caught'
        BY <1>u, <2>1, <2>2, <3>1, <4>1, <4>2 DEF TailInv, Caught
      <4>5. SentArrives'
        BY <3>2, <3>4 DEF SentArrives
      <4>. QED
        BY <1>w, <1>g, <4>3, <4>4, <4>5 DEF TailInv
    <3>. QED
      BY <3>3, <3>4
  <2>. QED
    BY <2>3, <2>4
<1>. QED
  BY <1>1, <1>2, <1>3 DEF Poller

\* The transcoder hears what was in the channel, and ends only when that was all.
LEMMA TranscoderTail ==
  ASSUME TypeInv, OrderInv, TailInv, Transcoder
  PROVE  TailInv'
<1>u. /\ UNCHANGED <<run, text, begun, poller, sent, seen, next>>
      /\ engine \in {"first", "loop"} /\ engine' # "off"
      /\ (Telling' <=> Telling) /\ LastLen' = LastLen
  BY DEF Transcoder, FirstFrame, NextFrame, Refuse, cascade, polling, Telling, LastLen
<1>s. Served
  BY <1>u DEF Served
<1>1. WrittenBegun' /\ Settles' /\ Unread'
  BY <1>u DEF TailInv, WrittenBegun, Settles, Unread
<1>2. Caught'
  BY <1>u, <1>s DEF TailInv, Caught
<1>3. CASE chan = <<>>
  <2>1. UNCHANGED <<chan, heard>> /\ (engine' = "final" => Gone)
    BY <1>3 DEF Transcoder, FirstFrame, NextFrame, Refuse
  <2>2. SentArrives'
    BY <1>u, <1>s, <2>1 DEF TailInv, SentArrives
  <2>3. FinalGone'
    BY <1>u, <1>3, <2>1 DEF FinalGone, Gone
  <2>. QED
    BY <1>1, <1>2, <2>2, <2>3 DEF TailInv
<1>4. CASE chan # <<>>
  <2>1. chan' = Tail(chan) /\ engine' # "final"
    BY <1>4 DEF Transcoder, FirstFrame, NextFrame, Refuse
  <2>2. /\ chan' # <<>> => chan'[Len(chan')] = chan[Len(chan)]
        /\ chan' = <<>> => Len(chan) = 1
    <3>1. chan \in Seq(Piece \cup Failure)
      BY DEF TypeInv, TypeOK
    <3>2. /\ Len(chan) \in Nat \ {0} /\ Len(chan') = Len(chan) - 1
          /\ \A i \in 1 .. Len(chan') : chan'[i] = chan[i + 1]
      BY <1>4, <2>1, <3>1
    <3>3. /\ chan' # <<>> => Len(chan') # 0
          /\ chan' = <<>> => Len(chan') = 0
      <4>1. chan' \in Seq(Piece \cup Failure)
        BY <1>4, <2>1, <3>1
      <4>2. \A s \in Seq(Piece \cup Failure) : s # <<>> => Len(s) # 0
        OBVIOUS
      <4>. QED
        BY <4>1, <4>2
    <3>. QED
      BY <3>2, <3>3
  <2>3. FinalGone'
    BY <2>1 DEF FinalGone
  <2>4. CASE chan[1].kind # "text"
    <3>1. ~Served'
      BY <1>4, <2>4 DEF Transcoder, FirstFrame, NextFrame, Refuse, Head1, Served
    <3>. QED
      BY <1>1, <1>2, <2>3, <3>1 DEF TailInv, SentArrives
  <2>5. CASE chan[1].kind = "text"
    <3>1. heard' = <<chan[1]>> \/ heard' = Append(heard, chan[1])
      BY <1>4, <2>5 DEF Transcoder, FirstFrame, NextFrame, Refuse, Head1
    <3>2. heard'[Len(heard')] = chan[1]
      <4>1. chan[1] \in Piece /\ heard \in Seq(Piece)
        BY <1>4, <2>5, PieceKind DEF TypeInv, TypeOK
      <4>2. <<chan[1]>>[Len(<<chan[1]>>)] = chan[1]
        OBVIOUS
      <4>3. LET s == Append(heard, chan[1]) IN s[Len(s)] = chan[1]
        BY <4>1
      <4>. QED
        BY <3>1, <4>2, <4>3
    <3>3. SentArrives'
      BY <1>4, <1>u, <1>s, <2>2, <2>5, <3>2 DEF TailInv, SentArrives
    <3>. QED
      BY <1>1, <1>2, <2>3, <3>3 DEF TailInv
  <2>. QED
    BY <2>4, <2>5
<1>. QED
  BY <1>3, <1>4

\* Every step keeps it.
LEMMA StepTail == TypeInv /\ OrderInv /\ TailInv /\ [Next]_vars => TailInv'
<1>. SUFFICES ASSUME TypeInv, OrderInv, TailInv, [Next]_vars PROVE TailInv'
  OBVIOUS
<1>b. (sent.step > 0 \/ Telling) => begun
  BY MeasuredBegun DEF TailInv
<1>1. CASE Poller
  BY <1>1, PollerTail
<1>2. CASE Transcoder
  BY <1>2, TranscoderTail
<1>3. CASE Begin
  BY <1>3, <1>b, TailFrame DEF Begin, polling, WrittenBegun
<1>4. CASE Write
  <2>1. begun /\ begun' /\ run = "running" /\ engine' = engine
        /\ UNCHANGED <<sent, seen, next, chan, heard, poller>>
    BY <1>4 DEF Write, polling, TailInv, WrittenBegun
  <2>. QED
    BY <1>b, <2>1, TailFrame DEF WrittenBegun
<1>5. CASE Finish \/ OtherDenied \/ OpenFails \/ Disconnect \/ Close \/ UNCHANGED vars
  <2>1. /\ UNCHANGED <<text, begun, sent, seen, next, chan, heard, poller>>
        /\ run' \in {run, "idle"} /\ engine' \in {engine, "dropped"}
    BY <1>5 DEF Finish, OtherDenied, OpenFails, Refuse, Disconnect, Close, vars, cascade, polling
  <2>. QED
    BY <1>b, <2>1, TailFrame DEF TailInv, WrittenBegun
<1>6. CASE Deny
  <2>1. /\ UNCHANGED <<text, sent, seen, next, chan, heard, poller, engine>>
        /\ run' = "idle" /\ begun'
    BY <1>6 DEF Deny, polling
  <2>. QED
    BY <1>b, <2>1, TailFrame DEF WrittenBegun
<1>7. CASE Open
  <2>1. /\ UNCHANGED <<run, text, begun, sent, seen, next, chan, heard>>
        /\ engine = "off" /\ engine' = "first" /\ poller' = "poll"
    BY <1>7 DEF Open, cascade
  <2>2. seen = "running" /\ chan = <<>> /\ heard = <<>>
    BY <2>1 DEF TypeInv, Unopened, TailInv, Unread
  <2>. QED
    BY <2>1, <2>2 DEF TailInv, WrittenBegun, Settles, Caught, SentArrives, FinalGone, Unread
<1>. QED
  BY <1>1, <1>2, <1>3, <1>4, <1>5, <1>6, <1>7 DEF Next, LanguageServer

\* When a stream ends with a final frame after a cascade the poller saw idle, the last delta
\* of the client, if there is one, reaches at least the length of the planner's last
\* response: the poller sends before it looks at its exits, and the closed channel is read
\* until it is empty.  A last response no longer than an earlier one is never sent, and
\* nothing is said of it.
THEOREM StreamTail == Spec => []TailDelivered
<1>1. TypeInv /\ [Next]_vars => TypeInv'
  BY StepTypes, StepUnopened DEF TypeInv
<1>2. TypeInv /\ TailInv => TailDelivered
  <2>. SUFFICES ASSUME TypeInv, TailInv, engine = "final", poller = "ended", seen = "idle",
                       heard # <<>>
                PROVE  heard[Len(heard)].to >= LastLen
    BY DEF TailDelivered
  <2>1. chan = <<>> /\ Served /\ ~Telling
    BY DEF TailInv, FinalGone, Served, Telling
  <2>2. heard[Len(heard)].step = sent.step /\ heard[Len(heard)].to = sent.len
    BY <2>1 DEF TailInv, SentArrives
  <2>3. heard[Len(heard)] \in Piece
    BY DEF TypeInv, TypeOK
  <2>4. sent.step > 0
    BY <2>2, <2>3, TextAssumption DEF Piece
  <2>. QED
    BY <2>1, <2>2, <2>4 DEF TailInv, Caught
<1>. QED
  BY <1>1, <1>2, InitTypes, InitOrder, StepOrder, InitTail, StepTail, PTL DEF Spec

-----------------------------------------------------------------------------
(* Induction.                                                              *)

Below == {p \in Nat \X Nat : p[1] < p[2]}

\* The order of the natural numbers is well founded.
LEMMA BelowWellFounded == IsWellFoundedOn(Below, Nat)
BY NatLessThanWellFounded DEF OpToRel, Below

\* A set of natural numbers that is not empty has a least element.
LEMMA Least ==
  ASSUME NEW T, T \subseteq Nat, T # {}
  PROVE  \E n \in T : \A m \in T : n <= m
<1>1. PICK n \in T : \A m \in T : <<m, n>> \notin Below
  BY BelowWellFounded, WFMin
<1>2. \A m \in T : ~(m < n)
  BY <1>1 DEF Below
<1>. QED
  BY <1>2

\* Min and Max of a set of numbers that has them.
LEMMA MinIs ==
  ASSUME NEW T, T \subseteq Nat, T # {}
  PROVE  Min(T) \in T /\ \A y \in T : Min(T) <= y
<1>. DEFINE Lowest(x) == x \in T /\ \A y \in T : x <= y
<1>1. \E x : Lowest(x)
  BY Least
<1>2. Min(T) = CHOOSE x : Lowest(x)
  BY DEF Min
<1>3. Lowest(Min(T))
  <2>. HIDE DEF Lowest
  <2>. QED
    BY <1>1, <1>2
<1>. QED
  BY <1>3

\* The maximum of a set of numbers is in it and bounds it.
LEMMA MaxIs ==
  ASSUME NEW n \in Nat, NEW T, T \subseteq 1..n, T # {}
  PROVE  Max(T) \in T /\ \A y \in T : y <= Max(T)
<1>. DEFINE Highest(x) == x \in T /\ \A y \in T : x >= y
            U == {n - x : x \in T}
<1>1. U \subseteq Nat /\ U # {}
  <2>1. \A x \in T : n - x \in Nat
    OBVIOUS
  <2>2. PICK x : x \in T
    OBVIOUS
  <2>3. n - x \in U
    BY <2>2
  <2>. QED
    BY <2>1, <2>3
<1>2. PICK u \in U : \A y \in U : u <= y
  <2>. HIDE DEF U
  <2>. QED
    BY <1>1, Least
<1>3. PICK x \in T : u = n - x
  BY <1>2
<1>4. ASSUME NEW y \in T PROVE x >= y
  <2>1. n - x <= n - y
    BY <1>2, <1>3
  <2>. QED
    BY <2>1
<1>5. \E z : Highest(z)
  BY <1>3, <1>4
<1>6. Max(T) = CHOOSE z : Highest(z)
  BY DEF Max
<1>7. Highest(Max(T))
  <2>. HIDE DEF Highest
  <2>. QED
    BY <1>5, <1>6
<1>. QED
  BY <1>7

\* A set that contains 0 and with each number the next one contains them all.
LEMMA Induct ==
  ASSUME NEW T, 0 \in T, \A n \in Nat : n \in T => n + 1 \in T
  PROVE  \A n \in Nat : n \in T
<1>. DEFINE Rest == Nat \ T
<1>. SUFFICES ASSUME Rest # {} PROVE FALSE
  OBVIOUS
<1>1. PICK n \in Rest : \A m \in Rest : n <= m
  BY Least
<1>2. n # 0 /\ n - 1 \in Nat /\ n - 1 \notin Rest
  BY <1>1
<1>3. n - 1 \in T
  BY <1>2
<1>. QED
  BY <1>1, <1>2, <1>3

\* The same for sequences: the empty one, and with each the longer ones.
LEMMA SeqInduct ==
  ASSUME NEW A, NEW T, <<>> \in T,
         \A s \in Seq(A), x \in A : s \in T => Append(s, x) \in T
  PROVE  \A s \in Seq(A) : s \in T
<1>. DEFINE P(n) == \A s \in Seq(A) : Len(s) = n => s \in T
            U == {n \in Nat : P(n)}
<1>1. P(0)
  BY EmptySeq, LenProperties
<1>2. ASSUME NEW n \in Nat, P(n) PROVE P(n + 1)
  <2>. SUFFICES ASSUME NEW s \in Seq(A), Len(s) = n + 1 PROVE s \in T
    OBVIOUS
  <2>1. s # <<>>
    BY EmptySeq
  <2>2. PICK t \in Seq(A), x \in A : s = Append(t, x)
    BY <2>1, SequenceEmptyOrAppend
  <2>3. Len(t) = n
    BY <2>2, AppendProperties, LenProperties
  <2>. QED
    BY <2>2, <2>3, <1>2
<1>. HIDE DEF P
<1>3. 0 \in U /\ \A n \in Nat : n \in U => n + 1 \in U
  BY <1>1, <1>2
<1>4. \A n \in Nat : P(n)
  <2>. HIDE DEF U
  <2>1. \A n \in Nat : n \in U
    BY <1>3, Induct
  <2>. QED
    BY <2>1 DEF U
<1>. QED
  BY <1>4, LenProperties DEF P

-----------------------------------------------------------------------------
(* What Kept returns.                                                      *)

KeepStep(t, x, S) == IF x \in S THEN Append(t, x) ELSE t

\* f[k] is what is kept of the first k elements of s, for k up to n.
Keeping(f, n, s, S) ==
  /\ f[0] = <<>>
  /\ \A k \in 1..n : f[k] = KeepStep(f[k - 1], s[k], S)

\* There is such an f, for every n.
LEMMA KeepingExists ==
  ASSUME NEW A, NEW s \in Seq(A), NEW S
  PROVE  \A n \in Nat : n <= Len(s) => \E f \in [0..n -> Seq(A)] : Keeping(f, n, s, S)
<1>. DEFINE P(n) == n <= Len(s) => \E f \in [0..n -> Seq(A)] : Keeping(f, n, s, S)
            T == {n \in Nat : P(n)}
<1>1. P(0)
  <2>. DEFINE f == [k \in 0..0 |-> <<>>]
  <2>1. f \in [0..0 -> Seq(A)] /\ Keeping(f, 0, s, S)
    BY EmptySeq DEF Keeping
  <2>. QED
    BY <2>1
<1>2. ASSUME NEW n \in Nat, P(n) PROVE P(n + 1)
  <2>. SUFFICES ASSUME n + 1 <= Len(s)
                PROVE  \E g \in [0..(n + 1) -> Seq(A)] : Keeping(g, n + 1, s, S)
    OBVIOUS
  <2>1. PICK f \in [0..n -> Seq(A)] : Keeping(f, n, s, S)
    BY <1>2, LenProperties
  <2>2. s[n + 1] \in A
    BY ElementOfSeq, LenProperties
  <2>. DEFINE last == KeepStep(f[n], s[n + 1], S)
              g == [k \in 0..(n + 1) |-> IF k = n + 1 THEN last ELSE f[k]]
  <2>3. last \in Seq(A)
    BY <2>2, AppendProperties DEF KeepStep
  <2>. HIDE DEF last
  <2>4. g \in [0..(n + 1) -> Seq(A)]
    BY <2>3
  <2>5. g[0] = <<>> /\ g[n + 1] = last /\ \A k \in 0..n : g[k] = f[k]
    BY <2>1 DEF Keeping
  <2>. HIDE DEF g
  <2>6. ASSUME NEW k \in 1..(n + 1) PROVE g[k] = KeepStep(g[k - 1], s[k], S)
    <3>1. CASE k = n + 1
      BY <3>1, <2>5 DEF last
    <3>2. CASE k \in 1..n
      BY <3>2, <2>5, <2>1 DEF Keeping
    <3>. QED
      BY <3>1, <3>2
  <2>. QED
    BY <2>4, <2>5, <2>6 DEF Keeping
<1>. HIDE DEF P
<1>3. 0 \in T /\ \A n \in Nat : n \in T => n + 1 \in T
  BY <1>1, <1>2
<1>4. \A n \in Nat : P(n)
  <2>. HIDE DEF T
  <2>1. \A n \in Nat : n \in T
    BY <1>3, Induct
  <2>. QED
    BY <2>1 DEF T
<1>. QED
  BY <1>4 DEF P

\* It depends on the first n elements only.
LEMMA KeepingAgree ==
  ASSUME NEW n \in Nat, NEW f, NEW g, NEW s, NEW t, NEW S,
         Keeping(f, n, s, S), Keeping(g, n, t, S), \A k \in 1..n : s[k] = t[k]
  PROVE  f[n] = g[n]
<1>. DEFINE P(k) == k <= n => f[k] = g[k]
            T == {k \in Nat : P(k)}
<1>1. P(0)
  BY DEF Keeping
<1>2. ASSUME NEW k \in Nat, P(k) PROVE P(k + 1)
  BY <1>2 DEF Keeping
<1>. HIDE DEF P
<1>3. 0 \in T /\ \A k \in Nat : k \in T => k + 1 \in T
  BY <1>1, <1>2
<1>4. n \in T
  <2>. HIDE DEF T
  <2>. QED
    BY <1>3, Induct
<1>. QED
  BY <1>4 DEF P

\* The recursion in Kept has a solution, of sequences over the same elements.
LEMMA KeptRun ==
  ASSUME NEW A, NEW s \in Seq(A), NEW S
  PROVE  \E f \in [0..Len(s) -> Seq(A)] : Keeping(f, Len(s), s, S) /\ Kept(s, S) = f[Len(s)]
<1>. DEFINE Solves(f) == f = [n \in 0..Len(s) |->
                                IF n = 0 THEN <<>>
                                ELSE IF s[n] \in S THEN Append(f[n - 1], s[n])
                                ELSE f[n - 1]]
<1>1. Len(s) \in Nat
  BY LenProperties
<1>2. PICK f \in [0..Len(s) -> Seq(A)] : Keeping(f, Len(s), s, S)
  <2>1. \A n \in Nat : n <= Len(s) => \E f \in [0..n -> Seq(A)] : Keeping(f, n, s, S)
    BY KeepingExists
  <2>. QED
    BY <1>1, <2>1
<1>3. Solves(f)
  <2>1. ASSUME NEW n \in 0..Len(s)
        PROVE  f[n] = IF n = 0 THEN <<>>
                      ELSE IF s[n] \in S THEN Append(f[n - 1], s[n])
                      ELSE f[n - 1]
    <3>1. CASE n = 0
      BY <3>1, <1>2 DEF Keeping
    <3>2. CASE n \in 1..Len(s)
      <4>1. f[n] = KeepStep(f[n - 1], s[n], S)
        BY <3>2, <1>2 DEF Keeping
      <4>. QED
        BY <4>1, <3>2, <1>1 DEF KeepStep
    <3>. QED
      BY <3>1, <3>2, <1>1
  <2>. QED
    BY <2>1, <1>1
<1>4. Kept(s, S) = (CHOOSE h : Solves(h))[Len(s)]
  BY DEF Kept
<1>5. PICK g : g = (CHOOSE h : Solves(h)) /\ Solves(g)
  <2>. HIDE DEF Solves
  <2>. QED
    BY <1>3
<1>6. Keeping(g, Len(s), s, S)
  <2>. DEFINE after(n) == IF n = 0 THEN <<>>
                         ELSE IF s[n] \in S THEN Append(g[n - 1], s[n])
                         ELSE g[n - 1]
  <2>0. g = [n \in 0..Len(s) |-> after(n)]
    BY <1>5
  <2>. HIDE DEF after
  <2>n. \A n \in 0..Len(s) : g[n] = after(n)
    BY <2>0
  <2>1. g[0] = <<>>
    BY <1>1, <2>n DEF after
  <2>2. ASSUME NEW n \in 1..Len(s) PROVE g[n] = KeepStep(g[n - 1], s[n], S)
    BY <1>1, <2>n DEF KeepStep, after
  <2>. QED
    BY <2>1, <2>2 DEF Keeping
<1>7. f[Len(s)] = g[Len(s)]
  BY <1>1, <1>2, <1>6, KeepingAgree
<1>8. Kept(s, S) = g[Len(s)]
  <2>. HIDE DEF Solves
  <2>. QED
    BY <1>4, <1>5
<1>. QED
  BY <1>2, <1>7, <1>8

\* What is kept is a sequence over the same elements.
LEMMA KeptType ==
  ASSUME NEW A, NEW s \in Seq(A), NEW S
  PROVE  Kept(s, S) \in Seq(A)
<1>1. Len(s) \in Nat
  BY LenProperties
<1>. QED
  BY <1>1, KeptRun

\* Nothing is kept of nothing.
LEMMA KeptEmpty == ASSUME NEW S PROVE Kept(<<>>, S) = <<>>
<1>1. <<>> \in Seq({}) /\ Len(<<>>) = 0
  BY EmptySeq
<1>2. PICK f \in [0..0 -> Seq({})] : Keeping(f, 0, <<>>, S) /\ Kept(<<>>, S) = f[0]
  <2>. DEFINE e == <<>>
  <2>1. e \in Seq({}) /\ Len(e) = 0
    BY <1>1
  <2>. HIDE DEF e
  <2>2. \E f \in [0..Len(e) -> Seq({})] : Keeping(f, Len(e), e, S) /\ Kept(e, S) = f[Len(e)]
    BY <2>1, KeptRun
  <2>3. \E f \in [0..0 -> Seq({})] : Keeping(f, 0, e, S) /\ Kept(e, S) = f[0]
    BY <2>1, <2>2
  <2>. QED
    BY <2>3 DEF e
<1>. QED
  BY <1>2 DEF Keeping

\* One more element is kept or not.
LEMMA KeptAppend ==
  ASSUME NEW A, NEW s \in Seq(A), NEW x \in A, NEW S
  PROVE  Kept(Append(s, x), S) = KeepStep(Kept(s, S), x, S)
<1>. DEFINE t == Append(s, x)
            n == Len(s)
<1>1. /\ t \in Seq(A) /\ n \in Nat /\ Len(t) = n + 1
      /\ t[n + 1] = x /\ \A k \in 1..n : t[k] = s[k]
  BY AppendProperties, LenProperties
<1>2. PICK f \in [0..n -> Seq(A)] : Keeping(f, n, s, S) /\ Kept(s, S) = f[n]
  BY KeptRun
<1>. HIDE DEF t, n
<1>3. PICK g \in [0..(n + 1) -> Seq(A)] : Keeping(g, n + 1, t, S) /\ Kept(t, S) = g[n + 1]
  <2>1. \E g \in [0..Len(t) -> Seq(A)] : Keeping(g, Len(t), t, S) /\ Kept(t, S) = g[Len(t)]
    BY <1>1, KeptRun
  <2>. QED
    BY <2>1, <1>1
<1>4. Keeping(g, n, t, S)
  BY <1>1, <1>3 DEF Keeping
<1>5. g[n] = f[n]
  BY <1>1, <1>2, <1>4, KeepingAgree
<1>6. g[n + 1] = KeepStep(g[n], x, S)
  BY <1>1, <1>3 DEF Keeping
<1>. QED
  BY <1>2, <1>3, <1>5, <1>6 DEF t

\* Of a single element.
LEMMA KeptOne ==
  ASSUME NEW x, NEW S
  PROVE  Kept(<<x>>, S) = IF x \in S THEN <<x>> ELSE <<>>
<1>. DEFINE A == {x}
<1>1. <<>> \in Seq(A) /\ x \in A
  BY EmptySeq
<1>. HIDE DEF A
<1>a. Kept(Append(<<>>, x), S) = KeepStep(Kept(<<>>, S), x, S)
  BY <1>1, KeptAppend
<1>b. Kept(<<>>, S) = <<>>
  BY KeptEmpty
<1>2. Kept(Append(<<>>, x), S) = KeepStep(<<>>, x, S)
  BY <1>a, <1>b
<1>3. Append(<<>>, x) = <<x>>
  OBVIOUS
<1>. QED
  BY <1>2, <1>3 DEF KeepStep

\* Two sequences may be gone through one after the other.
LEMMA KeptConcat ==
  ASSUME NEW A, NEW s \in Seq(A), NEW t \in Seq(A), NEW S
  PROVE  Kept(s \o t, S) = Kept(s, S) \o Kept(t, S)
<1>. DEFINE T == {u \in Seq(A) : Kept(s \o u, S) = Kept(s, S) \o Kept(u, S)}
<1>0. Kept(s, S) \in Seq(A)
  BY KeptType
<1>1. <<>> \in T
  <2>1. <<>> \in Seq(A) /\ s \o <<>> = s /\ Kept(s, S) \o <<>> = Kept(s, S)
    BY <1>0, EmptySeq, ConcatEmptySeq
  <2>. QED
    BY <2>1, KeptEmpty
<1>2. ASSUME NEW u \in Seq(A), NEW x \in A, u \in T PROVE Append(u, x) \in T
  <2>1. /\ Append(u, x) \in Seq(A) /\ s \o u \in Seq(A)
        /\ Kept(u, S) \in Seq(A)
    BY AppendProperties, ConcatProperties, KeptType
  <2>2. s \o Append(u, x) = Append(s \o u, x)
    OBVIOUS
  <2>3. /\ Kept(Append(s \o u, x), S) = KeepStep(Kept(s \o u, S), x, S)
        /\ Kept(Append(u, x), S) = KeepStep(Kept(u, S), x, S)
    BY <2>1, KeptAppend
  <2>4. Kept(s, S) \o Append(Kept(u, S), x) = Append(Kept(s, S) \o Kept(u, S), x)
    BY <1>0, <2>1
  <2>5. Kept(s \o u, S) = Kept(s, S) \o Kept(u, S)
    BY <1>2
  <2>6. Kept(s, S) \o Kept(Append(u, x), S) = KeepStep(Kept(s, S) \o Kept(u, S), x, S)
    BY <2>3, <2>4 DEF KeepStep
  <2>7. Kept(s \o Append(u, x), S) = Kept(s, S) \o Kept(Append(u, x), S)
    BY <2>2, <2>3, <2>5, <2>6
  <2>. QED
    BY <2>1, <2>7
<1>. HIDE DEF T
<1>3. t \in T
  BY <1>1, <1>2, SeqInduct
<1>. QED
  BY <1>3 DEF T

\* Nothing is kept of elements that are not to be kept.
LEMMA KeptNone ==
  ASSUME NEW A, NEW S, A \cap S = {}, NEW s \in Seq(A)
  PROVE  Kept(s, S) = <<>>
<1>. DEFINE T == {u \in Seq(A) : Kept(u, S) = <<>>}
<1>1. <<>> \in T
  BY EmptySeq, KeptEmpty
<1>2. ASSUME NEW u \in Seq(A), NEW x \in A, u \in T PROVE Append(u, x) \in T
  <2>1. Append(u, x) \in Seq(A) /\ Kept(Append(u, x), S) = KeepStep(Kept(u, S), x, S)
    BY AppendProperties, KeptAppend
  <2>. QED
    BY <1>2, <2>1 DEF KeepStep
<1>. HIDE DEF T
<1>3. s \in T
  BY <1>1, <1>2, SeqInduct
<1>. QED
  BY <1>3 DEF T

\* What is kept twice.
LEMMA KeptKept ==
  ASSUME NEW A, NEW s \in Seq(A), NEW R, NEW S, A \cap R \subseteq S
  PROVE  Kept(Kept(s, S), R) = Kept(s, R)
<1>. DEFINE T == {u \in Seq(A) : Kept(Kept(u, S), R) = Kept(u, R)}
<1>1. <<>> \in T
  BY EmptySeq, KeptEmpty
<1>2. ASSUME NEW u \in Seq(A), NEW x \in A, u \in T PROVE Append(u, x) \in T
  <2>1. /\ Append(u, x) \in Seq(A) /\ Kept(u, S) \in Seq(A)
        /\ Kept(Append(u, x), S) = KeepStep(Kept(u, S), x, S)
        /\ Kept(Append(u, x), R) = KeepStep(Kept(u, R), x, R)
    BY AppendProperties, KeptAppend, KeptType
  <2>2. Kept(Append(Kept(u, S), x), R) = KeepStep(Kept(Kept(u, S), R), x, R)
    BY <2>1, KeptAppend
  <2>. QED
    BY <1>2, <2>1, <2>2 DEF KeepStep
<1>. HIDE DEF T
<1>3. s \in T
  BY <1>1, <1>2, SeqInduct
<1>. QED
  BY <1>3 DEF T

-----------------------------------------------------------------------------
(* What FlattenSeq and Texts return.                                       *)

Joined(t, x) == t \o x

\* f[k] is the first k sequences of q in one, for k up to n.
Joining(f, n, q) == f[1] = q[1] /\ \A k \in 2..n : f[k] = Joined(f[k - 1], q[k])

\* There is such an f, for every n.
LEMMA JoiningExists ==
  ASSUME NEW A, NEW q \in Seq(Seq(A)), q # <<>>
  PROVE  \A n \in Nat : n + 1 <= Len(q) => \E f \in [1..(n + 1) -> Seq(A)] : Joining(f, n + 1, q)
<1>. DEFINE P(n) == n + 1 <= Len(q) => \E f \in [1..(n + 1) -> Seq(A)] : Joining(f, n + 1, q)
            T == {n \in Nat : P(n)}
<1>0. Len(q) \in Nat /\ \A k \in 1..Len(q) : q[k] \in Seq(A)
  BY LenProperties, ElementOfSeq
<1>1. P(0)
  <2>. SUFFICES ASSUME 1 <= Len(q)
                PROVE  \E f \in [1..1 -> Seq(A)] : Joining(f, 1, q)
    OBVIOUS
  <2>. DEFINE f == [k \in 1..1 |-> q[1]]
  <2>1. f \in [1..1 -> Seq(A)] /\ Joining(f, 1, q)
    BY <1>0 DEF Joining
  <2>. QED
    BY <2>1
<1>2. ASSUME NEW n \in Nat, P(n) PROVE P(n + 1)
  <2>. SUFFICES ASSUME n + 2 <= Len(q)
                PROVE  \E g \in [1..(n + 2) -> Seq(A)] : Joining(g, n + 2, q)
    OBVIOUS
  <2>1. PICK f \in [1..(n + 1) -> Seq(A)] : Joining(f, n + 1, q)
    BY <1>0, <1>2
  <2>. DEFINE last == Joined(f[n + 1], q[n + 2])
              g == [k \in 1..(n + 2) |-> IF k = n + 2 THEN last ELSE f[k]]
  <2>2. last \in Seq(A)
    BY <1>0, ConcatProperties DEF Joined
  <2>. HIDE DEF last
  <2>3. g \in [1..(n + 2) -> Seq(A)]
    BY <2>2
  <2>4. g[n + 2] = last /\ \A k \in 1..(n + 1) : g[k] = f[k]
    OBVIOUS
  <2>. HIDE DEF g
  <2>5. g[1] = q[1]
    BY <2>1, <2>4 DEF Joining
  <2>6. ASSUME NEW k \in 2..(n + 2) PROVE g[k] = Joined(g[k - 1], q[k])
    <3>1. CASE k = n + 2
      BY <3>1, <2>4 DEF last
    <3>2. CASE k \in 2..(n + 1)
      <4>1. k \in 1..(n + 1) /\ k - 1 \in 1..(n + 1)
        BY <3>2
      <4>2. g[k] = f[k] /\ g[k - 1] = f[k - 1]
        BY <4>1, <2>4
      <4>3. f[k] = Joined(f[k - 1], q[k])
        BY <3>2, <2>1 DEF Joining
      <4>. QED
        BY <4>2, <4>3
    <3>. QED
      BY <3>1, <3>2
  <2>. QED
    BY <2>3, <2>5, <2>6 DEF Joining
<1>. HIDE DEF P
<1>3. 0 \in T /\ \A n \in Nat : n \in T => n + 1 \in T
  BY <1>1, <1>2
<1>4. \A n \in Nat : P(n)
  <2>. HIDE DEF T
  <2>1. \A n \in Nat : n \in T
    BY <1>3, Induct
  <2>. QED
    BY <2>1 DEF T
<1>. QED
  BY <1>4 DEF P

\* It depends on the first n sequences only.
LEMMA JoiningAgree ==
  ASSUME NEW n \in Nat \ {0}, NEW f, NEW g, NEW q, NEW r,
         Joining(f, n, q), Joining(g, n, r), \A k \in 1..n : q[k] = r[k]
  PROVE  f[n] = g[n]
<1>. DEFINE P(k) == k + 1 <= n => f[k + 1] = g[k + 1]
            T == {k \in Nat : P(k)}
<1>1. P(0)
  BY DEF Joining
<1>2. ASSUME NEW k \in Nat, P(k) PROVE P(k + 1)
  <2>. SUFFICES ASSUME k + 2 <= n PROVE f[k + 2] = g[k + 2]
    OBVIOUS
  <2>1. f[k + 1] = g[k + 1] /\ q[k + 2] = r[k + 2]
    BY <1>2
  <2>2. f[k + 2] = Joined(f[k + 1], q[k + 2]) /\ g[k + 2] = Joined(g[k + 1], r[k + 2])
    <3>1. k + 2 \in 2..n /\ (k + 2) - 1 = k + 1
      OBVIOUS
    <3>. QED
      BY <3>1 DEF Joining
  <2>. QED
    BY <2>1, <2>2
<1>. HIDE DEF P
<1>3. 0 \in T /\ \A k \in Nat : k \in T => k + 1 \in T
  BY <1>1, <1>2
<1>4. n - 1 \in T
  <2>. HIDE DEF T
  <2>. QED
    BY <1>3, Induct
<1>. QED
  BY <1>4 DEF P

\* The recursion in FlattenSeq has a solution.
LEMMA FlattenRun ==
  ASSUME NEW A, NEW q \in Seq(Seq(A)), q # <<>>
  PROVE  \E f \in [1..Len(q) -> Seq(A)] : Joining(f, Len(q), q) /\ FlattenSeq(q) = f[Len(q)]
<1>. DEFINE Solves(f) == f = [i \in 1..Len(q) |-> IF i = 1 THEN q[i] ELSE f[i - 1] \o q[i]]
<1>1. Len(q) \in Nat \ {0}
  BY EmptySeq
<1>2. PICK f \in [1..Len(q) -> Seq(A)] : Joining(f, Len(q), q)
  <2>1. \A n \in Nat : n + 1 <= Len(q) => \E f \in [1..(n + 1) -> Seq(A)] : Joining(f, n + 1, q)
    BY JoiningExists
  <2>. DEFINE n == Len(q) - 1
  <2>2. n \in Nat /\ n + 1 = Len(q)
    BY <1>1
  <2>. HIDE DEF n
  <2>3. \E f \in [1..(n + 1) -> Seq(A)] : Joining(f, n + 1, q)
    BY <1>1, <2>1, <2>2
  <2>. QED
    BY <2>2, <2>3
<1>3. Solves(f)
  <2>1. ASSUME NEW i \in 1..Len(q)
        PROVE  f[i] = IF i = 1 THEN q[i] ELSE Joined(f[i - 1], q[i])
    BY <1>1, <1>2 DEF Joining
  <2>. QED
    BY <2>1, <1>1 DEF Joined
<1>4. FlattenSeq(q) = (CHOOSE h : Solves(h))[Len(q)]
  BY <1>1 DEF FlattenSeq
<1>5. PICK g : g = (CHOOSE h : Solves(h)) /\ Solves(g)
  <2>. HIDE DEF Solves
  <2>. QED
    BY <1>3
<1>6. Joining(g, Len(q), q)
  <2>. DEFINE after(i) == IF i = 1 THEN q[i] ELSE Joined(g[i - 1], q[i])
  <2>1. g = [i \in 1..Len(q) |-> after(i)]
    BY <1>5 DEF Joined
  <2>. HIDE DEF after
  <2>2. \A i \in 1..Len(q) : g[i] = after(i)
    BY <2>1
  <2>3. g[1] = q[1]
    BY <1>1, <2>2 DEF after
  <2>4. ASSUME NEW i \in 2..Len(q) PROVE g[i] = Joined(g[i - 1], q[i])
    BY <1>1, <2>2 DEF after
  <2>. QED
    BY <2>3, <2>4 DEF Joining
<1>7. f[Len(q)] = g[Len(q)]
  BY <1>1, <1>2, <1>6, JoiningAgree
<1>8. FlattenSeq(q) = g[Len(q)]
  <2>. HIDE DEF Solves
  <2>. QED
    BY <1>4, <1>5
<1>. QED
  BY <1>2, <1>7, <1>8

\* One more sequence comes at the end.
LEMMA FlattenAppend ==
  ASSUME NEW A, NEW q \in Seq(Seq(A)), NEW x \in Seq(A)
  PROVE  /\ FlattenSeq(q) \in Seq(A)
         /\ FlattenSeq(Append(q, x)) = FlattenSeq(q) \o x
<1>. DEFINE r == Append(q, x)
            n == Len(q)
<1>1. /\ r \in Seq(Seq(A)) /\ r # <<>> /\ n \in Nat /\ Len(r) = n + 1
      /\ r[n + 1] = x /\ \A k \in 1..n : r[k] = q[k]
  BY AppendProperties, LenProperties
<1>. HIDE DEF r
<1>2. PICK g \in [1..Len(r) -> Seq(A)] : Joining(g, Len(r), r) /\ FlattenSeq(r) = g[Len(r)]
  BY <1>1, FlattenRun
<1>3. CASE q = <<>>
  <2>1. n = 0 /\ FlattenSeq(q) = <<>>
    BY <1>3 DEF FlattenSeq
  <2>2. FlattenSeq(r) = x
    BY <1>1, <1>2, <2>1 DEF Joining
  <2>3. <<>> \in Seq(A) /\ <<>> \o x = x
    BY EmptySeq, ConcatEmptySeq
  <2>. QED
    BY <2>1, <2>2, <2>3 DEF r
<1>4. CASE q # <<>>
  <2>1. n \in Nat \ {0}
    BY <1>4, EmptySeq
  <2>2. PICK f \in [1..n -> Seq(A)] : Joining(f, n, q) /\ FlattenSeq(q) = f[n]
    BY <1>4, FlattenRun
  <2>. HIDE DEF n
  <2>3. Joining(g, n, r)
    BY <1>1, <1>2, <2>1 DEF Joining
  <2>4. g[n] = f[n]
    BY <1>1, <2>1, <2>2, <2>3, JoiningAgree
  <2>5. g[n + 1] = Joined(g[n], x)
    BY <1>1, <1>2, <2>1 DEF Joining
  <2>6. f[n] \in Seq(A)
    BY <2>1, <2>2
  <2>. QED
    BY <1>1, <1>2, <2>2, <2>4, <2>5, <2>6 DEF r, Joined
<1>. QED
  BY <1>3, <1>4

\* Texts of chunks: nothing of none; one more chunk adds its text.
LEMMA TextsEmpty == Texts(<<>>) = <<>>
BY DEF Texts, FlattenSeq

\* A chunk more is a text more.
LEMMA TextsAppend ==
  ASSUME NEW s \in Seq(Chunks), NEW c \in Chunks
  PROVE  /\ Texts(s) \in Seq(Letters)
         /\ Texts(Append(s, c)) = Texts(s) \o c.text
<1>. DEFINE T(u) == [i \in DOMAIN u |-> u[i].text]
<1>1. /\ Append(s, c) \in Seq(Chunks) /\ Len(s) \in Nat
      /\ DOMAIN s = 1..Len(s) /\ DOMAIN Append(s, c) = 1..(Len(s) + 1)
      /\ Append(s, c)[Len(s) + 1] = c /\ \A k \in 1..Len(s) : Append(s, c)[k] = s[k] /\ s[k] \in Chunks
  BY AppendProperties, LenProperties, ElementOfSeq
<1>2. c.text \in Seq(Letters) /\ \A k \in 1..Len(s) : s[k].text \in Seq(Letters)
  BY <1>1 DEF Chunks
<1>3. T(s) \in Seq(Seq(Letters)) /\ Len(T(s)) = Len(s)
  BY <1>1, <1>2
<1>4. T(Append(s, c)) = Append(T(s), c.text)
  BY <1>1, <1>2, <1>3
<1>. HIDE DEF T
<1>5. FlattenSeq(T(s)) \in Seq(Letters) /\ FlattenSeq(T(Append(s, c))) = FlattenSeq(T(s)) \o c.text
  BY <1>2, <1>3, <1>4, FlattenAppend
<1>. QED
  BY <1>5 DEF T, Texts

\* The texts of chunks that follow each other.
LEMMA TextsConcat ==
  ASSUME NEW s \in Seq(Chunks), NEW t \in Seq(Chunks)
  PROVE  Texts(s \o t) = Texts(s) \o Texts(t)
<1>. DEFINE T == {u \in Seq(Chunks) : Texts(s \o u) = Texts(s) \o Texts(u)}
<1>0. ASSUME NEW u \in Seq(Chunks) PROVE Texts(u) \in Seq(Letters)
  <2>1. Chunk("finish", 0, <<>>) \in Chunks
    BY DEF Chunk, Chunks, ChunkKinds
  <2>. QED
    BY <2>1, TextsAppend
<1>1. <<>> \in T
  <2>1. <<>> \in Seq(Chunks) /\ s \o <<>> = s /\ Texts(s) \o <<>> = Texts(s)
    BY <1>0, EmptySeq, ConcatEmptySeq
  <2>. QED
    BY <2>1, TextsEmpty
<1>2. ASSUME NEW u \in Seq(Chunks), NEW c \in Chunks, u \in T PROVE Append(u, c) \in T
  <2>a. Append(u, c) \in Seq(Chunks) /\ s \o u \in Seq(Chunks)
    BY AppendProperties, ConcatProperties
  <2>b. s \o Append(u, c) = Append(s \o u, c)
    OBVIOUS
  <2>c. c.text \in Seq(Letters)
    BY DEF Chunks
  <2>1. /\ Append(u, c) \in Seq(Chunks) /\ s \o u \in Seq(Chunks)
        /\ s \o Append(u, c) = Append(s \o u, c)
        /\ c.text \in Seq(Letters)
    BY <2>a, <2>b, <2>c
  <2>2. Texts(Append(s \o u, c)) = Texts(s \o u) \o c.text
    BY <2>1, TextsAppend
  <2>3. Texts(Append(u, c)) = Texts(u) \o c.text
    BY TextsAppend
  <2>4. (Texts(s) \o Texts(u)) \o c.text = Texts(s) \o (Texts(u) \o c.text)
    <3>1. Texts(s) \in Seq(Letters) /\ Texts(u) \in Seq(Letters)
      BY <1>0
    <3>. DEFINE S == Seq(Letters)
    <3>2. \A x \in S, y \in S, z \in S : (x \o y) \o z = x \o (y \o z)
      BY ConcatAssociative
    <3>3. Texts(s) \in S /\ Texts(u) \in S /\ c.text \in S
      BY <2>1, <3>1
    <3>. HIDE DEF S
    <3>. QED
      BY <3>2, <3>3
  <2>5. Texts(s \o u) = Texts(s) \o Texts(u)
    BY <1>2
  <2>6. Texts(s \o Append(u, c)) = Texts(s) \o Texts(Append(u, c))
    BY <2>1, <2>2, <2>3, <2>4, <2>5
  <2>. QED
    BY <2>1, <2>6
<1>. HIDE DEF T
<1>3. t \in T
  BY <1>1, <1>2, SeqInduct
<1>. QED
  BY <1>3 DEF T

\* The text of one chunk.
LEMMA TextsOne == ASSUME NEW c \in Chunks PROVE Texts(<<c>>) = c.text
<1>1. <<>> \in Seq(Chunks) /\ Append(<<>>, c) = <<c>> /\ c.text \in Seq(Letters)
  BY EmptySeq DEF Chunks
<1>2. Texts(Append(<<>>, c)) = Texts(<<>>) \o c.text
  BY <1>1, TextsAppend
<1>3. <<>> \o c.text = c.text
  BY <1>1, ConcatEmptySeq
<1>. QED
  BY <1>1, <1>2, <1>3, TextsEmpty

-----------------------------------------------------------------------------
(* Tags.                                                                   *)

Tags == {OpenTag, CloseTag}

\* A tag is two symbols.
LEMMA TagSymbols ==
  ASSUME NEW tag \in Tags
  PROVE  /\ tag[1] \in Symbols /\ tag[2] \in Symbols /\ tag = <<tag[1], tag[2]>>
         /\ \A x, y : <<x, y>> = tag <=> x = tag[1] /\ y = tag[2]
<1>1. CASE tag = OpenTag
  BY <1>1 DEF OpenTag, Symbols
<1>2. CASE tag = CloseTag
  BY <1>2 DEF CloseTag, Symbols
<1>. QED
  BY <1>1, <1>2 DEF Tags

\* The tag stands at place i.
At(tag, s, i) == s[i] = tag[1] /\ s[i + 1] = tag[2]

\* The places of a tag.
LEMMA PlacesAt ==
  ASSUME NEW A, NEW s \in Seq(A), NEW tag \in Tags
  PROVE  /\ Len(s) \in Nat
         /\ Places(tag, s) = {i \in 1..(Len(s) - 1) : At(tag, s, i)}
         /\ Has(tag, s) <=> \E i \in 1..(Len(s) - 1) : At(tag, s, i)
<1>1. \A i : <<s[i], s[i + 1]>> = tag <=> At(tag, s, i)
  BY TagSymbols DEF At
<1>2. Places(tag, s) = {i \in 1..(Len(s) - 1) : At(tag, s, i)}
  BY <1>1 DEF Places
<1>. QED
  BY <1>2, LenProperties DEF Has

\* The first place of a tag.
LEMMA FirstPlace ==
  ASSUME NEW A, NEW s \in Seq(A), NEW tag \in Tags, Has(tag, s)
  PROVE  /\ Min(Places(tag, s)) \in 1..(Len(s) - 1)
         /\ At(tag, s, Min(Places(tag, s)))
         /\ \A i \in 1..(Min(Places(tag, s)) - 1) : ~At(tag, s, i)
<1>. DEFINE P == Places(tag, s)
<1>1. P = {i \in 1..(Len(s) - 1) : At(tag, s, i)} /\ P # {} /\ Len(s) \in Nat
  BY PlacesAt DEF Has
<1>. HIDE DEF P
<1>4. Min(P) \in P /\ \A y \in P : Min(P) <= y
  <2>1. P \subseteq Nat
    BY <1>1
  <2>. QED
    BY <1>1, <2>1, MinIs
<1>5. Min(P) \in 1..(Len(s) - 1) /\ At(tag, s, Min(P))
  BY <1>1, <1>4
<1>6. \A i \in 1..(Min(P) - 1) : ~At(tag, s, i)
  BY <1>1, <1>4, <1>5
<1>. QED
  BY <1>5, <1>6 DEF P

\* The first place is the one place with no tag before it.
LEMMA FirstIs ==
  ASSUME NEW A, NEW s \in Seq(A), NEW tag \in Tags, NEW m \in 1..(Len(s) - 1),
         At(tag, s, m), \A i \in 1..(m - 1) : ~At(tag, s, i)
  PROVE  Has(tag, s) /\ Min(Places(tag, s)) = m
<1>1. Has(tag, s) /\ Len(s) \in Nat
  BY PlacesAt
<1>. DEFINE k == Min(Places(tag, s))
<1>2. /\ k \in 1..(Len(s) - 1) /\ At(tag, s, k)
      /\ \A i \in 1..(k - 1) : ~At(tag, s, i)
  BY <1>1, FirstPlace
<1>. HIDE DEF k
<1>3. ~(k < m) /\ ~(m < k)
  BY <1>1, <1>2
<1>4. k = m
  BY <1>1, <1>2, <1>3
<1>. QED
  BY <1>1, <1>4 DEF k

\* A text with a tag is what is before it, the tag, and what is after it.
LEMMA AroundTag ==
  ASSUME NEW A, NEW s \in Seq(A), NEW tag \in Tags, Has(tag, s)
  PROVE  /\ Before(tag, s) \in Seq(A) /\ After(tag, s) \in Seq(A) /\ tag \in Seq(A)
         /\ Len(Before(tag, s)) = Min(Places(tag, s)) - 1
         /\ Len(Before(tag, s)) + 2 + Len(After(tag, s)) = Len(s)
         /\ s = Before(tag, s) \o (tag \o After(tag, s))
         /\ \A i \in 1..Len(Before(tag, s)) : Before(tag, s)[i] = s[i]
<1>. DEFINE m == Min(Places(tag, s))
<1>1. m \in 1..(Len(s) - 1) /\ At(tag, s, m) /\ Len(s) \in Nat
  BY FirstPlace, LenProperties
<1>. HIDE DEF m
<1>2. \A i \in 1..Len(s) : s[i] \in A
  BY ElementOfSeq
<1>. DEFINE b == SubSeq(s, 1, m - 1)
            a == SubSeq(s, m + 2, Len(s))
            g == <<tag[1], tag[2]>>
<1>3. b \in Seq(A) /\ Len(b) = m - 1 /\ \A i \in 1..(m - 1) : b[i] = s[i]
  BY <1>1, <1>2, SubSeqProperties
<1>4. a \in Seq(A) /\ Len(a) = Len(s) - m - 1 /\ \A i \in 1..(Len(s) - m - 1) : a[i] = s[m + 1 + i]
  BY <1>1, <1>2, SubSeqProperties
<1>. HIDE DEF a, b
<1>a. s[m] \in A /\ s[m + 1] \in A /\ tag[1] = s[m] /\ tag[2] = s[m + 1]
  BY <1>1, <1>2 DEF At
<1>5. g \in Seq(A) /\ Len(g) = 2 /\ g[1] = s[m] /\ g[2] = s[m + 1]
  BY <1>a
<1>. HIDE DEF g
<1>6. /\ g \o a \in Seq(A) /\ Len(g \o a) = Len(s) - m + 1
      /\ \A i \in 1..(Len(s) - m + 1) : (g \o a)[i] = s[m - 1 + i]
  <2>1. /\ g \o a \in Seq(A) /\ Len(g \o a) = Len(s) - m + 1
        /\ \A i \in 1..(Len(s) - m + 1) : (g \o a)[i] = IF i <= 2 THEN g[i] ELSE a[i - 2]
    <3>1. /\ g \o a \in Seq(A) /\ Len(g \o a) = Len(g) + Len(a)
          /\ \A i \in 1..(Len(g) + Len(a)) : (g \o a)[i] = IF i <= Len(g) THEN g[i] ELSE a[i - Len(g)]
      BY <1>4, <1>5, ConcatProperties
    <3>2. Len(g) + Len(a) = Len(s) - m + 1
      BY <1>1, <1>4, <1>5
    <3>. QED
      BY <3>1, <3>2, <1>5
  <2>. DEFINE v == g \o a
  <2>a. \A i \in 1..(Len(s) - m + 1) : v[i] = IF i <= 2 THEN g[i] ELSE a[i - 2]
    BY <2>1
  <2>. HIDE DEF v
  <2>2. ASSUME NEW i \in 1..(Len(s) - m + 1) PROVE v[i] = s[m - 1 + i]
    <3>0. v[i] = IF i <= 2 THEN g[i] ELSE a[i - 2]
      BY <2>a
    <3>1. CASE i = 1
      BY <3>1, <3>0, <1>5, <1>1
    <3>2. CASE i = 2
      BY <3>2, <3>0, <1>5, <1>1
    <3>3. CASE i > 2
      <4>1. i - 2 \in 1..(Len(s) - m - 1) /\ m + 1 + (i - 2) = m - 1 + i
        BY <3>3, <1>1
      <4>2. a[i - 2] = s[m + 1 + (i - 2)]
        BY <4>1, <1>4
      <4>3. v[i] = a[i - 2]
        BY <3>0, <3>3
      <4>. QED
        BY <4>1, <4>2, <4>3
    <3>4. i \in Nat \ {0}
      BY <1>1
    <3>. QED
      BY <3>1, <3>2, <3>3, <3>4
  <2>. QED
    BY <2>1, <2>2 DEF v
<1>. DEFINE w == b \o (g \o a)
<1>7. w \in Seq(A) /\ Len(w) = Len(s) /\ \A i \in 1..Len(s) : w[i] = s[i]
  <2>1. /\ w \in Seq(A) /\ Len(w) = Len(s)
        /\ \A i \in 1..Len(s) : w[i] = IF i <= m - 1 THEN b[i] ELSE (g \o a)[i - (m - 1)]
    <3>. DEFINE v == g \o a
                u == b \o v
    <3>1. v \in Seq(A) /\ Len(v) = Len(s) - m + 1
      BY <1>6
    <3>. HIDE DEF v
    <3>2. /\ u \in Seq(A) /\ Len(u) = Len(b) + Len(v)
          /\ \A i \in 1..(Len(b) + Len(v)) : u[i] = IF i <= Len(b) THEN b[i] ELSE v[i - Len(b)]
      BY <1>3, <3>1, ConcatProperties
    <3>3. Len(b) + Len(v) = Len(s) /\ Len(b) = m - 1
      BY <1>1, <1>3, <3>1
    <3>. HIDE DEF u
    <3>4. /\ u \in Seq(A) /\ Len(u) = Len(s)
          /\ \A i \in 1..Len(s) : u[i] = IF i <= m - 1 THEN b[i] ELSE v[i - (m - 1)]
      BY <3>2, <3>3
    <3>. QED
      BY <3>4 DEF u, v
  <2>. HIDE DEF w
  <2>2. ASSUME NEW i \in 1..Len(s) PROVE w[i] = s[i]
    <3>1. CASE i <= m - 1
      BY <3>1, <2>1, <1>1, <1>3
    <3>2. CASE i > m - 1
      <4>1. i - (m - 1) \in 1..(Len(s) - m + 1) /\ m - 1 + (i - (m - 1)) = i
        BY <3>2, <1>1
      <4>2. (g \o a)[i - (m - 1)] = s[m - 1 + (i - (m - 1))]
        BY <4>1, <1>6
      <4>3. ~(i <= m - 1)
        BY <3>2, <1>1
      <4>4. w[i] = (g \o a)[i - (m - 1)]
        BY <4>3, <2>1
      <4>. QED
        BY <4>1, <4>2, <4>4
    <3>. QED
      BY <3>1, <3>2, <1>1
  <2>. QED
    BY <2>1, <2>2
<1>. HIDE DEF w
<1>8. w = s
  BY <1>7, SeqEqual
<1>9. g = tag
  BY TagSymbols DEF g
<1>10. Before(tag, s) = b /\ After(tag, s) = a /\ Min(Places(tag, s)) = m
  BY DEF Before, After, m, a, b
<1>11. s = b \o (tag \o a)
  BY <1>8, <1>9 DEF w
<1>12. /\ b \in Seq(A) /\ a \in Seq(A) /\ tag \in Seq(A)
       /\ Len(b) = m - 1 /\ Len(b) + 2 + Len(a) = Len(s)
       /\ \A i \in 1..Len(b) : b[i] = s[i]
  BY <1>1, <1>3, <1>4, <1>5, <1>9
<1>. QED
  BY <1>10, <1>11, <1>12

-----------------------------------------------------------------------------
(* What is visible of a text.                                              *)

\* The parts of a text may be looked at one by one.
LEMMA InkConcat ==
  ASSUME NEW s \in Seq(Letters), NEW t \in Seq(Letters)
  PROVE  Ink(s \o t) = Ink(s) \o Ink(t)
BY KeptConcat DEF Ink

\* Ink is a text.
LEMMA InkType == ASSUME NEW s \in Seq(Letters) PROVE Ink(s) \in Seq(Letters)
BY KeptType DEF Ink

\* No text, no ink.
LEMMA InkEmpty == Ink(<<>>) = <<>>
BY KeptEmpty DEF Ink

\* Tags and blanks are not visible.
LEMMA InkMarks ==
  ASSUME NEW s \in Seq(Marks)
  PROVE  Ink(s) = <<>>
<1>1. Marks \cap (Letters \ Marks) = {}
  OBVIOUS
<1>. QED
  BY <1>1, KeptNone DEF Ink

\* A tag is made of marks.
LEMMA InkTag == ASSUME NEW tag \in Tags PROVE Ink(tag) = <<>> /\ tag \in Seq(Letters)
<1>1. OpenTag \in Seq(Marks) /\ CloseTag \in Seq(Marks)
  <2>1. "<" \in Marks /\ "</" \in Marks /\ "tool_call>" \in Marks
    BY DEF Marks, OpenTag, CloseTag
  <2>. HIDE DEF Marks
  <2>. QED
    BY <2>1 DEF OpenTag, CloseTag
<1>2. OpenTag \in Seq(Letters) /\ CloseTag \in Seq(Letters)
  BY DEF OpenTag, CloseTag, Letters, Symbols
<1>. QED
  BY <1>1, <1>2, InkMarks DEF Tags

\* A trimmed text has the same type and shows the same.
LEMMA TrimInk ==
  ASSUME NEW s \in Seq(Letters)
  PROVE  Trim(s) \in Seq(Letters) /\ Ink(Trim(s)) = Ink(s)
<1>. DEFINE ink == {i \in DOMAIN s : s[i] # Blank}
<1>0. Len(s) \in Nat /\ DOMAIN s = 1..Len(s) /\ \A i \in 1..Len(s) : s[i] \in Letters
  BY LenProperties, ElementOfSeq
<1>a. Blank \in Marks
  BY DEF Marks
<1>1. CASE ink = {}
  <2>1. \A i \in 1..Len(s) : s[i] \in Marks
    BY <1>0, <1>1, <1>a
  <2>2. s \in Seq(Marks)
    BY <1>0, <2>1, IsASeq
  <2>3. Trim(s) = <<>>
    BY <1>1 DEF Trim
  <2>. QED
    BY <2>2, <2>3, InkMarks, InkEmpty, EmptySeq
<1>2. CASE ink # {}
  <2>1. Trim(s) = SubSeq(s, Min(ink), Max(ink))
    BY <1>2 DEF Trim
  <2>2. ink \subseteq Nat /\ ink \subseteq 1..Len(s)
    BY <1>0
  <2>3. /\ Min(ink) \in ink /\ \A y \in ink : Min(ink) <= y
        /\ Max(ink) \in ink /\ \A y \in ink : y <= Max(ink)
    <3>. HIDE DEF ink
    <3>. QED
      BY <1>0, <1>2, <2>2, MinIs, MaxIs
  <2>. DEFINE m == Min(ink)
              n == Max(ink)
              front == SubSeq(s, 1, m - 1)
              body == SubSeq(s, m, n)
              back == SubSeq(s, n + 1, Len(s))
  <2>4. m \in 1..Len(s) /\ n \in m..Len(s)
    <3>1. m \in 1..Len(s) /\ n \in 1..Len(s) /\ m <= n
      <4>. HIDE DEF ink
      <4>. QED
        BY <2>2, <2>3
    <3>. HIDE DEF m, n
    <3>. QED
      BY <1>0, <3>1
  <2>5. /\ \A i \in 1..(m - 1) : s[i] \in Marks
        /\ \A i \in (n + 1)..Len(s) : s[i] \in Marks
    <3>1. \A i \in 1..Len(s) : s[i] \notin Marks => m <= i /\ i <= n
      BY <1>0, <1>a, <2>3
    <3>. HIDE DEF m, n
    <3>. QED
      BY <1>0, <2>4, <3>1
  <2>. HIDE DEF m, n
  <2>6. front \in Seq(Marks) /\ back \in Seq(Marks)
    BY <1>0, <2>4, <2>5, SubSeqProperties
  <2>7. front \in Seq(Letters) /\ body \in Seq(Letters) /\ back \in Seq(Letters)
    <3>1. \A i \in 1..(m - 1) : s[i] \in Letters
      BY <1>0, <2>4
    <3>2. \A i \in m..n : s[i] \in Letters
      BY <1>0, <2>4
    <3>3. \A i \in (n + 1)..Len(s) : s[i] \in Letters
      BY <1>0, <2>4
    <3>4. m \in Int /\ n \in Int /\ m - 1 \in Int /\ n + 1 \in Int /\ Len(s) \in Int
      BY <1>0, <2>4
    <3>. QED
      BY <3>1, <3>2, <3>3, <3>4, SubSeqProperties
  <2>8. s = front \o (body \o back)
    <3>1. body \o back = SubSeq(s, m, Len(s))
      <4>1. m \in 1..(Len(s) + 1) /\ n \in (m - 1)..Len(s) /\ Len(s) \in n..Len(s)
        BY <1>0, <2>4
      <4>. QED
        BY <4>1, ConcatAdjacentSubSeq
    <3>2. front \o SubSeq(s, m, Len(s)) = SubSeq(s, 1, Len(s))
      <4>. DEFINE k == m - 1
      <4>1. k \in 0..Len(s) /\ k + 1 = m
        BY <1>0, <2>4
      <4>. HIDE DEF k
      <4>2. SubSeq(s, 1, k) \o SubSeq(s, k + 1, Len(s)) = SubSeq(s, 1, Len(s))
        <5>1. 1 \in 1..(Len(s) + 1) /\ k \in (1 - 1)..Len(s) /\ Len(s) \in k..Len(s)
          BY <1>0, <4>1
        <5>. QED
          BY <5>1, ConcatAdjacentSubSeq
      <4>3. SubSeq(s, 1, k) \o SubSeq(s, m, Len(s)) = SubSeq(s, 1, Len(s))
        BY <4>1, <4>2
      <4>. QED
        BY <4>3 DEF k
    <3>. QED
      BY <3>1, <3>2, SubSeqFull
  <2>9. Trim(s) = body
    BY <2>1 DEF m, n
  <2>. HIDE DEF front, body, back
  <2>10. Ink(front) = <<>> /\ Ink(back) = <<>>
    BY <2>6, InkMarks
  <2>11. Ink(s) = Ink(front) \o (Ink(body) \o Ink(back))
    <3>1. body \o back \in Seq(Letters)
      BY <2>7, ConcatProperties
    <3>2. Ink(front \o (body \o back)) = Ink(front) \o Ink(body \o back)
      BY <2>7, <3>1, InkConcat
    <3>3. Ink(body \o back) = Ink(body) \o Ink(back)
      BY <2>7, InkConcat
    <3>. QED
      BY <2>8, <3>2, <3>3
  <2>12. Ink(s) = Ink(body)
    <3>1. Ink(body) \in Seq(Letters)
      BY <2>7, InkType
    <3>. QED
      BY <2>10, <2>11, <3>1, ConcatEmptySeq
  <2>. QED
    BY <2>7, <2>9, <2>12
<1>. QED
  BY <1>1, <1>2

\* What a tag splits shows what its two sides show.
LEMMA InkAround ==
  ASSUME NEW s \in Seq(Letters), NEW tag \in Tags, Has(tag, s)
  PROVE  /\ Before(tag, s) \in Seq(Letters) /\ After(tag, s) \in Seq(Letters)
         /\ Ink(s) = Ink(Before(tag, s)) \o Ink(After(tag, s))
<1>. DEFINE b == Before(tag, s)
            a == After(tag, s)
<1>1. b \in Seq(Letters) /\ a \in Seq(Letters) /\ tag \in Seq(Letters) /\ s = b \o (tag \o a)
  BY AroundTag
<1>. HIDE DEF a, b
<1>2. Ink(tag \o a) = Ink(tag) \o Ink(a) /\ tag \o a \in Seq(Letters)
  BY <1>1, InkConcat, ConcatProperties
<1>3. Ink(s) = Ink(b) \o Ink(tag \o a)
  BY <1>1, <1>2, InkConcat
<1>4. Ink(tag) \o Ink(a) = Ink(a)
  BY <1>1, InkTag, InkType, ConcatEmptySeq
<1>. QED
  BY <1>1, <1>2, <1>3, <1>4 DEF a, b

-----------------------------------------------------------------------------
(* The chunks an action writes.                                            *)

\* They are chunks.
LEMMA ChunkTypes ==
  ASSUME calls \in Nat, NEW s \in Seq(Letters)
  PROVE  /\ InitialChunks \in Seq(Chunks)
         /\ FinalChunks \in Seq(Chunks)
         /\ TextChunks(s) \in Seq(Chunks)
         /\ StopChunks \in Seq(Chunks)
         /\ CallChunks(s) \in Seq(Chunks)
         /\ FallbackChunks(s) \in Seq(Chunks)
         /\ ClosedChunks(s) \in Seq(Chunks)
         /\ ReopenChunks \in Seq(Chunks)
<1>1. \A k \in ChunkKinds, i \in Nat, t \in Seq(Letters) : Chunk(k, i, t) \in Chunks
  BY DEF Chunk, Chunks
<1>2. /\ <<>> \in Seq(Letters)
      /\ TextIndex \in Nat /\ TextIndex + 1 \in Nat /\ TextIndex + 2 \in Nat
  BY EmptySeq DEF TextIndex
<1>3. OpenTag \o s \o CloseTag \in Seq(Letters)
  BY InkTag, ConcatProperties DEF Tags
<1>. DEFINE t == OpenTag \o s \o CloseTag
            i == TextIndex
<1>. HIDE DEF t, i
<1>4. /\ \A c \in Chunks : <<c>> \in Seq(Chunks)
      /\ \A c \in Chunks, d \in Chunks : <<c, d>> \in Seq(Chunks)
      /\ \A c \in Chunks, d \in Chunks, e \in Chunks : <<c, d, e>> \in Seq(Chunks)
      /\ <<>> \in Seq(Chunks)
  BY EmptySeq
<1>5. \A k \in {"message_start", "text_start", "tool_start", "text", "args", "call",
               "stop", "finish_tools", "finish", "message_stop"} : k \in ChunkKinds
  BY DEF ChunkKinds
<1>6. InitialChunks \in Seq(Chunks)
  BY <1>1, <1>2, <1>4, <1>5 DEF InitialChunks
<1>7. FinalChunks \in Seq(Chunks)
  BY <1>1, <1>2, <1>4, <1>5 DEF FinalChunks
<1>8. TextChunks(s) \in Seq(Chunks)
  BY <1>1, <1>2, <1>4, <1>5 DEF TextChunks
<1>9. StopChunks \in Seq(Chunks)
  BY <1>1, <1>2, <1>4, <1>5 DEF StopChunks
<1>10. CallChunks(s) \in Seq(Chunks)
  BY <1>1, <1>2, <1>4, <1>5 DEF CallChunks
<1>11. FallbackChunks(s) \in Seq(Chunks)
  <2>1. FallbackChunks(s) = <<Chunk("text", IF protocol = "anthropic" THEN TextIndex + 1 ELSE 0, t)>>
    BY DEF FallbackChunks, t
  <2>2. t \in Seq(Letters)
    BY <1>3 DEF t
  <2>. QED
    BY <2>1, <2>2, <1>1, <1>2, <1>4, <1>5
<1>12. ReopenChunks \in Seq(Chunks)
  BY <1>1, <1>2, <1>4, <1>5 DEF ReopenChunks
<1>13. ClosedChunks(s) \in Seq(Chunks)
  BY <1>10, <1>11, <1>4 DEF ClosedChunks
<1>. QED
  BY <1>6, <1>7, <1>8, <1>9, <1>10, <1>11, <1>12, <1>13

-----------------------------------------------------------------------------
(* The loop of one request.                                                *)

\* A request that has begun is not the last.
Begun == phase \notin {"request", "start"} => turn < MaxTurns

\* Before it has begun nothing is left of the one before.
Fresh ==
  phase \in {"request", "start"} =>
    /\ answer = <<>> /\ fed = 0 /\ ~errored
    /\ pending = <<>> /\ ~inCall /\ buffer = <<>>
    /\ calls = 0 /\ out = <<>> /\ clean

\* A finished request has no rest of a delta; outside a call nothing is buffered; an
\* error ends the answer.
Drained == phase \in {"done", "failed"} => pending = <<>>
Outside == ~inCall => buffer = <<>>
Unfailed == phase = "open" => ~errored

\* Every call takes a symbol of the answer at least; an error text has no call.
Counted ==
  /\ errored => (pending = <<>> \/ pending = ErrorText) /\ calls <= fed
  /\ ~errored => calls + Len(pending) <= fed

MapperLoop == MapperTypeOK /\ Begun /\ Fresh /\ Drained /\ Outside /\ Unfailed /\ Counted

\* The types, as the provers need them.
LEMMA LoopFacts ==
  ASSUME MapperTypeOK
  PROVE  /\ answer \in Seq(Symbols) /\ answer \in Seq(Letters)
         /\ Len(answer) \in Nat /\ \A i \in 1..Len(answer) : answer[i] \in Letters
         /\ fed \in Nat /\ fed <= Len(answer)
         /\ calls \in Nat /\ calls <= Len(answer)
         /\ Len(pending) \in Nat
         /\ turn \in Nat /\ MaxTurns \in Nat
<1>1. answer \in Seq(Symbols)
  BY AnswersAssumption, EmptySeq DEF MapperTypeOK
<1>2. Len(answer) \in Nat /\ \A i \in 1..Len(answer) : answer[i] \in Symbols
  BY <1>1, LenProperties, ElementOfSeq
<1>3. \A i \in 1..Len(answer) : answer[i] \in Letters
  BY <1>2 DEF Letters
<1>4. answer \in Seq(Letters)
  BY <1>1, <1>3, <1>2, IsASeq
<1>5. Len(pending) \in Nat
  BY LenProperties DEF MapperTypeOK
<1>6. fed \in 0..Len(answer) /\ calls \in 0..Len(answer) /\ turn \in 1..MaxTurns
  BY DEF MapperTypeOK
<1>. QED
  BY <1>1, <1>2, <1>3, <1>4, <1>5, <1>6, MaxTurnsAssumption

\* What is quoted of some kinds is parts.
LEMMA PartsOfType ==
  ASSUME NEW kinds, NEW ps \in Seq(Parts)
  PROVE  PartsOf(kinds, ps) \in Seq(Parts) /\ Len(PartsOf(kinds, ps)) \in Nat
<1>1. PartsOf(kinds, ps) \in Seq(Parts)
  BY KeptType DEF PartsOf
<1>. QED
  BY <1>1, LenProperties

\* A prompt is the instructions, and what is quoted of the kinds the mapper looks at.
Quoted == CASE protocol = "anthropic" -> {"text", "call", "result"}
            [] protocol = "openai" -> {"text", "result"}
            [] protocol = "gemini" -> {"text"}

\* A prompt is the instructions and what is quoted of the messages.
LEMMA PromptIs ==
  ASSUME protocol \in Protocols, NEW declared \in BOOLEAN, NEW ps \in Seq(Parts)
  PROVE  /\ Prompt(declared, ps) = ToolInstructions(declared) \o PartsOf(Quoted, ps)
         /\ ToolInstructions(declared) \in Seq(Parts)
         /\ Prompt(declared, ps) \in Seq(Parts)
<1>1. protocol \in {"openai", "anthropic", "gemini"}
  BY ProtocolsAssumption
<1>2. Prompt(declared, ps) = ToolInstructions(declared) \o PartsOf(Quoted, ps)
  BY <1>1 DEF Prompt, Quoted, AnthropicPrompt, OpenAiPrompt, GeminiPrompt
<1>3. ToolInstructions(declared) \in Seq(Parts)
  <2>1. Part("tools", 0) \in Parts
    BY DEF Part, Parts, PartKinds
  <2>2. <<Part("tools", 0)>> \in Seq(Parts) /\ <<>> \in Seq(Parts)
    BY <2>1, EmptySeq
  <2>. QED
    BY <2>2 DEF ToolInstructions
<1>. QED
  BY <1>2, <1>3, PartsOfType, ConcatProperties

\* The parts of the client's messages after a reply.
LEMMA ReplyTypes ==
  ASSUME parts \in Seq(Parts), calls \in Nat
  PROVE  LET before == Len(PartsOf({"call"}, parts))
         IN  parts \o <<Part("text", 0)>>
                        \o [i \in 1..calls |-> Part("call", before + i)]
                        \o [i \in 1..calls |-> Part("result", before + i)] \in Seq(Parts)
<1>. DEFINE before == Len(PartsOf({"call"}, parts))
            cs == [i \in 1..calls |-> Part("call", before + i)]
            rs == [i \in 1..calls |-> Part("result", before + i)]
<1>1. before \in Nat
  BY PartsOfType
<1>. HIDE DEF before
<1>2. \A i \in 1..calls : Part("call", before + i) \in Parts /\ Part("result", before + i) \in Parts
  BY <1>1 DEF Part, Parts, PartKinds
<1>3. cs \in Seq(Parts) /\ rs \in Seq(Parts)
  BY <1>2, IsASeq
<1>4. <<Part("text", 0)>> \in Seq(Parts)
  BY DEF Part, Parts, PartKinds
<1>. HIDE DEF cs, rs
<1>5. parts \o <<Part("text", 0)>> \in Seq(Parts)
  BY <1>4, ConcatProperties
<1>6. parts \o <<Part("text", 0)>> \o cs \in Seq(Parts)
  BY <1>3, <1>5, ConcatProperties
<1>7. parts \o <<Part("text", 0)>> \o cs \o rs \in Seq(Parts)
  BY <1>3, <1>6, ConcatProperties
<1>. QED
  BY <1>7 DEF before, cs, rs

\* An error text has no tag in it.
LEMMA ErrorHasNoTag == ASSUME NEW tag \in Tags PROVE ~Has(tag, ErrorText) /\ ErrorText \in Seq(Letters)
<1>1. Len(ErrorText) = 1
  BY DEF ErrorText
<1>2. Places(tag, ErrorText) = {}
  BY <1>1 DEF Places
<1>. QED
  BY <1>2 DEF Has, ErrorText, Letters

\* The rest of the delta after a tag is shorter by two at least.
LEMMA AfterShorter ==
  ASSUME MapperTypeOK, NEW tag \in Tags, Has(tag, pending)
  PROVE  /\ After(tag, pending) \in Seq(Letters) /\ Before(tag, pending) \in Seq(Letters)
         /\ Len(After(tag, pending)) \in Nat
         /\ Len(After(tag, pending)) + 2 <= Len(pending)
<1>1. pending \in Seq(Letters)
  BY DEF MapperTypeOK
<1>2. /\ After(tag, pending) \in Seq(Letters) /\ Before(tag, pending) \in Seq(Letters)
      /\ Len(Before(tag, pending)) + 2 + Len(After(tag, pending)) = Len(pending)
  BY <1>1, AroundTag
<1>3. /\ Len(After(tag, pending)) \in Nat /\ Len(Before(tag, pending)) \in Nat
      /\ Len(pending) \in Nat
  BY <1>1, <1>2, LenProperties
<1>. QED
  BY <1>2, <1>3

\* The first state.
LEMMA MapperInitLoop == MapperInit => MapperLoop
<1>. SUFFICES ASSUME MapperInit PROVE MapperLoop
  OBVIOUS
<1>1. <<>> \in Seq(Letters) /\ <<>> \in Seq(Parts) /\ <<>> \in Seq(Chunks) /\ Len(<<>>) = 0
  BY EmptySeq
<1>2. <<Part("text", 0)>> \in Seq(Parts)
  BY DEF Part, Parts, PartKinds
<1>3. MapperTypeOK
  <2>1. turn \in 1..MaxTurns /\ fed \in 0..Len(answer) /\ calls \in 0..Len(answer)
    BY <1>1, MaxTurnsAssumption DEF MapperInit
  <2>2. parts \in Seq(Parts) /\ prompt \in Seq(Parts) /\ out \in Seq(Chunks)
    BY <1>1, <1>2 DEF MapperInit
  <2>3. answer \in Answers \cup {<<>>} /\ pending \in Seq(Letters) /\ buffer \in Seq(Letters)
    BY <1>1 DEF MapperInit
  <2>. QED
    BY <2>1, <2>2, <2>3 DEF MapperInit, MapperTypeOK, Phases
<1>. QED
  BY <1>1, <1>3 DEF MapperInit, MapperLoop, Begun, Fresh, Drained, Outside, Unfailed, Counted

\* Each action keeps these facts.
LEMMA MapperNextLoop == MapperLoop /\ [MapperNext]_mapperVars => MapperLoop'
<1>. SUFFICES ASSUME MapperLoop, [MapperNext]_mapperVars PROVE MapperLoop'
  OBVIOUS
<1>. USE DEF request, conversation
<1>0. MapperTypeOK /\ Begun /\ Fresh /\ Drained /\ Outside /\ Unfailed /\ Counted
  BY DEF MapperLoop
<1>f. /\ answer \in Seq(Letters) /\ Len(answer) \in Nat
      /\ \A i \in 1..Len(answer) : answer[i] \in Letters
      /\ fed \in Nat /\ fed <= Len(answer)
      /\ calls \in Nat /\ calls <= Len(answer)
      /\ Len(pending) \in Nat
      /\ turn \in Nat /\ MaxTurns \in Nat
  BY <1>0, LoopFacts
<1>e. <<>> \in Seq(Letters) /\ <<>> \in Seq(Chunks) /\ Len(<<>>) = 0
  BY EmptySeq
<1>t. /\ OpenTag \in Tags /\ CloseTag \in Tags
      /\ ErrorText \in Seq(Letters) /\ Len(ErrorText) = 1
      /\ ~Has(OpenTag, ErrorText) /\ ~Has(CloseTag, ErrorText)
  BY ErrorHasNoTag DEF Tags, ErrorText
<1>. USE DEF Begun, Fresh, Drained, Outside, Unfailed, Counted
<1>1. CASE Ask
  <2>1. prompt' \in Seq(Parts)
    BY <1>1, <1>0, PromptIs DEF Ask, MapperTypeOK
  <2>2. MapperTypeOK'
    BY <1>1, <1>0, <2>1 DEF Ask, MapperTypeOK, Phases
  <2>. QED
    BY <1>1, <1>0, <2>2 DEF Ask, MapperLoop
<1>2. CASE RefuseAtOnce
  <2>1. MapperTypeOK'
    BY <1>2, <1>0 DEF RefuseAtOnce, MapperTypeOK, Phases
  <2>. QED
    BY <1>2, <1>0, <1>e, <2>1 DEF RefuseAtOnce, MapperLoop
<1>3. CASE Start
  <2>1. out' \in Seq(Chunks)
    BY <1>3, <1>0, <1>e, <1>f, ChunkTypes, ConcatProperties DEF Start, MapperTypeOK
  <2>2. answer' \in Answers /\ Len(answer') \in Nat
    BY <1>3, AnswersAssumption, LenProperties DEF Start
  <2>3. MapperTypeOK'
    BY <1>3, <1>0, <2>1, <2>2 DEF Start, MapperTypeOK, Phases
  <2>. QED
    BY <1>3, <1>0, <1>e, <2>3 DEF Start, MapperLoop
<1>4. CASE Deliver
  <2>1. PICK n \in 1..(Len(answer) - fed) :
              pending' = SubSeq(answer, fed + 1, fed + n) /\ fed' = fed + n
    BY <1>4 DEF Deliver
  <2>2. pending' \in Seq(Letters) /\ Len(pending') = n
    <3>1. fed + 1 \in Int /\ fed + n \in Int /\ fed + 1 <= fed + n /\ n = (fed + n) - (fed + 1) + 1
      BY <1>f
    <3>2. \A i \in (fed + 1)..(fed + n) : answer[i] \in Letters
      BY <1>f
    <3>. QED
      BY <2>1, <3>1, <3>2, SubSeqProperties
  <2>3. fed' \in 0..Len(answer) /\ fed' <= Len(answer)
    BY <2>1, <1>f
  <2>4. cut' \in BOOLEAN
    BY <1>4, <1>0 DEF Deliver, MapperTypeOK
  <2>5. MapperTypeOK'
    BY <1>4, <1>0, <2>2, <2>3, <2>4 DEF Deliver, MapperTypeOK
  <2>6. Counted'
    BY <1>4, <1>0, <1>e, <1>f, <2>1, <2>2 DEF Deliver
  <2>. QED
    BY <1>4, <1>0, <2>5, <2>6 DEF Deliver, MapperLoop
<1>5. CASE Fail
  <2>1. MapperTypeOK'
    BY <1>5, <1>0, <1>t DEF Fail, MapperTypeOK, Phases
  <2>2. Counted'
    BY <1>5, <1>0, <1>e, <1>f DEF Fail
  <2>. QED
    BY <1>5, <1>0, <2>1, <2>2 DEF Fail, MapperLoop
<1>6. CASE GiveUp
  <2>1. MapperTypeOK'
    BY <1>6, <1>0 DEF GiveUp, MapperTypeOK, Phases
  <2>. QED
    BY <1>6, <1>0, <2>1 DEF GiveUp, MapperLoop
<1>7. CASE EndEmpty
  <2>1. MapperTypeOK'
    BY <1>7, <1>0, <1>t DEF EndEmpty, MapperTypeOK, Phases
  <2>2. Counted'
    BY <1>7, <1>0, <1>e, <1>f DEF EndEmpty
  <2>. QED
    BY <1>7, <1>0, <2>1, <2>2 DEF EndEmpty, MapperLoop
<1>8. CASE End
  <2>1. out' \in Seq(Chunks)
    BY <1>8, <1>0, <1>e, <1>f, ChunkTypes, ConcatProperties DEF End, MapperTypeOK
  <2>2. MapperTypeOK'
    BY <1>8, <1>0, <2>1 DEF End, MapperTypeOK, Phases
  <2>. QED
    BY <1>8, <1>0, <2>2 DEF End, MapperLoop
<1>9. CASE Reply
  <2>1. parts' \in Seq(Parts)
    BY <1>9, <1>0, <1>f, ReplyTypes DEF Reply, MapperTypeOK
  <2>2. turn' \in 1..MaxTurns
    BY <1>9, <1>0, <1>f DEF Reply
  <2>3. /\ phase' = "request" /\ answer' = <<>> /\ fed' = 0 /\ ~errored' /\ pending' = <<>>
        /\ ~inCall' /\ errored' \in BOOLEAN /\ inCall' \in BOOLEAN
        /\ buffer' = <<>> /\ calls' = 0 /\ out' = <<>> /\ cut' = FALSE /\ clean' = TRUE
        /\ protocol' = protocol /\ tools' = tools /\ prompt' = prompt
    BY <1>9, <1>0 DEF Reply
  <2>a. fed' \in 0..Len(answer') /\ calls' \in 0..Len(answer')
    BY <2>3, <1>e
  <2>b. pending' \in Seq(Letters) /\ buffer' \in Seq(Letters) /\ out' \in Seq(Chunks)
    BY <2>3, <1>e
  <2>4. MapperTypeOK'
    BY <2>1, <2>2, <2>3, <2>a, <2>b, <1>0 DEF MapperTypeOK, Phases
  <2>. QED
    BY <2>3, <2>4, <1>e DEF MapperLoop
<1>10. CASE PassText
  <2>1. out' \in Seq(Chunks)
    BY <1>10, <1>0, <1>e, <1>f, ChunkTypes, ConcatProperties DEF PassText, MapperTypeOK
  <2>2. MapperTypeOK'
    BY <1>10, <1>0, <1>e, <2>1 DEF PassText, MapperTypeOK
  <2>. QED
    BY <1>10, <1>0, <1>e, <1>f, <2>2 DEF PassText, MapperLoop
<1>11. CASE OpenCall
  <2>1. /\ Before(OpenTag, pending) \in Seq(Letters) /\ After(OpenTag, pending) \in Seq(Letters)
        /\ Len(After(OpenTag, pending)) \in Nat
        /\ Len(After(OpenTag, pending)) + 2 <= Len(pending)
    BY <1>11, <1>0, <1>t, AfterShorter DEF OpenCall
  <2>2. out' \in Seq(Chunks)
    <3>1. out \in Seq(Chunks) /\ TextChunks(Before(OpenTag, pending)) \in Seq(Chunks)
          /\ StopChunks \in Seq(Chunks)
      BY <1>0, <1>f, <2>1, ChunkTypes DEF MapperTypeOK
    <3>2. out \o TextChunks(Before(OpenTag, pending)) \in Seq(Chunks)
      BY <3>1, ConcatProperties
    <3>3. out \o TextChunks(Before(OpenTag, pending)) \o StopChunks \in Seq(Chunks)
      BY <3>1, <3>2, ConcatProperties
    <3>. QED
      BY <1>11, <3>3 DEF OpenCall
  <2>3. MapperTypeOK'
    BY <1>11, <1>0, <2>1, <2>2 DEF OpenCall, MapperTypeOK
  <2>4. ~errored
    BY <1>11, <1>0, <1>t DEF OpenCall
  <2>5. /\ pending' = After(OpenTag, pending) /\ errored' = errored /\ calls' = calls /\ fed' = fed
        /\ pending # <<>> /\ phase' = phase /\ inCall' = TRUE
    BY <1>11 DEF OpenCall
  <2>6. Counted'
    BY <2>1, <2>4, <2>5, <1>0, <1>f
  <2>. QED
    BY <1>11, <1>0, <2>3, <2>5, <2>6 DEF OpenCall, MapperLoop
<1>12. CASE KeepCall
  <2>1. buffer' \in Seq(Letters)
    BY <1>12, <1>0, ConcatProperties DEF KeepCall, MapperTypeOK
  <2>2. MapperTypeOK'
    BY <1>12, <1>0, <1>e, <2>1 DEF KeepCall, MapperTypeOK
  <2>. QED
    BY <1>12, <1>0, <1>e, <1>f, <2>2 DEF KeepCall, MapperLoop
<1>13. CASE CloseCall
  <2>. DEFINE body == Trim(buffer \o Before(CloseTag, pending))
  <2>1. /\ Before(CloseTag, pending) \in Seq(Letters) /\ After(CloseTag, pending) \in Seq(Letters)
        /\ Len(After(CloseTag, pending)) \in Nat
        /\ Len(After(CloseTag, pending)) + 2 <= Len(pending)
    BY <1>13, <1>0, <1>t, AfterShorter DEF CloseCall
  <2>2. body \in Seq(Letters)
    <3>1. buffer \o Before(CloseTag, pending) \in Seq(Letters)
      BY <1>0, <2>1, ConcatProperties DEF MapperTypeOK
    <3>. QED
      BY <3>1, TrimInk
  <2>3. /\ out' = out \o ClosedChunks(body) \o ReopenChunks
        /\ calls' = (IF IsJson(body) THEN calls + 1 ELSE calls)
        /\ clean' = (clean /\ IsJson(body))
        /\ pending # <<>> /\ inCall /\ Has(CloseTag, pending)
        /\ pending' = After(CloseTag, pending) /\ errored' = errored /\ fed' = fed
        /\ phase' = phase /\ inCall' = FALSE /\ buffer' = <<>> /\ cut' = cut
        /\ UNCHANGED request
    BY <1>13 DEF CloseCall
  <2>. HIDE DEF body
  <2>4. out' \in Seq(Chunks)
    <3>1. out \in Seq(Chunks) /\ ClosedChunks(body) \in Seq(Chunks)
          /\ ReopenChunks \in Seq(Chunks)
      BY <1>0, <1>f, <2>2, ChunkTypes DEF MapperTypeOK
    <3>2. out \o ClosedChunks(body) \in Seq(Chunks)
      BY <3>1, ConcatProperties
    <3>3. out \o ClosedChunks(body) \o ReopenChunks \in Seq(Chunks)
      BY <3>1, <3>2, ConcatProperties
    <3>. QED
      BY <2>3, <3>3
  <2>5. ~errored
    BY <2>3, <1>0, <1>t
  <2>6. calls' \in Nat /\ calls' + Len(pending') <= fed
    BY <2>1, <2>3, <2>5, <1>0, <1>f
  <2>7. calls' \in 0..Len(answer)
    BY <2>1, <2>3, <2>6, <1>f
  <2>8. clean' \in BOOLEAN /\ pending' \in Seq(Letters) /\ buffer' \in Seq(Letters)
    BY <2>1, <2>3, <1>0, <1>e DEF MapperTypeOK
  <2>9. MapperTypeOK'
    BY <1>0, <2>3, <2>4, <2>7, <2>8 DEF MapperTypeOK
  <2>. QED
    BY <1>0, <2>3, <2>5, <2>6, <2>9 DEF MapperLoop
<1>14. CASE UNCHANGED mapperVars
  BY <1>14, <1>0 DEF mapperVars, MapperLoop, MapperTypeOK
<1>. QED
  BY <1>1, <1>2, <1>3, <1>4, <1>5, <1>6, <1>7, <1>8, <1>9, <1>10, <1>11, <1>12, <1>13, <1>14
     DEF MapperNext

\* The state of a translation has its types, and the loop leaves nothing behind: a
\* request starts fresh, and none ends with a rest of a delta.
THEOREM MapperTypes == MapperSpec => [](MapperTypeOK /\ MapperLoop)
<1>1. MapperLoop => MapperTypeOK
  BY DEF MapperLoop
<1>. QED
  BY <1>1, MapperInitLoop, MapperNextLoop, PTL DEF MapperSpec

-----------------------------------------------------------------------------
(* Nothing is lost.                                                        *)

\* How texts are put together.
LEMMA TextAlgebra ==
  /\ \A x \in Seq(Letters), y \in Seq(Letters) : Joined(x, y) \in Seq(Letters)
  /\ \A x \in Seq(Letters), y \in Seq(Letters), z \in Seq(Letters) :
       Joined(Joined(x, y), z) = Joined(x, Joined(y, z))
  /\ \A x \in Seq(Letters) : Joined(x, <<>>) = x /\ Joined(<<>>, x) = x
  /\ <<>> \in Seq(Letters)
BY ConcatProperties, ConcatAssociative, ConcatEmptySeq, EmptySeq DEF Joined

\* What is visible of two texts together, and the text of chunks together.
LEMMA InkJoined ==
  /\ \A s \in Seq(Letters) : Ink(s) \in Seq(Letters)
  /\ \A s \in Seq(Letters), t \in Seq(Letters) : Ink(Joined(s, t)) = Joined(Ink(s), Ink(t))
  /\ Ink(<<>>) = <<>>
BY InkConcat, InkType, InkEmpty DEF Joined

\* How the texts of two streams are put together.
LEMMA TextsJoined ==
  /\ \A s \in Seq(Chunks) : Texts(s) \in Seq(Letters)
  /\ \A s \in Seq(Chunks), t \in Seq(Chunks) :
       Joined(s, t) \in Seq(Chunks) /\ Texts(Joined(s, t)) = Joined(Texts(s), Texts(t))
<1>1. Chunk("finish", 0, <<>>) \in Chunks
  BY EmptySeq DEF Chunk, Chunks, ChunkKinds
<1>. QED
  BY <1>1, TextsAppend, TextsConcat, ConcatProperties DEF Joined

\* Two or three chunks.
LEMMA TextsFew ==
  ASSUME NEW c \in Chunks, NEW d \in Chunks, NEW e \in Chunks
  PROVE  /\ Texts(<<c, d>>) = Joined(c.text, d.text)
         /\ Texts(<<c, d, e>>) = Joined(Joined(c.text, d.text), e.text)
<1>1. <<c>> \in Seq(Chunks) /\ <<c, d>> \in Seq(Chunks)
  OBVIOUS
<1>2. <<c, d>> = Append(<<c>>, d) /\ <<c, d, e>> = Append(<<c, d>>, e)
  OBVIOUS
<1>3. Texts(<<c>>) = c.text
  BY TextsOne
<1>. QED
  BY <1>1, <1>2, <1>3, TextsAppend DEF Joined

\* Chunks that only mark where blocks start and end have no text; the others have
\* the text they are made from.
LEMMA ChunkTexts ==
  ASSUME calls \in Nat, NEW s \in Seq(Letters)
  PROVE  /\ Texts(InitialChunks) = <<>> /\ Texts(FinalChunks) = <<>>
         /\ Texts(StopChunks) = <<>> /\ Texts(ReopenChunks) = <<>>
         /\ Texts(TextChunks(s)) = s
         /\ Texts(CallChunks(s)) = s
         /\ Texts(FallbackChunks(s)) = Joined(Joined(OpenTag, s), CloseTag)
<1>1. \A k \in ChunkKinds, i \in Nat, t \in Seq(Letters) :
         Chunk(k, i, t) \in Chunks /\ Chunk(k, i, t).text = t
  BY DEF Chunk, Chunks
<1>2. /\ TextIndex \in Nat /\ TextIndex + 1 \in Nat /\ TextIndex + 2 \in Nat
      /\ <<>> \in Seq(Letters) /\ Joined(<<>>, <<>>) = <<>>
      /\ Joined(s, <<>>) = s /\ Joined(<<>>, s) = s
  <2>1. TextIndex \in Nat /\ TextIndex + 1 \in Nat /\ TextIndex + 2 \in Nat
    BY DEF TextIndex
  <2>. QED
    BY <2>1, TextAlgebra
<1>3. \A k \in {"message_start", "text_start", "tool_start", "text", "args", "call",
               "stop", "finish_tools", "finish", "message_stop"} : k \in ChunkKinds
  BY DEF ChunkKinds
<1>4. Joined(Joined(OpenTag, s), CloseTag) \in Seq(Letters)
  BY InkTag, TextAlgebra DEF Tags
<1>. DEFINE t == Joined(Joined(OpenTag, s), CloseTag)
            i == TextIndex
<1>. HIDE DEF t, i
<1>5. \A k \in ChunkKinds, j \in Nat, u \in Seq(Letters) : Texts(<<Chunk(k, j, u)>>) = u
  BY <1>1, TextsOne
<1>6. Texts(InitialChunks) = <<>>
  <2>1. Chunk("message_start", 0, <<>>) \in Chunks /\ Chunk("text_start", 0, <<>>) \in Chunks
        /\ Chunk("message_start", 0, <<>>).text = <<>> /\ Chunk("text_start", 0, <<>>).text = <<>>
    BY <1>1, <1>2, <1>3
  <2>. QED
    <3>. DEFINE a == Chunk("message_start", 0, <<>>)
                b == Chunk("text_start", 0, <<>>)
    <3>1. InitialChunks = IF protocol = "anthropic" THEN <<a, b>> ELSE <<>>
      BY DEF InitialChunks
    <3>. HIDE DEF a, b
    <3>2. a \in Chunks /\ b \in Chunks /\ a.text = <<>> /\ b.text = <<>>
      BY <2>1 DEF a, b
    <3>3. Texts(<<a, b>>) = Joined(a.text, b.text)
      BY <3>2, TextsFew
    <3>4. Texts(<<a, b>>) = <<>>
      BY <1>2, <3>2, <3>3
    <3>. QED
      BY <3>1, <3>4, TextsEmpty
<1>7. Texts(FinalChunks) = <<>>
  <2>. DEFINE a == Chunk("stop", TextIndex, <<>>)
              b == Chunk(IF calls > 0 THEN "finish_tools" ELSE "finish", 0, <<>>)
              c == Chunk("message_stop", 0, <<>>)
  <2>1. /\ a \in Chunks /\ b \in Chunks /\ c \in Chunks
        /\ a.text = <<>> /\ b.text = <<>> /\ c.text = <<>>
    BY <1>1, <1>2, <1>3
  <2>2. Texts(<<Chunk("finish", 0, <<>>)>>) = <<>>
    BY <1>2, <1>3, <1>5
  <2>3. FinalChunks = IF protocol = "anthropic" THEN <<a, b, c>> ELSE <<Chunk("finish", 0, <<>>)>>
    BY DEF FinalChunks
  <2>. HIDE DEF a, b, c
  <2>a. a \in Chunks /\ b \in Chunks /\ c \in Chunks
    BY <2>1
  <2>4. Texts(<<a, b, c>>) = Joined(Joined(a.text, b.text), c.text)
    BY <2>a, TextsFew
  <2>5. Texts(<<a, b, c>>) = <<>>
    BY <1>2, <2>1, <2>4
  <2>. QED
    BY <2>2, <2>3, <2>5
<1>8. Texts(StopChunks) = <<>>
  BY <1>2, <1>3, <1>5, TextsEmpty DEF StopChunks
<1>9. Texts(ReopenChunks) = <<>>
  BY <1>2, <1>3, <1>5, TextsEmpty DEF ReopenChunks
<1>10. Texts(TextChunks(s)) = s
  BY <1>2, <1>3, <1>5, TextsEmpty DEF TextChunks
<1>11. Texts(CallChunks(s)) = s
  <2>. DEFINE a == Chunk("tool_start", TextIndex + 1, <<>>)
              b == Chunk("args", TextIndex + 1, s)
              c == Chunk("stop", TextIndex + 1, <<>>)
  <2>1. /\ a \in Chunks /\ b \in Chunks /\ c \in Chunks
        /\ a.text = <<>> /\ b.text = s /\ c.text = <<>>
    BY <1>1, <1>2, <1>3
  <2>2. Texts(<<Chunk("call", calls, s)>>) = s
    BY <1>3, <1>5
  <2>3. CallChunks(s) = IF protocol = "anthropic" THEN <<a, b, c>> ELSE <<Chunk("call", calls, s)>>
    BY DEF CallChunks
  <2>. HIDE DEF a, b, c
  <2>4. Texts(<<a, b, c>>) = Joined(Joined(a.text, b.text), c.text)
    BY <2>1, TextsFew
  <2>5. Texts(<<a, b, c>>) = s
    BY <1>2, <2>1, <2>4
  <2>. QED
    BY <2>2, <2>3, <2>5
<1>12. Texts(FallbackChunks(s)) = Joined(Joined(OpenTag, s), CloseTag)
  <2>1. FallbackChunks(s) = <<Chunk("text", IF protocol = "anthropic" THEN TextIndex + 1 ELSE 0, t)>>
    BY DEF FallbackChunks, Joined, t
  <2>2. t \in Seq(Letters)
    BY <1>4 DEF t
  <2>3. (IF protocol = "anthropic" THEN TextIndex + 1 ELSE 0) \in Nat
    BY <1>2
  <2>4. Texts(FallbackChunks(s)) = t
    BY <1>3, <1>5, <2>1, <2>2, <2>3
  <2>. QED
    BY <2>4 DEF t
<1>. QED
  BY <1>6, <1>7, <1>8, <1>9, <1>10, <1>11, <1>12

\* However a call ends, what is written of it shows what it had.
LEMMA ClosedInk ==
  ASSUME calls \in Nat, NEW s \in Seq(Letters)
  PROVE  Ink(Texts(ClosedChunks(s))) = Ink(s)
<1>1. CASE s = <<>>
  <2>0. ~IsJson(s)
    BY <1>1, EmptySeq DEF IsJson
  <2>1. ClosedChunks(s) = <<>>
    BY <1>1, <2>0 DEF ClosedChunks
  <2>. QED
    BY <1>1, <2>1, TextsEmpty
<1>2. CASE s # <<>> /\ IsJson(s)
  BY <1>2, ChunkTexts DEF ClosedChunks
<1>3. CASE s # <<>> /\ ~IsJson(s)
  <2>1. Texts(ClosedChunks(s)) = Joined(Joined(OpenTag, s), CloseTag)
    BY <1>3, ChunkTexts DEF ClosedChunks
  <2>2. /\ OpenTag \in Seq(Letters) /\ CloseTag \in Seq(Letters)
        /\ Ink(OpenTag) = <<>> /\ Ink(CloseTag) = <<>>
    BY InkTag DEF Tags
  <2>3. Joined(OpenTag, s) \in Seq(Letters) /\ Ink(Joined(OpenTag, s)) = Joined(<<>>, Ink(s))
    BY <2>2, TextAlgebra, InkJoined
  <2>4. Ink(Joined(Joined(OpenTag, s), CloseTag)) = Joined(Joined(<<>>, Ink(s)), <<>>)
    BY <2>2, <2>3, InkJoined
  <2>. QED
    BY <2>1, <2>4, InkJoined, TextAlgebra
<1>. QED
  BY <1>1, <1>2, <1>3

\* What the chunks written so far show, and what came in.
Shown == Ink(Texts(out))

\* NothingLost in terms of Shown, with the types of its parts.
LEMMA ShownIs ==
  ASSUME MapperTypeOK
  PROVE  /\ Shown \in Seq(Letters) /\ Ink(buffer) \in Seq(Letters) /\ Ink(pending) \in Seq(Letters)
         /\ Ink(Texts(out) \o buffer \o pending) = Joined(Joined(Shown, Ink(buffer)), Ink(pending))
         /\ Answered \in Seq(Letters)
         /\ Given \in Seq(Letters)
<1>1. Texts(out) \in Seq(Letters) /\ buffer \in Seq(Letters) /\ pending \in Seq(Letters)
  BY TextsJoined DEF MapperTypeOK
<1>2. Joined(Texts(out), buffer) \in Seq(Letters)
  BY <1>1, TextAlgebra
<1>3. Ink(Joined(Joined(Texts(out), buffer), pending)) = Joined(Joined(Shown, Ink(buffer)), Ink(pending))
  BY <1>1, <1>2, InkJoined DEF Shown
<1>4. Answered \in Seq(Letters)
  <2>1. \A i \in 1..fed : answer[i] \in Letters
    BY LoopFacts
  <2>2. fed \in Int
    BY LoopFacts
  <2>. QED
    BY <2>1, <2>2, SubSeqProperties DEF Answered
<1>5. Given \in Seq(Letters)
  <2>1. Joined(Answered, ErrorText) \in Seq(Letters) /\ Joined(Answered, <<>>) \in Seq(Letters)
    BY <1>4, TextAlgebra, ErrorHasNoTag DEF Tags
  <2>. QED
    BY <2>1 DEF Given, Joined
<1>6. Joined(Joined(Texts(out), buffer), pending) = Texts(out) \o buffer \o pending
  BY DEF Joined
<1>. QED
  BY <1>1, <1>3, <1>4, <1>5, <1>6, InkJoined DEF Shown

\* An error text comes after the answer.
LEMMA GivenIs ==
  ASSUME MapperTypeOK
  PROVE  Given = IF errored THEN Joined(Answered, ErrorText) ELSE Answered
<1>1. Answered \in Seq(Letters) /\ Joined(Answered, <<>>) = Answered
  BY ShownIs, TextAlgebra
<1>. QED
  BY <1>1 DEF Given, Joined

\* More chunks show more.
LEMMA ShownMore ==
  ASSUME MapperTypeOK, NEW s \in Seq(Chunks), out' = Joined(out, s)
  PROVE  Shown' = Joined(Shown, Ink(Texts(s)))
<1>1. out \in Seq(Chunks)
  BY DEF MapperTypeOK
<1>2. Texts(out') = Joined(Texts(out), Texts(s))
  BY <1>1, TextsJoined
<1>3. Texts(out) \in Seq(Letters) /\ Texts(s) \in Seq(Letters)
  BY <1>1, TextsJoined
<1>. QED
  BY <1>2, <1>3, InkJoined DEF Shown

\* NothingLost, part by part.
Balanced == Joined(Joined(Shown, Ink(buffer)), Ink(pending)) = Ink(Given)

\* Each action keeps the balance.
LEMMA NextBalanced ==
  MapperLoop /\ MapperLoop' /\ Balanced /\ [MapperNext]_mapperVars => Balanced'
<1>. SUFFICES ASSUME MapperLoop, MapperLoop', Balanced, [MapperNext]_mapperVars
              PROVE  Balanced'
  OBVIOUS
<1>. USE DEF request, conversation
<1>0. /\ MapperTypeOK /\ MapperTypeOK' /\ Fresh /\ Drained /\ Outside /\ Unfailed
  BY DEF MapperLoop
<1>f. calls \in Nat /\ fed \in Nat /\ Len(answer) \in Nat /\ answer \in Seq(Letters) /\ fed <= Len(answer)
  BY <1>0, LoopFacts
<1>s. /\ Shown \in Seq(Letters) /\ Ink(buffer) \in Seq(Letters) /\ Ink(pending) \in Seq(Letters)
      /\ Given \in Seq(Letters) /\ Answered \in Seq(Letters)
  BY <1>0, ShownIs
<1>t. OpenTag \in Tags /\ CloseTag \in Tags
  BY DEF Tags
<1>e. Ink(<<>>) = <<>> /\ Given = IF errored THEN Joined(Answered, ErrorText) ELSE Answered
  BY <1>0, InkEmpty, GivenIs
<1>l. pending \in Seq(Letters) /\ buffer \in Seq(Letters) /\ out \in Seq(Chunks)
  BY <1>0 DEF MapperTypeOK
<1>q. \A s \in Seq(Letters) : Ink(s) \in Seq(Letters)
  BY InkType
<1>h. ASSUME Answered' \in Seq(Letters)
      PROVE  Given' = IF errored' THEN Joined(Answered', ErrorText) ELSE Answered'
  <2>1. Joined(Answered', <<>>) = Answered'
    BY <1>h, TextAlgebra
  <2>. QED
    BY <2>1 DEF Given, Joined
<1>b. Joined(Joined(Shown, Ink(buffer)), Ink(pending)) = Ink(Given)
  BY DEF Balanced
\* A step that changes neither side.
<1>u. ASSUME Shown' = Shown, buffer' = buffer, pending' = pending, Given' = Given
      PROVE  Balanced'
  BY <1>u, <1>b DEF Balanced
<1>g. ASSUME answer' = answer, fed' = fed, errored' = errored PROVE Given' = Given
  BY <1>g DEF Given, Answered
<1>o. ASSUME out' = out PROVE Shown' = Shown
  BY <1>o DEF Shown
<1>1. CASE Ask \/ RefuseAtOnce \/ GiveUp \/ UNCHANGED mapperVars
  BY <1>1, <1>u, <1>g, <1>o DEF Ask, RefuseAtOnce, GiveUp, mapperVars
<1>2. CASE Start
  <2>1. Shown' = Shown
    <3>1. out' = Joined(out, InitialChunks) /\ InitialChunks \in Seq(Chunks)
      BY <1>2, <1>f, <1>l, ChunkTypes DEF Start, Joined
    <3>2. Ink(Texts(InitialChunks)) = <<>>
      BY <1>f, <1>l, <1>e, ChunkTexts
    <3>. QED
      BY <1>0, <1>s, <3>1, <3>2, ShownMore, TextAlgebra
  <2>2. Given' = Given
    <3>1. fed = 0 /\ fed' = 0 /\ errored' = errored
      BY <1>2, <1>0 DEF Start, Fresh
    <3>2. SubSeq(answer, 1, 0) = <<>> /\ SubSeq(answer', 1, 0) = <<>>
      BY SubSeqEmpty
    <3>3. Answered = <<>> /\ Answered' = <<>>
      BY <3>1, <3>2 DEF Answered
    <3>. QED
      BY <3>1, <3>3 DEF Given
  <2>. QED
    BY <1>2, <1>u, <2>1, <2>2 DEF Start
<1>3. CASE Deliver
  <2>1. PICK n \in 1..(Len(answer) - fed) :
              pending' = SubSeq(answer, fed + 1, fed + n) /\ fed' = fed + n
    BY <1>3 DEF Deliver
  <2>2. Answered' = Joined(Answered, pending')
    <3>1. /\ 1 \in 1..(Len(answer) + 1) /\ fed \in (1 - 1)..Len(answer)
          /\ fed + n \in fed..Len(answer)
      BY <1>f
    <3>2. SubSeq(answer, 1, fed) \o SubSeq(answer, fed + 1, fed + n) = SubSeq(answer, 1, fed + n)
      BY <1>f, <3>1, ConcatAdjacentSubSeq
    <3>. QED
      BY <1>3, <2>1, <3>2 DEF Answered, Deliver, Joined
  <2>3. pending = <<>> /\ buffer' = buffer /\ out' = out /\ ~errored /\ ~errored'
    BY <1>3, <1>0 DEF Deliver, Unfailed
  <2>4. pending' \in Seq(Letters)
    BY <1>0 DEF MapperTypeOK
  <2>5. Given' = Joined(Given, pending')
    <3>1. Answered' \in Seq(Letters)
      BY <2>2, <2>4, <1>s, TextAlgebra
    <3>. QED
      BY <3>1, <2>2, <2>3, <1>e, <1>h
  <2>6. Ink(Given') = Joined(Ink(Given), Ink(pending'))
    BY <2>4, <2>5, <1>s, InkJoined
  <2>7. Joined(Shown, Ink(buffer)) = Ink(Given)
    BY <1>b, <1>s, <1>e, <2>3, TextAlgebra
  <2>. QED
    BY <2>3, <2>6, <2>7, <1>o DEF Balanced
<1>4. CASE Fail \/ EndEmpty
  <2>1. /\ pending = <<>> /\ pending' = ErrorText /\ buffer' = buffer /\ out' = out
        /\ ~errored /\ errored' /\ answer' = answer /\ fed' = fed
    BY <1>4, <1>0 DEF Fail, EndEmpty, Unfailed
  <2>2. ErrorText \in Seq(Letters)
    BY <1>t, ErrorHasNoTag
  <2>3. Given' = Joined(Given, ErrorText)
    <3>1. Answered' = Answered
      BY <2>1 DEF Answered
    <3>. QED
      BY <3>1, <2>1, <1>s, <1>e, <1>h
  <2>4. Ink(Given') = Joined(Ink(Given), Ink(ErrorText))
    BY <2>2, <2>3, <1>s, InkJoined
  <2>5. Joined(Shown, Ink(buffer)) = Ink(Given)
    BY <1>b, <1>s, <1>e, <2>1, TextAlgebra
  <2>. QED
    BY <2>1, <2>4, <2>5, <1>o DEF Balanced
<1>5. CASE End
  <2>1. out' = Joined(out, FinalChunks) /\ FinalChunks \in Seq(Chunks)
    BY <1>5, <1>f, <1>l, ChunkTypes DEF End, Joined
  <2>2. Ink(Texts(FinalChunks)) = <<>>
    BY <1>f, <1>l, <1>e, ChunkTexts
  <2>3. Shown' = Shown
    BY <1>0, <1>s, <2>1, <2>2, ShownMore, TextAlgebra
  <2>. QED
    BY <1>5, <1>u, <1>g, <2>3 DEF End
<1>6. CASE Reply
  <2>1. /\ out' = <<>> /\ buffer' = <<>> /\ pending' = <<>>
        /\ answer' = <<>> /\ fed' = 0 /\ ~errored'
    BY <1>6, <1>0 DEF Reply, Drained
  <2>2. Answered' = <<>>
    BY <2>1, SubSeqEmpty DEF Answered
  <2>3. Given' = <<>>
    BY <2>1, <2>2, <1>h, TextAlgebra
  <2>4. Shown' = <<>>
    BY <2>1, <1>e, TextsEmpty DEF Shown
  <2>. QED
    BY <2>1, <2>3, <2>4, <1>e, TextAlgebra DEF Balanced
<1>7. CASE PassText
  <2>1. /\ out' = Joined(out, TextChunks(pending)) /\ pending' = <<>>
        /\ buffer = <<>> /\ buffer' = <<>> /\ Given' = Given
    BY <1>7, <1>0, <1>g DEF PassText, Outside, Joined
  <2>2. TextChunks(pending) \in Seq(Chunks) /\ Texts(TextChunks(pending)) = pending
    BY <1>f, <1>l, ChunkTypes, ChunkTexts
  <2>3. Shown' = Joined(Shown, Ink(pending))
    BY <1>0, <2>1, <2>2, ShownMore
  <2>4. Joined(Shown, Ink(pending)) = Ink(Given)
    BY <1>b, <1>s, <1>e, <2>1, TextAlgebra
  <2>5. Shown' \in Seq(Letters)
    BY <2>3, <1>s, TextAlgebra
  <2>. QED
    BY <2>1, <2>3, <2>4, <2>5, <1>e, TextAlgebra DEF Balanced
<1>8. CASE OpenCall
  <2>. DEFINE b == Before(OpenTag, pending)
              a == After(OpenTag, pending)
  <2>1. /\ out' = Joined(Joined(out, TextChunks(b)), StopChunks) /\ pending' = a
        /\ buffer = <<>> /\ buffer' = <<>> /\ Given' = Given
    BY <1>8, <1>0, <1>g DEF OpenCall, Outside, Joined
  <2>2. b \in Seq(Letters) /\ a \in Seq(Letters) /\ Ink(pending) = Joined(Ink(b), Ink(a))
    BY <1>8, <1>l, <1>t, InkAround DEF OpenCall, Joined
  <2>. HIDE DEF a, b
  <2>3. /\ TextChunks(b) \in Seq(Chunks) /\ StopChunks \in Seq(Chunks)
        /\ Texts(TextChunks(b)) = b /\ Texts(StopChunks) = <<>>
    BY <1>f, <2>2, ChunkTypes, ChunkTexts
  <2>4. Shown' = Joined(Shown, Ink(b))
    <3>1. out' = Joined(out, Joined(TextChunks(b), StopChunks))
      BY <1>l, <2>1, <2>3, ConcatAssociative DEF Joined
    <3>2. Joined(TextChunks(b), StopChunks) \in Seq(Chunks)
      BY <2>3, TextsJoined
    <3>3. Texts(Joined(TextChunks(b), StopChunks)) = b
      BY <2>2, <2>3, TextsJoined, TextAlgebra
    <3>. QED
      BY <1>0, <3>1, <3>2, <3>3, ShownMore
  <2>5. Joined(Shown, Joined(Ink(b), Ink(a))) = Ink(Given)
    BY <1>b, <1>s, <1>e, <2>1, <2>2, TextAlgebra
  <2>6. Joined(Joined(Shown, Ink(b)), Ink(a)) = Ink(Given)
    BY <2>5, <1>q, <1>s, <2>2, TextAlgebra
  <2>7. Joined(Joined(Shown', Ink(buffer')), Ink(pending')) = Ink(Given)
    BY <2>1, <2>2, <2>4, <2>6, <1>e, <1>q, <1>s, TextAlgebra
  <2>. QED
    BY <2>1, <2>7 DEF Balanced
<1>9. CASE KeepCall
  <2>1. /\ buffer' = Joined(buffer, pending) /\ pending' = <<>> /\ out' = out /\ Given' = Given
    BY <1>9, <1>g DEF KeepCall, Joined
  <2>2. Ink(buffer') = Joined(Ink(buffer), Ink(pending))
    BY <2>1, <1>l, InkJoined
  <2>3. Joined(Shown, Joined(Ink(buffer), Ink(pending))) = Ink(Given)
    BY <1>b, <1>s, TextAlgebra
  <2>4. Ink(Given) \in Seq(Letters)
    BY <1>q, <1>s
  <2>. QED
    BY <2>1, <2>2, <2>3, <2>4, <1>e, <1>o, TextAlgebra DEF Balanced
<1>10. CASE CloseCall
  <2>. DEFINE b == Before(CloseTag, pending)
              a == After(CloseTag, pending)
              body == Trim(Joined(buffer, b))
  <2>1. /\ out' = Joined(Joined(out, ClosedChunks(body)), ReopenChunks) /\ pending' = a
        /\ buffer' = <<>> /\ Given' = Given
    BY <1>10, <1>g DEF CloseCall, Joined
  <2>2. b \in Seq(Letters) /\ a \in Seq(Letters) /\ Ink(pending) = Joined(Ink(b), Ink(a))
    BY <1>10, <1>l, <1>t, InkAround DEF CloseCall, Joined
  <2>3. body \in Seq(Letters) /\ Ink(body) = Joined(Ink(buffer), Ink(b))
    <3>1. Joined(buffer, b) \in Seq(Letters) /\ Ink(Joined(buffer, b)) = Joined(Ink(buffer), Ink(b))
      BY <1>l, <2>2, TextAlgebra, InkJoined
    <3>. QED
      BY <3>1, TrimInk
  <2>. HIDE DEF a, b, body
  <2>4. /\ ClosedChunks(body) \in Seq(Chunks) /\ ReopenChunks \in Seq(Chunks)
        /\ Ink(Texts(ClosedChunks(body))) = Ink(body) /\ Texts(ReopenChunks) = <<>>
    BY <1>f, <2>3, ChunkTypes, ChunkTexts, ClosedInk
  <2>5. Shown' = Joined(Shown, Ink(body))
    <3>1. out' = Joined(out, Joined(ClosedChunks(body), ReopenChunks))
      BY <1>l, <2>1, <2>4, ConcatAssociative DEF Joined
    <3>2. Joined(ClosedChunks(body), ReopenChunks) \in Seq(Chunks)
      BY <2>4, TextsJoined
    <3>3. Texts(Joined(ClosedChunks(body), ReopenChunks)) = Texts(ClosedChunks(body))
      BY <2>4, TextsJoined, TextAlgebra
    <3>4. Shown' = Joined(Shown, Ink(Texts(Joined(ClosedChunks(body), ReopenChunks))))
      BY <1>0, <3>1, <3>2, ShownMore
    <3>. QED
      BY <2>4, <3>3, <3>4
  <2>6. Joined(Joined(Shown, Ink(buffer)), Joined(Ink(b), Ink(a))) = Ink(Given)
    BY <1>b, <2>2
  <2>7. /\ Shown \in Seq(Letters) /\ Ink(buffer) \in Seq(Letters)
        /\ Ink(b) \in Seq(Letters) /\ Ink(a) \in Seq(Letters)
    BY <1>q, <1>s, <2>2
  <2>8. Joined(Joined(Shown, Joined(Ink(buffer), Ink(b))), Ink(a)) = Ink(Given)
    BY <2>6, <2>7, TextAlgebra
  <2>9. Shown' \in Seq(Letters) /\ Joined(Shown', Ink(buffer')) = Shown'
    BY <2>1, <2>3, <2>5, <2>7, <1>e, TextAlgebra
  <2>. QED
    BY <2>1, <2>3, <2>5, <2>8, <2>9 DEF Balanced
<1>. QED
  BY <1>1, <1>2, <1>3, <1>4, <1>5, <1>6, <1>7, <1>8, <1>9, <1>10 DEF MapperNext

\* map_delta loses nothing and changes no order, for every set of answers and however they
\* are cut into deltas: the chunks, the buffered call and the rest of the delta are the
\* text that came in, up to tags and blanks.
THEOREM MapperKeeps == MapperSpec => []NothingLost
<1>1. MapperInit /\ MapperLoop => Balanced
  <2>. SUFFICES ASSUME MapperInit PROVE Balanced
    OBVIOUS
  <2>1. out = <<>> /\ buffer = <<>> /\ pending = <<>> /\ fed = 0 /\ ~errored
    BY DEF MapperInit
  <2>2. Given = <<>>
    BY <2>1, SubSeqEmpty, TextAlgebra DEF Given, Answered
  <2>3. Shown = <<>> /\ Ink(<<>>) = <<>>
    BY <2>1, TextsEmpty, InkEmpty DEF Shown
  <2>. QED
    BY <2>1, <2>2, <2>3, TextAlgebra DEF Balanced
<1>2. MapperLoop /\ Balanced => NothingLost
  BY ShownIs DEF MapperLoop, Balanced, NothingLost
<1>. QED
  BY <1>1, <1>2, MapperInitLoop, MapperNextLoop, NextBalanced, PTL DEF MapperSpec

-----------------------------------------------------------------------------
(* Results reach the model.                                                *)

\* A prompt has the results of the parts it is made of, and no other.
LEMMA PromptResults ==
  ASSUME protocol \in Protocols, protocol # "gemini", NEW declared \in BOOLEAN, NEW ps \in Seq(Parts)
  PROVE  PartsOf({"result"}, Prompt(declared, ps)) = PartsOf({"result"}, ps)
<1>. DEFINE R == [kind : {"result"}, call : Nat]
            K == [kind : Quoted, call : Nat]
            T == ToolInstructions(declared)
<1>1. Prompt(declared, ps) = T \o Kept(ps, K) /\ T \in Seq(Parts) /\ Kept(ps, K) \in Seq(Parts)
  BY PromptIs, KeptType DEF PartsOf
<1>2. "result" \in Quoted
  BY ProtocolsAssumption DEF Quoted
<1>3. Parts \cap R \subseteq K
  BY <1>2 DEF Parts
<1>4. Kept(Kept(ps, K), R) = Kept(ps, R)
  <2>. HIDE DEF K, R
  <2>. QED
    BY <1>3, KeptKept
<1>5. Kept(T, R) = <<>>
  <2>1. Part("tools", 0) \notin R
    BY DEF Part
  <2>. HIDE DEF R
  <2>2. Kept(<<Part("tools", 0)>>, R) = <<>> /\ Kept(<<>>, R) = <<>>
    BY <2>1, KeptOne, KeptEmpty
  <2>. QED
    BY <2>2 DEF ToolInstructions
<1>6. Kept(T \o Kept(ps, K), R) = Kept(T, R) \o Kept(Kept(ps, K), R)
  <2>. DEFINE t == Kept(ps, K)
  <2>1. T \in Seq(Parts) /\ t \in Seq(Parts)
    BY <1>1
  <2>. HIDE DEF R, T, t
  <2>2. Kept(T \o t, R) = Kept(T, R) \o Kept(t, R)
    BY <2>1, KeptConcat
  <2>. QED
    BY <2>2 DEF t
<1>7. <<>> \o Kept(ps, R) = Kept(ps, R)
  <2>1. Kept(ps, R) \in Seq(Parts)
    BY KeptType
  <2>. QED
    BY <2>1, ConcatEmptySeq
<1>8. Kept(Prompt(declared, ps), R) = Kept(ps, R)
  <2>. HIDE DEF K, R, T
  <2>. QED
    BY <1>1, <1>4, <1>5, <1>6, <1>7
<1>. QED
  BY <1>8 DEF PartsOf

\* A model that called tools is asked again with every result.
THEOREM MapperResults == MapperSpec => []ResultsReachModel
<1>1. MapperInit => ResultsReachModel
  BY DEF MapperInit, ResultsReachModel
<1>2. MapperLoop /\ ResultsReachModel /\ [MapperNext]_mapperVars => ResultsReachModel'
  <2>. SUFFICES ASSUME MapperLoop, ResultsReachModel, [MapperNext]_mapperVars
                PROVE  ResultsReachModel'
    OBVIOUS
  <2>1. CASE Ask
    <3>1. prompt' = Prompt(tools, parts) /\ protocol' = protocol /\ parts' = parts
      BY <2>1 DEF Ask
    <3>2. protocol \in Protocols /\ tools \in BOOLEAN /\ parts \in Seq(Parts)
      BY DEF MapperLoop, MapperTypeOK
    <3>3. protocol # "gemini" => PartsOf({"result"}, Prompt(tools, parts)) = PartsOf({"result"}, parts)
      BY <3>2, PromptResults
    <3>. QED
      BY <3>1, <3>3 DEF ResultsReachModel
  <2>2. CASE Reply
    BY <2>2 DEF Reply, ResultsReachModel
  <2>3. CASE UNCHANGED conversation /\ phase # "request"
    BY <2>3 DEF conversation, ResultsReachModel
  <2>4. CASE UNCHANGED mapperVars
    BY <2>4 DEF mapperVars, ResultsReachModel
  <2>5. CASE RefuseAtOnce \/ Start \/ Deliver \/ Fail \/ GiveUp \/ EndEmpty \/ End
    BY <2>3, <2>5 DEF RefuseAtOnce, Start, Deliver, Fail, GiveUp, EndEmpty, End, request, conversation
  <2>6. CASE PassText \/ OpenCall \/ KeepCall \/ CloseCall
    <3>1. phase # "request"
      BY <2>6 DEF PassText, OpenCall, KeepCall, CloseCall, MapperLoop, Fresh
    <3>2. UNCHANGED conversation
      BY <2>6 DEF PassText, OpenCall, KeepCall, CloseCall, request
    <3>. QED
      BY <2>3, <3>1, <3>2
  <2>. QED
    BY <2>1, <2>2, <2>4, <2>5, <2>6 DEF MapperNext
<1>. QED
  BY <1>1, <1>2, MapperInitLoop, MapperNextLoop, PTL DEF MapperSpec

-----------------------------------------------------------------------------
(* Blocks.                                                                 *)

\* The indexes of the blocks that are open after all of s.
Live(s) == {s[i].index : i \in OpenAt(s, Len(s) + 1)}

\* The chunks s nest, the blocks still open after them are those of the indexes live, and
\* no block has an index above top.
Sound(s, live, top) ==
  /\ Nested(s)
  /\ Live(s) = live
  /\ \A i \in DOMAIN s : Opens(s[i]) => s[i].index <= top

\* What the chunk c does to the open blocks.
Opened(c, live) == CASE Opens(c) -> live \cup {c.index}
                     [] c.kind = "stop" -> live \ {c.index}
                     [] OTHER -> live

\* Whether the protocol wants c there.
Fits(c, live, top) ==
  /\ Opens(c) => live = {} /\ top < c.index
  /\ c.kind \in {"text", "args", "stop"} => c.index \in live
  /\ c.kind \in {"finish", "finish_tools"} => live = {}

\* A stream without chunks nests.
LEMMA SoundEmpty == ASSUME NEW top PROVE Sound(<<>>, {}, top)
<1>. DEFINE e == <<>>
<1>1. DOMAIN e = {} /\ Len(e) = 0
  BY EmptySeq
<1>. HIDE DEF e
<1>2. OpenAt(e, Len(e) + 1) = {}
  BY <1>1 DEF OpenAt
<1>3. Sound(e, {}, top)
  BY <1>1, <1>2 DEF Sound, Nested, Live
<1>. QED
  BY <1>3 DEF e

\* One more chunk that fits.
LEMMA SoundAppend ==
  ASSUME NEW s \in Seq(Chunks), NEW c \in Chunks, NEW live, NEW top \in Int, NEW above \in Int,
         Sound(s, live, top), Fits(c, live, top), top <= above, Opens(c) => c.index <= above
  PROVE  Sound(Append(s, c), Opened(c, live), above) /\ Append(s, c) \in Seq(Chunks)
<1>. DEFINE t == Append(s, c)
            n == Len(s)
<1>1. /\ t \in Seq(Chunks) /\ n \in Nat /\ Len(t) = n + 1
      /\ t[n + 1] = c /\ \A k \in 1..n : t[k] = s[k] /\ s[k] \in Chunks
      /\ DOMAIN t = 1..(n + 1) /\ DOMAIN s = 1..n
  BY AppendProperties, LenProperties, ElementOfSeq
<1>. HIDE DEF t, n
<1>2. ASSUME NEW k \in 1..(n + 1) PROVE OpenAt(t, k) = OpenAt(s, k)
  <2>1. \A i \in 1..(k - 1) : t[i] = s[i]
    BY <1>1
  <2>2. \A i \in 1..(k - 1) : \A j \in (i + 1)..(k - 1) : t[j] = s[j]
    BY <1>1
  <2>. QED
    BY <2>1, <2>2 DEF OpenAt
<1>3. {s[i].index : i \in OpenAt(s, n + 1)} = live
  BY DEF Sound, Live, n
<1>4. \A i \in OpenAt(s, n + 1) : i \in 1..n /\ t[i] = s[i] /\ s[i].index \in live
  BY <1>1, <1>3 DEF OpenAt
<1>5. ASSUME NEW k \in DOMAIN t
      PROVE  /\ Opens(t[k]) => /\ OpenAt(t, k) = {}
                               /\ \A i \in 1..(k - 1) : Opens(t[i]) => t[i].index < t[k].index
             /\ t[k].kind \in {"text", "args", "stop"} =>
                  \E i \in OpenAt(t, k) : t[i].index = t[k].index
             /\ t[k].kind \in {"finish", "finish_tools"} => OpenAt(t, k) = {}
  <2>1. CASE k \in 1..n
    <3>1. /\ Opens(s[k]) => /\ OpenAt(s, k) = {}
                            /\ \A i \in 1..(k - 1) : Opens(s[i]) => s[i].index < s[k].index
          /\ s[k].kind \in {"text", "args", "stop"} =>
               \E i \in OpenAt(s, k) : s[i].index = s[k].index
          /\ s[k].kind \in {"finish", "finish_tools"} => OpenAt(s, k) = {}
      BY <2>1, <1>1 DEF Sound, Nested
    <3>2. OpenAt(t, k) = OpenAt(s, k) /\ t[k] = s[k]
      BY <2>1, <1>1, <1>2
    <3>3. \A i \in 1..(k - 1) : t[i] = s[i]
      BY <2>1, <1>1
    <3>4. \A i \in OpenAt(s, k) : t[i] = s[i]
      BY <3>3 DEF OpenAt
    <3>. QED
      BY <3>1, <3>2, <3>3, <3>4
  <2>2. CASE k = n + 1
    <3>1. OpenAt(t, k) = OpenAt(s, n + 1) /\ t[k] = c
      BY <2>2, <1>1, <1>2
    <3>2. live = {} => OpenAt(s, n + 1) = {}
      BY <1>3
    <3>3. c.index \in live => \E i \in OpenAt(s, n + 1) : t[i].index = c.index
      BY <1>3, <1>4
    <3>4. ASSUME Opens(c), NEW i \in 1..(k - 1), Opens(t[i]) PROVE t[i].index < c.index
      <4>1. i \in 1..n /\ t[i] = s[i] /\ s[i].index \in Nat
        BY <2>2, <1>1 DEF Chunks
      <4>2. s[i].index <= top /\ top < c.index
        BY <3>4, <4>1, <1>1 DEF Sound, Fits
      <4>3. c.index \in Nat
        BY DEF Chunks
      <4>. QED
        BY <4>1, <4>2, <4>3
    <3>. QED
      BY <3>1, <3>2, <3>3, <3>4 DEF Fits
  <2>. QED
    BY <1>1, <2>1, <2>2
<1>6. OpenAt(t, n + 2) = {i \in OpenAt(s, n + 1) : c.kind = "stop" => c.index # s[i].index}
                          \cup {i \in {n + 1} : Opens(c)}
  <2>1. ASSUME NEW i \in 1..n
        PROVE  i \in OpenAt(t, n + 2) <=>
                 i \in OpenAt(s, n + 1) /\ (c.kind = "stop" => c.index # s[i].index)
    <3>1. t[i] = s[i] /\ \A j \in (i + 1)..n : t[j] = s[j]
      BY <1>1
    <3>2. (\A j \in (i + 1)..(n + 1) : t[j].kind = "stop" => t[j].index # t[i].index)
            <=> /\ \A j \in (i + 1)..n : s[j].kind = "stop" => s[j].index # s[i].index
                /\ c.kind = "stop" => c.index # s[i].index
      <4>1. (i + 1)..(n + 1) = ((i + 1)..n) \cup {n + 1}
        BY <1>1
      <4>. QED
        BY <3>1, <4>1, <1>1
    <3>3. (n + 2) - 1 = n + 1 /\ (n + 1) - 1 = n
      BY <1>1
    <3>4. i \in OpenAt(t, n + 2) <=>
            Opens(t[i]) /\ \A j \in (i + 1)..(n + 1) : t[j].kind = "stop" => t[j].index # t[i].index
      BY <3>3, <1>1 DEF OpenAt
    <3>5. i \in OpenAt(s, n + 1) <=>
            Opens(s[i]) /\ \A j \in (i + 1)..n : s[j].kind = "stop" => s[j].index # s[i].index
      BY <3>3, <1>1 DEF OpenAt
    <3>. QED
      BY <3>1, <3>2, <3>4, <3>5
  <2>2. n + 1 \in OpenAt(t, n + 2) <=> Opens(c)
    <3>1. (n + 2) - 1 = n + 1 /\ (n + 1 + 1)..(n + 1) = {} /\ n + 1 \in 1..(n + 1)
      BY <1>1
    <3>. QED
      BY <3>1, <1>1 DEF OpenAt
  <2>3. OpenAt(t, n + 2) \subseteq 1..(n + 1) /\ OpenAt(s, n + 1) \subseteq 1..n
    BY <1>1 DEF OpenAt
  <2>4. 1..(n + 1) = (1..n) \cup {n + 1}
    BY <1>1
  <2>. QED
    BY <2>1, <2>2, <2>3, <2>4
<1>7. Live(t) = Opened(c, live)
  <2>1. Live(t) = {t[i].index : i \in OpenAt(t, n + 2)}
    <3>1. Len(t) + 1 = n + 2
      BY <1>1
    <3>. QED
      BY <3>1 DEF Live
  <2>2. \A i \in OpenAt(s, n + 1) : t[i].index = s[i].index
    BY <1>4
  <2>3. CASE Opens(c)
    <3>1. OpenAt(t, n + 2) = OpenAt(s, n + 1) \cup {n + 1}
      BY <2>3, <1>6 DEF Opens
    <3>2. t[n + 1].index = c.index
      BY <1>1
    <3>3. Live(t) = live \cup {c.index}
      BY <2>1, <2>2, <3>1, <3>2, <1>3
    <3>. QED
      BY <2>3, <3>3 DEF Opened, Opens
  <2>4. CASE c.kind = "stop"
    <3>1. OpenAt(t, n + 2) = {i \in OpenAt(s, n + 1) : c.index # s[i].index}
      BY <2>4, <1>6 DEF Opens
    <3>2. ~Opens(c)
      BY <2>4 DEF Opens
    <3>. QED
      BY <2>1, <2>2, <2>4, <3>1, <3>2, <1>3 DEF Opened
  <2>5. CASE ~Opens(c) /\ c.kind # "stop"
    <3>1. OpenAt(t, n + 2) = OpenAt(s, n + 1)
      BY <2>5, <1>6
    <3>. QED
      BY <2>1, <2>2, <2>5, <3>1, <1>3 DEF Opened
  <2>. QED
    BY <2>3, <2>4, <2>5
<1>8. \A i \in DOMAIN t : Opens(t[i]) => t[i].index <= above
  <2>1. \A i \in 1..n : s[i].index \in Nat /\ (Opens(s[i]) => s[i].index <= top)
    BY <1>1 DEF Sound, Chunks
  <2>2. ASSUME NEW i \in 1..n, Opens(t[i]) PROVE t[i].index <= above
    BY <2>1, <2>2, <1>1
  <2>. QED
    BY <1>1, <2>2
<1>. QED
  BY <1>1, <1>5, <1>7, <1>8 DEF Sound, Nested, t

\* A few chunks more, one by one.
LEMMA AppendFew ==
  ASSUME NEW s \in Seq(Chunks), NEW c \in Chunks, NEW d \in Chunks, NEW e \in Chunks
  PROVE  /\ s \o <<>> = s
         /\ s \o <<c>> = Append(s, c)
         /\ s \o <<c, d>> = Append(Append(s, c), d)
         /\ s \o <<c, d, e>> = Append(Append(Append(s, c), d), e)
OBVIOUS

Looping == {"open", "failing", "ending"}

\* The blocks of an Anthropic stream nest, none has an index above that of the block of text
\* in turn, and while the loop runs that one is open, outside a call.
Blocks ==
  protocol = "anthropic" /\ clean /\ (phase = "done" => ~inCall) =>
    /\ Sound(out, Live(out), 2 * calls)
    /\ phase \in Looping => Live(out) = IF inCall THEN {} ELSE {2 * calls}

\* The second argument of Sound is what is open.
LEMMA SoundLive == ASSUME NEW s, NEW live, NEW top, Sound(s, live, top) PROVE live = Live(s)
BY DEF Sound

\* The four ways a chunk that fits goes on: it opens a block, is in the open one, ends it,
\* or stands between blocks.
LEMMA SoundOpen ==
  ASSUME NEW s \in Seq(Chunks), NEW c \in Chunks, NEW top \in Int,
         Sound(s, {}, top), Opens(c), top < c.index
  PROVE  Append(s, c) \in Seq(Chunks) /\ Sound(Append(s, c), {c.index}, c.index)
<1>1. Fits(c, {}, top) /\ Opened(c, {}) = {c.index}
  BY DEF Fits, Opened, Opens
<1>2. c.index \in Int /\ top <= c.index /\ c.index <= c.index
  BY DEF Chunks
<1>3. Sound(Append(s, c), Opened(c, {}), c.index) /\ Append(s, c) \in Seq(Chunks)
  BY <1>1, <1>2, SoundAppend
<1>. QED
  BY <1>1, <1>3

\* A delta for the open block.
LEMMA SoundDelta ==
  ASSUME NEW s \in Seq(Chunks), NEW c \in Chunks, NEW top \in Int,
         Sound(s, {c.index}, top), c.kind \in {"text", "args"}
  PROVE  Append(s, c) \in Seq(Chunks) /\ Sound(Append(s, c), {c.index}, top)
<1>1. Fits(c, {c.index}, top) /\ Opened(c, {c.index}) = {c.index} /\ ~Opens(c) /\ top <= top
  BY DEF Fits, Opened, Opens
<1>2. Sound(Append(s, c), Opened(c, {c.index}), top) /\ Append(s, c) \in Seq(Chunks)
  BY <1>1, SoundAppend
<1>. QED
  BY <1>1, <1>2

\* The open block is stopped.
LEMMA SoundStop ==
  ASSUME NEW s \in Seq(Chunks), NEW c \in Chunks, NEW top \in Int,
         Sound(s, {c.index}, top), c.kind = "stop"
  PROVE  Append(s, c) \in Seq(Chunks) /\ Sound(Append(s, c), {}, top)
<1>1. Fits(c, {c.index}, top) /\ Opened(c, {c.index}) = {} /\ ~Opens(c) /\ top <= top
  BY DEF Fits, Opened, Opens
<1>2. Sound(Append(s, c), Opened(c, {c.index}), top) /\ Append(s, c) \in Seq(Chunks)
  BY <1>1, SoundAppend
<1>. QED
  BY <1>1, <1>2

\* A frame that is about no block.
LEMMA SoundMark ==
  ASSUME NEW s \in Seq(Chunks), NEW c \in Chunks, NEW top \in Int, Sound(s, {}, top),
         c.kind \in {"message_start", "message_stop", "finish", "finish_tools"}
  PROVE  Append(s, c) \in Seq(Chunks) /\ Sound(Append(s, c), {}, top)
<1>1. Fits(c, {}, top) /\ Opened(c, {}) = {} /\ ~Opens(c) /\ top <= top
  BY DEF Fits, Opened, Opens
<1>2. Sound(Append(s, c), Opened(c, {}), top) /\ Append(s, c) \in Seq(Chunks)
  BY <1>1, SoundAppend
<1>. QED
  BY <1>1, <1>2

\* Each action keeps the blocks.
LEMMA NextBlocks ==
  MapperLoop /\ Blocks /\ [MapperNext]_mapperVars => Blocks'
<1>. SUFFICES ASSUME MapperLoop, Blocks, [MapperNext]_mapperVars,
                     protocol' = "anthropic", clean', phase' = "done" => ~inCall'
              PROVE  /\ Sound(out', Live(out'), 2 * calls')
                     /\ phase' \in Looping => Live(out') = IF inCall' THEN {} ELSE {2 * calls'}
  BY DEF Blocks, Live
<1>. USE DEF request, conversation
<1>0. /\ MapperTypeOK /\ Fresh /\ Drained /\ Outside
  BY DEF MapperLoop
<1>f. calls \in Nat /\ pending \in Seq(Letters) /\ buffer \in Seq(Letters) /\ out \in Seq(Chunks)
      /\ phase \in Phases
  BY <1>0, LoopFacts DEF MapperTypeOK
<1>i. 2 * calls \in Nat /\ 2 * calls + 1 \in Nat /\ 2 * calls + 2 \in Nat /\ <<>> \in Seq(Letters)
  BY <1>f, EmptySeq
<1>a. protocol = "anthropic"
  BY DEF MapperNext, mapperVars, Ask, RefuseAtOnce, Start, Deliver, Fail, GiveUp, EndEmpty, End, Reply,
         PassText, OpenCall, KeepCall, CloseCall
<1>x. TextIndex = 2 * calls
  BY <1>a DEF TextIndex
\* A step that writes no chunk.
<1>u. ASSUME clean, phase = "done" => ~inCall, out' = out, calls' = calls,
             phase' \in Looping => phase \in Looping /\ inCall' = inCall
      PROVE  /\ Sound(out', Live(out'), 2 * calls')
             /\ phase' \in Looping => Live(out') = IF inCall' THEN {} ELSE {2 * calls'}
  BY <1>u, <1>a DEF Blocks
<1>t. 2 * calls \in Int /\ 2 * calls + 1 \in Int /\ 2 * calls + 2 \in Int /\ -1 \in Int
  BY <1>f
<1>1. CASE Ask \/ RefuseAtOnce \/ Deliver \/ Fail \/ GiveUp \/ EndEmpty \/ UNCHANGED mapperVars
  <2>1. CASE Ask \/ RefuseAtOnce \/ GiveUp
    <3>1. out' = out /\ calls' = calls /\ clean' = clean /\ phase # "done" /\ phase' \notin Looping
      BY <2>1 DEF Ask, RefuseAtOnce, GiveUp, Looping
    <3>. QED
      BY <3>1, <1>u
  <2>2. CASE Deliver \/ Fail \/ EndEmpty
    <3>1. /\ out' = out /\ calls' = calls /\ clean' = clean /\ inCall' = inCall
          /\ phase # "done" /\ phase \in Looping
      BY <2>2 DEF Deliver, Fail, EndEmpty, Looping
    <3>. QED
      BY <3>1, <1>u
  <2>3. CASE UNCHANGED mapperVars
    <3>1. /\ out' = out /\ calls' = calls /\ clean' = clean /\ inCall' = inCall
          /\ phase' = phase
      BY <2>3 DEF mapperVars
    <3>. QED
      BY <3>1, <1>u
  <2>. QED
    BY <1>1, <2>1, <2>2, <2>3
<1>2. CASE Start
  <2>. DEFINE c == Chunk("message_start", 0, <<>>)
              d == Chunk("text_start", 0, <<>>)
  <2>1. out = <<>> /\ calls = 0 /\ ~inCall
    BY <1>2, <1>0 DEF Start, Fresh
  <2>2. out' = out \o <<c, d>> /\ calls' = 0 /\ ~inCall'
    BY <1>2, <1>a, <2>1 DEF Start, InitialChunks
  <2>3. Sound(out, {}, -1)
    BY <2>1, SoundEmpty
  <2>6. c \in Chunks /\ d \in Chunks /\ c.kind = "message_start" /\ d.kind = "text_start" /\ d.index = 0
    BY <1>i DEF Chunk, Chunks, ChunkKinds
  <2>. HIDE DEF c, d
  <2>4. Append(out, c) \in Seq(Chunks) /\ Sound(Append(out, c), {}, -1)
    BY <1>f, <1>t, <2>3, <2>6, SoundMark
  <2>5. Sound(Append(Append(out, c), d), {0}, 0)
    <3>1. Opens(d) /\ -1 < d.index
      BY <2>6 DEF Opens
    <3>2. Sound(Append(Append(out, c), d), {d.index}, d.index)
      BY <1>t, <2>4, <2>6, <3>1, SoundOpen
    <3>. QED
      BY <2>6, <3>2
  <2>7. out' = Append(Append(out, c), d)
    BY <1>f, <2>2, <2>6, AppendFew
  <2>8. Live(out') = {0}
    BY <2>5, <2>7, SoundLive
  <2>9. 2 * calls' = 0
    BY <2>2
  <2>. QED
    BY <2>2, <2>5, <2>7, <2>8, <2>9
<1>3. CASE End
  <2>. DEFINE c == Chunk("stop", 2 * calls, <<>>)
              k == IF calls > 0 THEN "finish_tools" ELSE "finish"
              d == Chunk(k, 0, <<>>)
              e == Chunk("message_stop", 0, <<>>)
  <2>1. out' = out \o <<c, d, e>> /\ calls' = calls /\ ~inCall /\ phase' = "done" /\ clean
        /\ phase \in Looping
    BY <1>3, <1>a, <1>x DEF End, FinalChunks, Looping
  <2>2. Sound(out, {2 * calls}, 2 * calls)
    BY <2>1, <1>a DEF Blocks, Looping
  <2>k. k \in ChunkKinds /\ k \in {"finish", "finish_tools"}
    BY DEF ChunkKinds
  <2>. HIDE DEF k
  <2>6. /\ c \in Chunks /\ d \in Chunks /\ e \in Chunks
        /\ c.kind = "stop" /\ c.index = 2 * calls /\ d.kind = k /\ e.kind = "message_stop"
    BY <1>i, <2>k DEF Chunk, Chunks, ChunkKinds
  <2>. HIDE DEF c, d, e
  <2>3. Append(out, c) \in Seq(Chunks) /\ Sound(Append(out, c), {}, 2 * calls)
    BY <1>f, <1>t, <2>2, <2>6, SoundStop
  <2>4. Append(Append(out, c), d) \in Seq(Chunks) /\ Sound(Append(Append(out, c), d), {}, 2 * calls)
    BY <1>t, <2>k, <2>3, <2>6, SoundMark
  <2>5. Sound(Append(Append(Append(out, c), d), e), {}, 2 * calls)
    BY <1>t, <2>4, <2>6, SoundMark
  <2>7. out' = Append(Append(Append(out, c), d), e)
    BY <1>f, <2>1, <2>6, AppendFew
  <2>8. Live(out') = {}
    BY <2>5, <2>7, SoundLive
  <2>. QED
    BY <2>1, <2>5, <2>7, <2>8 DEF Looping
<1>4. CASE Reply
  <2>1. out' = <<>> /\ phase' = "request"
    BY <1>4 DEF Reply
  <2>2. Sound(out', {}, 2 * calls')
    BY <2>1, SoundEmpty
  <2>3. Live(out') = {}
    BY <2>2, SoundLive
  <2>. QED
    BY <2>1, <2>2, <2>3 DEF Looping
\* A pass of map_delta takes place in the loop.
<1>p. ASSUME pending # <<>> PROVE phase \in Looping
  BY <1>p, <1>0, <1>f DEF Fresh, Drained, Phases, Looping
<1>5. CASE PassText
  <2>. DEFINE c == Chunk("text", 2 * calls, pending)
  <2>1. out' = out \o <<c>> /\ calls' = calls /\ ~inCall /\ ~inCall' /\ phase' = phase /\ clean
        /\ phase \in Looping
    BY <1>5, <1>p, <1>x DEF PassText, TextChunks
  <2>2. Sound(out, {2 * calls}, 2 * calls)
    BY <2>1, <1>a DEF Blocks, Looping
  <2>4. c \in Chunks /\ c.kind = "text" /\ c.index = 2 * calls
    BY <1>f, <1>i DEF Chunk, Chunks, ChunkKinds
  <2>. HIDE DEF c
  <2>3. Sound(Append(out, c), {2 * calls}, 2 * calls)
    <3>1. Sound(Append(out, c), {c.index}, 2 * calls)
      BY <1>f, <1>t, <2>2, <2>4, SoundDelta
    <3>. QED
      BY <2>4, <3>1
  <2>5. out' = Append(out, c)
    BY <1>f, <2>1, <2>4, AppendFew
  <2>6. Live(out') = {2 * calls}
    BY <2>3, <2>5, SoundLive
  <2>. QED
    BY <2>1, <2>3, <2>5, <2>6
<1>6. CASE OpenCall
  <2>. DEFINE b == Before(OpenTag, pending)
              c == Chunk("text", 2 * calls, b)
              d == Chunk("stop", 2 * calls, <<>>)
              mid == out \o TextChunks(b)
  <2>1. out' = mid \o <<d>> /\ calls' = calls /\ ~inCall /\ inCall' /\ phase' = phase /\ clean
        /\ phase \in Looping
    BY <1>6, <1>p, <1>x, <1>a DEF OpenCall, StopChunks
  <2>2. Sound(out, {2 * calls}, 2 * calls)
    BY <2>1, <1>a DEF Blocks, Looping
  <2>b. b \in Seq(Letters)
    BY <1>0, <1>6, AfterShorter DEF OpenCall, Tags
  <2>. HIDE DEF b
  <2>4. /\ c \in Chunks /\ c.kind = "text" /\ c.index = 2 * calls
        /\ d \in Chunks /\ d.kind = "stop" /\ d.index = 2 * calls
    BY <1>f, <1>i, <2>b DEF Chunk, Chunks, ChunkKinds
  <2>3. mid \in Seq(Chunks) /\ Sound(mid, {2 * calls}, 2 * calls)
    <3>1. CASE b = <<>>
      <4>1. mid = out
        BY <3>1, <1>f, <2>4, AppendFew DEF TextChunks
      <4>. QED
        BY <4>1, <1>f, <2>2
    <3>2. CASE b # <<>>
      <4>1. mid = Append(out, c)
        BY <3>2, <1>f, <1>x, <2>4, AppendFew DEF TextChunks
      <4>2. Append(out, c) \in Seq(Chunks) /\ Sound(Append(out, c), {2 * calls}, 2 * calls)
        <5>. HIDE DEF c
        <5>1. Append(out, c) \in Seq(Chunks) /\ Sound(Append(out, c), {c.index}, 2 * calls)
          BY <1>f, <1>t, <2>4, <2>2, SoundDelta
        <5>. QED
          BY <2>4, <5>1
      <4>. QED
        BY <4>1, <4>2
    <3>. QED
      BY <3>1, <3>2
  <2>. HIDE DEF mid, d
  <2>5. Sound(Append(mid, d), {}, 2 * calls)
    BY <1>t, <2>3, <2>4, SoundStop
  <2>6. out' = Append(mid, d)
    BY <2>1, <2>3, <2>4, AppendFew
  <2>7. Live(out') = {}
    BY <2>5, <2>6, SoundLive
  <2>. QED
    BY <2>1, <2>5, <2>6, <2>7
<1>7. CASE KeepCall
  BY <1>7, <1>u, <1>p DEF KeepCall
<1>8. CASE CloseCall
  <2>. DEFINE body == Trim(buffer \o Before(CloseTag, pending))
              c == Chunk("tool_start", 2 * calls + 1, <<>>)
              d == Chunk("args", 2 * calls + 1, body)
              e == Chunk("stop", 2 * calls + 1, <<>>)
              f == Chunk("text_start", 2 * calls + 2, <<>>)
              mid == out \o <<c, d, e>>
  <2>b. body \in Seq(Letters) /\ IsJson(body) /\ body # <<>>
    <3>1. Before(CloseTag, pending) \in Seq(Letters)
      BY <1>0, <1>8, AfterShorter DEF CloseCall, Tags
    <3>2. buffer \o Before(CloseTag, pending) \in Seq(Letters)
      BY <1>f, <3>1, ConcatProperties
    <3>3. IsJson(body)
      BY <1>8 DEF CloseCall
    <3>. HIDE DEF body
    <3>4. body # <<>>
      <4>1. Len(body) >= 2
        BY <3>3 DEF IsJson
      <4>2. Len(<<>>) = 0
        BY EmptySeq
      <4>. QED
        BY <4>1, <4>2
    <3>. QED
      BY <3>2, <3>3, <3>4, TrimInk DEF body
  <2>1. out' = mid \o <<f>> /\ calls' = calls + 1 /\ inCall /\ ~inCall' /\ phase' = phase /\ clean
        /\ phase \in Looping
    BY <1>8, <1>p, <1>x, <1>a, <2>b DEF CloseCall, ClosedChunks, CallChunks, ReopenChunks
  <2>2. Sound(out, {}, 2 * calls)
    BY <2>1, <1>a DEF Blocks, Looping
  <2>. HIDE DEF body
  <2>3. /\ c \in Chunks /\ c.kind = "tool_start" /\ c.index = 2 * calls + 1
        /\ d \in Chunks /\ d.kind = "args" /\ d.index = 2 * calls + 1
        /\ e \in Chunks /\ e.kind = "stop" /\ e.index = 2 * calls + 1
        /\ f \in Chunks /\ f.kind = "text_start" /\ f.index = 2 * calls + 2
    BY <1>f, <1>i, <2>b DEF Chunk, Chunks, ChunkKinds
  <2>. HIDE DEF c, d, e, f
  <2>4. /\ Append(out, c) \in Seq(Chunks)
        /\ Sound(Append(out, c), {d.index}, d.index) /\ d.index \in Int
    <3>1. 2 * calls < c.index /\ Opens(c)
      BY <1>f, <2>3 DEF Opens
    <3>2. Append(out, c) \in Seq(Chunks) /\ Sound(Append(out, c), {c.index}, c.index)
      BY <1>f, <1>t, <2>2, <2>3, <3>1, SoundOpen
    <3>. QED
      BY <2>3, <3>2, <1>t
  <2>5. /\ Append(Append(out, c), d) \in Seq(Chunks)
        /\ Sound(Append(Append(out, c), d), {e.index}, e.index) /\ e.index \in Int
    <3>1. Append(Append(out, c), d) \in Seq(Chunks)
          /\ Sound(Append(Append(out, c), d), {d.index}, d.index)
      BY <2>3, <2>4, SoundDelta
    <3>. QED
      BY <2>3, <3>1, <1>t
  <2>6. /\ Append(Append(Append(out, c), d), e) \in Seq(Chunks)
        /\ Sound(Append(Append(Append(out, c), d), e), {}, e.index)
    BY <2>3, <2>5, SoundStop
  <2>7. mid \in Seq(Chunks) /\ Sound(mid, {}, e.index)
    <3>1. mid = Append(Append(Append(out, c), d), e)
      BY <1>f, <2>3, AppendFew
    <3>. QED
      BY <2>6, <3>1
  <2>. HIDE DEF mid
  <2>8. Sound(Append(mid, f), {2 * calls + 2}, 2 * calls + 2)
    <3>1. e.index < f.index /\ Opens(f)
      BY <1>f, <2>3 DEF Opens
    <3>2. Sound(Append(mid, f), {f.index}, f.index)
      BY <2>3, <2>5, <2>7, <3>1, SoundOpen
    <3>. QED
      BY <2>3, <3>2
  <2>9. out' = Append(mid, f)
    BY <2>1, <2>3, <2>7, AppendFew
  <2>10. 2 * calls' = 2 * calls + 2
    BY <1>f, <2>1
  <2>11. Live(out') = {2 * calls + 2}
    BY <2>8, <2>9, SoundLive
  <2>. QED
    BY <2>1, <2>8, <2>9, <2>10, <2>11
<1>. QED
  BY <1>1, <1>2, <1>3, <1>4, <1>5, <1>6, <1>7, <1>8 DEF MapperNext

\* The blocks of an Anthropic stream nest, wherever the deltas are cut, as long as the
\* calls that ended are JSON and the answer does not end in a call.
THEOREM MapperBlocks == MapperSpec => []BlocksWellFormed
<1>1. MapperInit => Blocks
  <2>. SUFFICES ASSUME MapperInit PROVE Blocks
    OBVIOUS
  <2>1. out = <<>> /\ phase = "request"
    BY DEF MapperInit
  <2>2. Sound(out, {}, 2 * calls)
    BY <2>1, SoundEmpty
  <2>3. Live(out) = {}
    BY <2>2, SoundLive
  <2>. QED
    BY <2>1, <2>2, <2>3 DEF Blocks, Looping
<1>2. Blocks => BlocksWellFormed
  BY DEF Blocks, Sound, BlocksWellFormed
<1>. QED
  BY <1>1, <1>2, MapperInitLoop, MapperNextLoop, NextBlocks, PTL DEF MapperSpec

-----------------------------------------------------------------------------
(* Texts in one piece and in two.                                          *)

\* What is after a tag is shorter.
LEMMA AfterLess ==
  ASSUME NEW A, NEW s \in Seq(A), NEW tag \in Tags, Has(tag, s)
  PROVE  /\ Before(tag, s) \in Seq(A) /\ After(tag, s) \in Seq(A)
         /\ Len(s) \in Nat /\ Len(After(tag, s)) \in Nat
         /\ Len(After(tag, s)) < Len(s)
<1>1. /\ Before(tag, s) \in Seq(A) /\ After(tag, s) \in Seq(A)
      /\ Len(Before(tag, s)) + 2 + Len(After(tag, s)) = Len(s)
  BY AroundTag
<1>2. Len(s) \in Nat /\ Len(After(tag, s)) \in Nat /\ Len(Before(tag, s)) \in Nat
  BY <1>1, LenProperties
<1>. QED
  BY <1>1, <1>2

\* The two parts of a text that is put together.
LEMMA JoinedAt ==
  ASSUME NEW A, NEW s \in Seq(A), NEW r \in Seq(A)
  PROVE  /\ Joined(s, r) \in Seq(A)
         /\ Len(s) \in Nat /\ Len(r) \in Nat
         /\ Len(Joined(s, r)) = Len(s) + Len(r)
         /\ \A i \in 1..Len(s) : Joined(s, r)[i] = s[i]
         /\ \A i \in 1..Len(r) : Joined(s, r)[Len(s) + i] = r[i]
<1>1. /\ Joined(s, r) \in Seq(A) /\ Len(Joined(s, r)) = Len(s) + Len(r)
      /\ \A i \in 1..(Len(s) + Len(r)) :
           Joined(s, r)[i] = IF i <= Len(s) THEN s[i] ELSE r[i - Len(s)]
  BY ConcatProperties DEF Joined
<1>2. Len(s) \in Nat /\ Len(r) \in Nat
  BY LenProperties
<1>3. ASSUME NEW i \in 1..Len(s) PROVE Joined(s, r)[i] = s[i]
  <2>1. i \in 1..(Len(s) + Len(r)) /\ i <= Len(s)
    BY <1>2
  <2>. QED
    BY <1>1, <2>1
<1>4. ASSUME NEW i \in 1..Len(r) PROVE Joined(s, r)[Len(s) + i] = r[i]
  <2>. DEFINE j == Len(s) + i
  <2>1. j \in 1..(Len(s) + Len(r)) /\ ~(j <= Len(s)) /\ j - Len(s) = i
    BY <1>2
  <2>. HIDE DEF j
  <2>2. Joined(s, r)[j] = r[i]
    BY <1>1, <2>1
  <2>. QED
    BY <2>2 DEF j
<1>. QED
  BY <1>1, <1>2, <1>3, <1>4

\* Two texts that are put together make no tag where they meet.
Apart(tag, s, r) == s = <<>> \/ r = <<>> \/ ~(s[Len(s)] = tag[1] /\ r[1] = tag[2])

\* The places of a tag in two texts, the first without the tag, are those in the second.
LEMMA PlacesJoined ==
  ASSUME NEW A, NEW s \in Seq(A), NEW r \in Seq(A), NEW tag \in Tags,
         ~Has(tag, s), Apart(tag, s, r)
  PROVE  /\ \A i \in 1..Len(s) : i < Len(s) + Len(r) => ~At(tag, Joined(s, r), i)
         /\ \A i \in 1..(Len(r) - 1) : At(tag, Joined(s, r), Len(s) + i) <=> At(tag, r, i)
<1>. DEFINE w == Joined(s, r)
<1>1. /\ Len(s) \in Nat /\ Len(r) \in Nat
      /\ \A i \in 1..Len(s) : w[i] = s[i]
      /\ \A i \in 1..Len(r) : w[Len(s) + i] = r[i]
  <2>1. Len(s) \in Nat /\ Len(r) \in Nat
    BY JoinedAt
  <2>2. \A i \in 1..Len(s) : w[i] = s[i]
    BY JoinedAt
  <2>3. \A i \in 1..Len(r) : w[Len(s) + i] = r[i]
    BY JoinedAt
  <2>. QED
    BY <2>1, <2>2, <2>3
<1>2. \A i \in 1..(Len(s) - 1) : ~At(tag, s, i)
  BY PlacesAt
<1>. HIDE DEF w
<1>3. ASSUME NEW i \in 1..Len(s), i < Len(s) + Len(r) PROVE ~At(tag, w, i)
  <2>1. CASE i < Len(s)
    <3>1. i \in 1..(Len(s) - 1) /\ w[i] = s[i] /\ w[i + 1] = s[i + 1]
      BY <2>1, <1>1
    <3>. QED
      BY <3>1, <1>2 DEF At
  <2>2. CASE i = Len(s)
    <3>1. 1 \in 1..Len(r) /\ w[i] = s[i] /\ w[Len(s) + 1] = r[1]
      BY <2>2, <1>1, <1>3
    <3>2. s # <<>> /\ r # <<>>
      <4>1. Len(s) # 0 /\ Len(r) # 0
        BY <2>2, <3>1, <1>1
      <4>. QED
        BY <4>1, EmptySeq
    <3>. QED
      BY <2>2, <3>1, <3>2 DEF At, Apart
  <2>. QED
    BY <2>1, <2>2, <1>1
<1>4. ASSUME NEW i \in 1..(Len(r) - 1) PROVE At(tag, w, Len(s) + i) <=> At(tag, r, i)
  <2>1. i \in 1..Len(r) /\ i + 1 \in 1..Len(r) /\ Len(s) + (i + 1) = (Len(s) + i) + 1
    BY <1>1
  <2>2. w[Len(s) + i] = r[i] /\ w[Len(s) + (i + 1)] = r[i + 1]
    BY <1>1, <2>1
  <2>. QED
    BY <2>1, <2>2 DEF At
<1>. QED
  BY <1>3, <1>4 DEF w

\* The symbols of a text from a place on.
LEMMA SuffixAt ==
  ASSUME NEW A, NEW u \in Seq(A), NEW n \in 1..(Len(u) - 1)
  PROVE  /\ SubSeq(u, n + 2, Len(u)) \in Seq(A)
         /\ Len(SubSeq(u, n + 2, Len(u))) = Len(u) - n - 1
         /\ \A i \in 1..(Len(u) - n - 1) : SubSeq(u, n + 2, Len(u))[i] = u[n + 1 + i]
<1>1. /\ Len(u) \in Nat /\ n + 2 \in Int /\ n + 2 <= Len(u) + 1
      /\ \A i \in 1..Len(u) : u[i] \in A
  BY ElementOfSeq
<1>2. \A i \in (n + 2)..Len(u) : u[i] \in A
  BY <1>1
<1>3. /\ SubSeq(u, n + 2, Len(u)) \in Seq(A)
      /\ Len(SubSeq(u, n + 2, Len(u))) = IF n + 2 <= Len(u) THEN Len(u) - (n + 2) + 1 ELSE 0
      /\ \A i \in 1..(Len(u) - (n + 2) + 1) : SubSeq(u, n + 2, Len(u))[i] = u[n + 2 + i - 1]
  BY <1>1, <1>2, SubSeqProperties
<1>4. Len(SubSeq(u, n + 2, Len(u))) = Len(u) - n - 1
  BY <1>1, <1>3
<1>. DEFINE v == SubSeq(u, n + 2, Len(u))
<1>5. \A i \in 1..(Len(u) - n - 1) : v[i] = u[n + 1 + i]
  <2>. HIDE DEF v
  <2>. SUFFICES ASSUME NEW i \in 1..(Len(u) - n - 1) PROVE v[i] = u[n + 1 + i]
    OBVIOUS
  <2>1. i \in 1..(Len(u) - (n + 2) + 1) /\ n + 2 + i - 1 = n + 1 + i
    BY <1>1
  <2>2. v[i] = u[n + 2 + i - 1]
    BY <1>3, <2>1 DEF v
  <2>. QED
    BY <2>1, <2>2
<1>. QED
  BY <1>3, <1>4, <1>5

\* So a tag is found in the second, and the first is part of what is before it.
LEMMA TagJoined ==
  ASSUME NEW A, NEW s \in Seq(A), NEW r \in Seq(A), NEW tag \in Tags,
         ~Has(tag, s), Apart(tag, s, r)
  PROVE  /\ Has(tag, Joined(s, r)) <=> Has(tag, r)
         /\ Has(tag, r) => /\ Before(tag, Joined(s, r)) = Joined(s, Before(tag, r))
                           /\ After(tag, Joined(s, r)) = After(tag, r)
<1>. DEFINE w == Joined(s, r)
<1>1. /\ w \in Seq(A) /\ Len(s) \in Nat /\ Len(r) \in Nat /\ Len(w) = Len(s) + Len(r)
      /\ \A i \in 1..Len(s) : w[i] = s[i]
      /\ \A i \in 1..Len(r) : w[Len(s) + i] = r[i]
  <2>1. w \in Seq(A) /\ Len(s) \in Nat /\ Len(r) \in Nat /\ Len(w) = Len(s) + Len(r)
    BY JoinedAt
  <2>2. \A i \in 1..Len(s) : w[i] = s[i]
    BY JoinedAt
  <2>3. \A i \in 1..Len(r) : w[Len(s) + i] = r[i]
    BY JoinedAt
  <2>. QED
    BY <2>1, <2>2, <2>3
<1>2. /\ \A i \in 1..Len(s) : i < Len(s) + Len(r) => ~At(tag, w, i)
      /\ \A i \in 1..(Len(r) - 1) : At(tag, w, Len(s) + i) <=> At(tag, r, i)
  BY PlacesJoined
<1>. HIDE DEF w
<1>3. ASSUME Has(tag, w) PROVE Has(tag, r)
  <2>1. PICK i \in 1..(Len(w) - 1) : At(tag, w, i)
    BY <1>1, <1>3, PlacesAt
  <2>2. i > Len(s)
    BY <1>1, <1>2, <2>1
  <2>. DEFINE j == i - Len(s)
  <2>3. j \in 1..(Len(r) - 1) /\ Len(s) + j = i
    BY <1>1, <2>1, <2>2
  <2>. HIDE DEF j
  <2>4. At(tag, r, j)
    BY <1>2, <2>1, <2>3
  <2>. QED
    BY <2>3, <2>4, PlacesAt
<1>4. ASSUME Has(tag, r)
      PROVE  /\ Has(tag, w)
             /\ Before(tag, w) = Joined(s, Before(tag, r))
             /\ After(tag, w) = After(tag, r)
  <2>. DEFINE m == Min(Places(tag, r))
              k == Len(s) + m
  <2>1. m \in 1..(Len(r) - 1) /\ At(tag, r, m) /\ \A i \in 1..(m - 1) : ~At(tag, r, i)
    BY <1>4, FirstPlace
  <2>. HIDE DEF m
  <2>2. k \in 1..(Len(w) - 1)
    BY <1>1, <2>1
  <2>3. At(tag, w, k)
    BY <1>2, <2>1
  <2>4. ASSUME NEW i \in 1..(k - 1) PROVE ~At(tag, w, i)
    <3>1. CASE i <= Len(s)
      <4>1. i \in 1..Len(s) /\ i < Len(s) + Len(r)
        BY <3>1, <1>1, <2>1
      <4>. QED
        BY <4>1, <1>2
    <3>2. CASE i > Len(s)
      <4>. DEFINE j == i - Len(s)
      <4>1. j \in 1..(m - 1) /\ j \in 1..(Len(r) - 1) /\ Len(s) + j = i
        BY <3>2, <1>1, <2>1
      <4>. HIDE DEF j
      <4>. QED
        BY <4>1, <1>2, <2>1
    <3>. QED
      BY <3>1, <3>2, <1>1, <2>1
  <2>. HIDE DEF k
  <2>5. Has(tag, w) /\ Min(Places(tag, w)) = k
    BY <1>1, <2>2, <2>3, <2>4, FirstIs
  <2>. DEFINE bw == Before(tag, w)
              br == Before(tag, r)
              aw == After(tag, w)
              ar == After(tag, r)
  <2>6. bw = SubSeq(w, 1, k - 1) /\ aw = SubSeq(w, k + 2, Len(w))
    BY <2>5 DEF Before, After
  <2>7. br = SubSeq(r, 1, m - 1) /\ ar = SubSeq(r, m + 2, Len(r))
    BY DEF Before, After, m
  <2>. HIDE DEF bw, br, aw, ar
  <2>8. (\A i \in 1..Len(w) : w[i] \in A) /\ (\A i \in 1..Len(r) : r[i] \in A) /\ k = Len(s) + m
    BY <1>1, ElementOfSeq DEF k
  <2>9. bw \in Seq(A) /\ Len(bw) = k - 1 /\ \A i \in 1..(k - 1) : bw[i] = w[i]
    BY <1>1, <2>1, <2>2, <2>6, <2>8, SubSeqProperties
  <2>10. br \in Seq(A) /\ Len(br) = m - 1 /\ \A i \in 1..(m - 1) : br[i] = r[i]
    BY <1>1, <2>1, <2>7, <2>8, SubSeqProperties
  <2>11. /\ aw \in Seq(A) /\ Len(aw) = Len(w) - k - 1
         /\ \A i \in 1..(Len(w) - k - 1) : aw[i] = w[k + 1 + i]
    BY <1>1, <2>2, <2>6, SuffixAt
  <2>12. /\ ar \in Seq(A) /\ Len(ar) = Len(r) - m - 1
         /\ \A i \in 1..(Len(r) - m - 1) : ar[i] = r[m + 1 + i]
    BY <1>1, <2>1, <2>7, SuffixAt
  <2>13. bw = Joined(s, br)
    <3>. DEFINE v == Joined(s, br)
    <3>1. /\ v \in Seq(A) /\ Len(v) = Len(s) + Len(br)
          /\ \A i \in 1..Len(s) : v[i] = s[i]
          /\ \A i \in 1..Len(br) : v[Len(s) + i] = br[i]
      <4>0. br \in Seq(A)
        BY <2>10
      <4>1. v \in Seq(A) /\ Len(v) = Len(s) + Len(br)
        BY <4>0, JoinedAt
      <4>2. \A i \in 1..Len(s) : v[i] = s[i]
        BY <4>0, JoinedAt
      <4>3. \A i \in 1..Len(br) : v[Len(s) + i] = br[i]
        BY <4>0, JoinedAt
      <4>. QED
        BY <4>1, <4>2, <4>3
    <3>. HIDE DEF v
    <3>2. Len(v) = Len(bw)
      BY <3>1, <2>8, <2>9, <2>10, <1>1, <2>1
    <3>3. ASSUME NEW i \in 1..Len(bw) PROVE bw[i] = v[i]
      <4>1. CASE i <= Len(s)
        <5>1. i \in 1..Len(s) /\ i \in 1..(k - 1)
          BY <4>1, <1>1, <2>9
        <5>. QED
          BY <5>1, <1>1, <2>9, <3>1
      <4>2. CASE i > Len(s)
        <5>. DEFINE j == i - Len(s)
        <5>1. /\ j \in 1..(m - 1) /\ j \in 1..Len(br) /\ j \in 1..Len(r)
              /\ Len(s) + j = i /\ i \in 1..(k - 1)
          BY <4>2, <1>1, <2>1, <2>8, <2>9, <2>10
        <5>. HIDE DEF j
        <5>2. bw[i] = w[i] /\ w[Len(s) + j] = r[j] /\ br[j] = r[j] /\ v[Len(s) + j] = br[j]
          BY <5>1, <1>1, <2>9, <2>10, <3>1
        <5>. QED
          BY <5>1, <5>2
      <4>. QED
        BY <4>1, <4>2, <1>1, <2>1, <2>8, <2>9
    <3>4. bw = v
      BY <2>9, <3>1, <3>2, <3>3, SeqEqual
    <3>. QED
      BY <3>4 DEF v
  <2>14. aw = ar
    <3>1. Len(aw) = Len(ar)
      BY <1>1, <2>1, <2>8, <2>11, <2>12
    <3>2. ASSUME NEW i \in 1..Len(aw) PROVE aw[i] = ar[i]
      <4>. DEFINE j == m + 1 + i
      <4>1. /\ i \in 1..(Len(w) - k - 1) /\ i \in 1..(Len(r) - m - 1)
            /\ j \in 1..Len(r) /\ Len(s) + j = k + 1 + i
        BY <1>1, <2>1, <2>8, <2>11, <2>12, <3>1
      <4>2. aw[i] = w[k + 1 + i] /\ ar[i] = r[j]
        BY <4>1, <2>11, <2>12
      <4>. HIDE DEF j
      <4>3. w[Len(s) + j] = r[j]
        BY <4>1, <1>1
      <4>. QED
        BY <4>1, <4>2, <4>3
    <3>. QED
      BY <2>11, <2>12, <3>1, <3>2, SeqEqual
  <2>. QED
    BY <2>5, <2>13, <2>14 DEF aw, ar, bw, br
<1>. QED
  BY <1>3, <1>4 DEF w

\* A text that begins with a tag.
LEMMA TagFirst ==
  ASSUME NEW A, NEW r \in Seq(A), NEW tag \in Tags, tag \in Seq(A)
  PROVE  /\ Has(tag, Joined(tag, r))
         /\ Before(tag, Joined(tag, r)) = <<>>
         /\ After(tag, Joined(tag, r)) = r
<1>. DEFINE w == Joined(tag, r)
<1>0. Len(tag) = 2
  BY DEF Tags, OpenTag, CloseTag
<1>1. /\ w \in Seq(A) /\ Len(r) \in Nat /\ Len(w) = 2 + Len(r)
      /\ w[1] = tag[1] /\ w[2] = tag[2]
      /\ \A i \in 1..Len(r) : w[2 + i] = r[i]
  <2>a. w \in Seq(A) /\ Len(r) \in Nat /\ Len(w) = Len(tag) + Len(r)
    BY JoinedAt
  <2>1. w \in Seq(A) /\ Len(r) \in Nat /\ Len(w) = 2 + Len(r)
    BY <1>0, <2>a
  <2>2. \A i \in 1..Len(tag) : w[i] = tag[i]
    BY JoinedAt
  <2>3. \A i \in 1..Len(r) : w[Len(tag) + i] = r[i]
    BY JoinedAt
  <2>. HIDE DEF w
  <2>4. w[1] = tag[1] /\ w[2] = tag[2]
    BY <1>0, <2>2
  <2>. QED
    BY <1>0, <2>1, <2>3, <2>4
<1>. HIDE DEF w
<1>2. Has(tag, w) /\ Min(Places(tag, w)) = 1
  <2>1. 1 \in 1..(Len(w) - 1) /\ At(tag, w, 1) /\ \A i \in 1..(1 - 1) : ~At(tag, w, i)
    BY <1>1 DEF At
  <2>. QED
    BY <1>1, <2>1, FirstIs
<1>3. Before(tag, w) = <<>>
  BY <1>2, SubSeqEmpty DEF Before
<1>. DEFINE a == After(tag, w)
<1>4. a = SubSeq(w, 3, Len(w))
  BY <1>2 DEF After
<1>. HIDE DEF a
<1>5. \A i \in 1..Len(w) : w[i] \in A
  BY <1>1, ElementOfSeq
<1>6. a \in Seq(A) /\ Len(a) = Len(r) /\ \A i \in 1..Len(r) : a[i] = w[2 + i]
  BY <1>1, <1>4, <1>5, SubSeqProperties
<1>7. a = r
  BY <1>1, <1>6, SeqEqual
<1>. QED
  BY <1>2, <1>3, <1>7 DEF w, a

-----------------------------------------------------------------------------
(* What Whole returns.                                                     *)

\* What one call leaves in the text and adds to the calls.
Bodied(rest) == Trim(Before(CloseTag, rest))
Left(body) == IF body = <<>> \/ IsJson(body) THEN <<>> ELSE OpenTag \o body \o CloseTag
Called(body) == IF IsJson(body) THEN <<body>> ELSE <<>>

\* One step of the recursion in Whole, with g for the rest.
Unfold(g, s) ==
  IF ~Has(OpenTag, s)
  THEN [text |-> s, calls |-> <<>>]
  ELSE IF ~Has(CloseTag, After(OpenTag, s))
  THEN [text |-> Before(OpenTag, s), calls |-> <<>>]
  ELSE [text |-> Joined(Joined(Before(OpenTag, s), Left(Bodied(After(OpenTag, s)))),
                        g[After(CloseTag, After(OpenTag, s))].text),
        calls |-> Joined(Called(Bodied(After(OpenTag, s))),
                         g[After(CloseTag, After(OpenTag, s))].calls)]

\* A step looks at shorter texts only.
LEMMA UnfoldLocal ==
  ASSUME NEW s \in Seq(Symbols), NEW g, NEW h,
         \A t \in Seq(Symbols) : Len(t) < Len(s) => g[t] = h[t]
  PROVE  Unfold(g, s) = Unfold(h, s)
<1>1. CASE Has(OpenTag, s) /\ Has(CloseTag, After(OpenTag, s))
  <2>. DEFINE a == After(OpenTag, s)
              t == After(CloseTag, a)
  <2>1. a \in Seq(Symbols) /\ Len(a) \in Nat /\ Len(s) \in Nat /\ Len(a) < Len(s)
    BY <1>1, AfterLess DEF Tags
  <2>2. t \in Seq(Symbols) /\ Len(t) \in Nat /\ Len(t) < Len(a)
    BY <1>1, <2>1, AfterLess DEF Tags
  <2>. HIDE DEF a, t
  <2>3. Len(t) < Len(s)
    BY <2>1, <2>2
  <2>4. g[t] = h[t]
    BY <2>2, <2>3
  <2>. QED
    BY <2>4 DEF Unfold, a, t
<1>2. CASE ~(Has(OpenTag, s) /\ Has(CloseTag, After(OpenTag, s)))
  BY <1>2 DEF Unfold
<1>. QED
  BY <1>1, <1>2

\* g is the recursion on texts shorter than n.
Unfolding(g, n) == \A s \in Seq(Symbols) : Len(s) < n => g[s] = Unfold(g, s)

\* There is such a g, for every n.
LEMMA UnfoldingExists == \A n \in Nat : \E g : Unfolding(g, n)
<1>. DEFINE T == {n \in Nat : \E g : Unfolding(g, n)}
<1>1. 0 \in T
  <2>1. \A s \in Seq(Symbols) : Len(s) \in Nat
    BY LenProperties
  <2>2. Unfolding(<<>>, 0)
    BY <2>1 DEF Unfolding
  <2>. QED
    BY <2>2
<1>2. ASSUME NEW n \in Nat, n \in T PROVE n + 1 \in T
  <2>1. PICK g : Unfolding(g, n)
    BY <1>2
  <2>. DEFINE pass(s) == IF Len(s) < n THEN g[s] ELSE Unfold(g, s)
              h == [s \in Seq(Symbols) |-> pass(s)]
  <2>. HIDE DEF pass
  <2>2. \A s \in Seq(Symbols) : h[s] = pass(s)
    OBVIOUS
  <2>. HIDE DEF h
  <2>3. ASSUME NEW s \in Seq(Symbols), Len(s) < n + 1 PROVE h[s] = Unfold(h, s)
    <3>0. Len(s) \in Nat
      BY LenProperties
    <3>1. h[s] = Unfold(g, s)
      <4>1. CASE Len(s) < n
        <5>1. h[s] = g[s]
          BY <2>2, <4>1 DEF pass
        <5>2. g[s] = Unfold(g, s)
          BY <2>1, <4>1 DEF Unfolding
        <5>. QED
          BY <5>1, <5>2
      <4>2. CASE ~(Len(s) < n)
        BY <2>2, <4>2 DEF pass
      <4>. QED
        BY <4>1, <4>2
    <3>2. ASSUME NEW t \in Seq(Symbols), Len(t) < Len(s) PROVE g[t] = h[t]
      <4>1. Len(t) < n
        <5>1. Len(t) \in Nat
          BY LenProperties
        <5>. QED
          BY <5>1, <3>0, <3>2, <2>3
      <4>. QED
        BY <2>2, <4>1 DEF pass
    <3>3. Unfold(g, s) = Unfold(h, s)
      BY <3>2, UnfoldLocal
    <3>. QED
      BY <3>1, <3>3
  <2>4. Unfolding(h, n + 1)
    BY <2>3 DEF Unfolding
  <2>. QED
    BY <2>4
<1>. HIDE DEF T
<1>3. \A n \in Nat : n \in T
  BY <1>1, <1>2, Induct
<1>. QED
  BY <1>3 DEF T

\* And only one, on those texts.
LEMMA UnfoldingAgree ==
  ASSUME NEW g, NEW h, NEW m \in Nat, Unfolding(g, m), Unfolding(h, m)
  PROVE  \A s \in Seq(Symbols) : Len(s) < m => g[s] = h[s]
<1>. DEFINE P(n) == n <= m => \A s \in Seq(Symbols) : Len(s) < n => g[s] = h[s]
            T == {n \in Nat : P(n)}
<1>0. \A s \in Seq(Symbols) : Len(s) \in Nat
  BY LenProperties
<1>1. P(0)
  BY <1>0
<1>2. ASSUME NEW n \in Nat, P(n) PROVE P(n + 1)
  <2>. SUFFICES ASSUME n + 1 <= m, NEW s \in Seq(Symbols), Len(s) < n + 1 PROVE g[s] = h[s]
    OBVIOUS
  <2>1. ASSUME NEW t \in Seq(Symbols), Len(t) < Len(s) PROVE g[t] = h[t]
    <3>1. Len(t) < n /\ n <= m
      BY <1>0, <2>1
    <3>. QED
      BY <3>1, <1>2
  <2>2. Unfold(g, s) = Unfold(h, s)
    BY <2>1, UnfoldLocal
  <2>3. Len(s) < m
    BY <1>0
  <2>4. g[s] = Unfold(g, s) /\ h[s] = Unfold(h, s)
    BY <2>3 DEF Unfolding
  <2>. QED
    BY <2>2, <2>4
<1>. HIDE DEF P
<1>3. 0 \in T /\ \A n \in Nat : n \in T => n + 1 \in T
  BY <1>1, <1>2
<1>4. m \in T
  <2>. HIDE DEF T
  <2>. QED
    BY <1>3, Induct
<1>5. P(m)
  BY <1>4
<1>. QED
  BY <1>5 DEF P

\* Whole is the recursion that defines it.
LEMMA WholeIs == \A s \in Seq(Symbols) : Whole[s] = Unfold(Whole, s)
<1>. DEFINE Solves(f) == f = [s \in Seq(Symbols) |-> Unfold(f, s)]
            pick(s) == CHOOSE g : Unfolding(g, Len(s) + 1)
            f == [s \in Seq(Symbols) |-> pick(s)[s]]
<1>0. \A s \in Seq(Symbols) : Len(s) \in Nat
  BY LenProperties
<1>1. ASSUME NEW s \in Seq(Symbols) PROVE Unfolding(pick(s), Len(s) + 1)
  <2>1. \E g : Unfolding(g, Len(s) + 1)
    BY <1>0, UnfoldingExists
  <2>. QED
    BY <2>1
<1>. HIDE DEF pick
<1>2. \A s \in Seq(Symbols) : f[s] = pick(s)[s]
  OBVIOUS
<1>3. f = [s \in Seq(Symbols) |-> f[s]]
  OBVIOUS
<1>. HIDE DEF f
<1>4. ASSUME NEW s \in Seq(Symbols) PROVE f[s] = Unfold(f, s)
  <2>1. pick(s)[s] = Unfold(pick(s), s)
    <3>1. Len(s) < Len(s) + 1
      BY <1>0
    <3>. QED
      BY <1>1, <3>1 DEF Unfolding
  <2>2. ASSUME NEW t \in Seq(Symbols), Len(t) < Len(s) PROVE pick(s)[t] = f[t]
    <3>1. Len(t) \in Nat /\ Len(s) \in Nat /\ Len(t) < Len(t) + 1 /\ Len(t) + 1 \in Nat
      BY <1>0
    <3>2. Unfolding(pick(s), Len(t) + 1)
      <4>1. Unfolding(pick(s), Len(s) + 1)
        BY <1>1
      <4>2. \A u \in Seq(Symbols) : Len(u) < Len(t) + 1 => Len(u) < Len(s) + 1
        BY <1>0, <2>2
      <4>. QED
        BY <4>1, <4>2 DEF Unfolding
    <3>3. Unfolding(pick(t), Len(t) + 1)
      BY <1>1
    <3>4. pick(s)[t] = pick(t)[t]
      BY <3>1, <3>2, <3>3, UnfoldingAgree
    <3>. QED
      BY <3>4, <1>2
  <2>3. Unfold(pick(s), s) = Unfold(f, s)
    BY <2>2, UnfoldLocal
  <2>. QED
    BY <1>2, <2>1, <2>3
<1>5. Solves(f)
  <2>. DEFINE F(s) == Unfold(f, s)
              G(s) == f[s]
  <2>1. \A s \in Seq(Symbols) : F(s) = G(s)
    BY <1>4
  <2>2. f = [s \in Seq(Symbols) |-> G(s)]
    BY <1>3
  <2>. HIDE DEF F, G
  <2>3. f = [s \in Seq(Symbols) |-> F(s)]
    BY <2>1, <2>2
  <2>. QED
    BY <2>3 DEF F
<1>6. Whole = CHOOSE h : Solves(h)
  BY DEF Whole, Unfold, Left, Called, Bodied, Joined
<1>7. Solves(Whole)
  <2>. HIDE DEF Solves
  <2>. QED
    BY <1>5, <1>6
<1>8. ASSUME NEW s \in Seq(Symbols) PROVE Whole[s] = Unfold(Whole, s)
  <2>. DEFINE w == Whole
              F(u) == Unfold(w, u)
  <2>1. w = [u \in Seq(Symbols) |-> F(u)]
    BY <1>7
  <2>. HIDE DEF w, F
  <2>2. w[s] = F(s)
    BY <2>1
  <2>. QED
    BY <2>2 DEF w, F
<1>. QED
  BY <1>8

\* Symbols are letters.
LEMMA SymbolSeq == ASSUME NEW s \in Seq(Symbols) PROVE s \in Seq(Letters)
<1>1. Len(s) \in Nat /\ \A i \in 1..Len(s) : s[i] \in Symbols
  BY LenProperties, ElementOfSeq
<1>2. \A i \in 1..Len(s) : s[i] \in Letters
  BY <1>1 DEF Letters
<1>. QED
  BY <1>1, <1>2, IsASeq

\* How lists of texts are put together.
LEMMA ListAlgebra ==
  /\ \A x \in Seq(Seq(Letters)), y \in Seq(Seq(Letters)) : Joined(x, y) \in Seq(Seq(Letters))
  /\ \A x \in Seq(Seq(Letters)), y \in Seq(Seq(Letters)), z \in Seq(Seq(Letters)) :
       Joined(Joined(x, y), z) = Joined(x, Joined(y, z))
  /\ \A x \in Seq(Seq(Letters)) : Joined(x, <<>>) = x /\ Joined(<<>>, x) = x
  /\ <<>> \in Seq(Seq(Letters))
BY ConcatProperties, ConcatAssociative, ConcatEmptySeq, EmptySeq DEF Joined

\* What a call leaves is text, and what it adds a list of at most one call.
LEMMA BodyTypes ==
  ASSUME NEW body \in Seq(Letters)
  PROVE  Left(body) \in Seq(Letters) /\ Called(body) \in Seq(Seq(Letters))
<1>1. Joined(Joined(OpenTag, body), CloseTag) \in Seq(Letters)
  BY InkTag, TextAlgebra DEF Tags
<1>2. OpenTag \o body \o CloseTag \in Seq(Letters)
  BY <1>1 DEF Joined
<1>3. <<>> \in Seq(Letters) /\ <<>> \in Seq(Seq(Letters)) /\ <<body>> \in Seq(Seq(Letters))
  BY EmptySeq
<1>. QED
  BY <1>2, <1>3 DEF Left, Called

\* What Whole returns for a text without a call, and for one with a call.
LEMMA WholeSteps ==
  ASSUME NEW s \in Seq(Symbols)
  PROVE  /\ ~Has(OpenTag, s) => Whole[s].text = s /\ Whole[s].calls = <<>>
         /\ Has(OpenTag, s) =>
              LET a == After(OpenTag, s)
                  t == After(CloseTag, a)
                  body == Trim(Before(CloseTag, a))
              IN  /\ ~Has(CloseTag, a) =>
                       Whole[s].text = Before(OpenTag, s) /\ Whole[s].calls = <<>>
                  /\ Has(CloseTag, a) =>
                       /\ Whole[s].text = Joined(Joined(Before(OpenTag, s), Left(body)), Whole[t].text)
                       /\ Whole[s].calls = Joined(Called(body), Whole[t].calls)
<1>1. Whole[s] = Unfold(Whole, s)
  BY WholeIs
<1>. DEFINE w == Whole
<1>. HIDE DEF w
<1>2. w[s] = Unfold(w, s)
  BY <1>1 DEF w
<1>. DEFINE a == After(OpenTag, s)
            t == After(CloseTag, a)
            body == Trim(Before(CloseTag, a))
<1>3. ~Has(OpenTag, s) => w[s].text = s /\ w[s].calls = <<>>
  BY <1>2 DEF Unfold
<1>4. Has(OpenTag, s) /\ ~Has(CloseTag, a) => w[s].text = Before(OpenTag, s) /\ w[s].calls = <<>>
  BY <1>2 DEF Unfold
<1>5. Has(OpenTag, s) /\ Has(CloseTag, a) =>
        /\ w[s].text = Joined(Joined(Before(OpenTag, s), Left(body)), w[t].text)
        /\ w[s].calls = Joined(Called(body), w[t].calls)
  BY <1>2 DEF Unfold, Bodied
<1>. QED
  BY <1>3, <1>4, <1>5 DEF w

\* It returns a text and a list of texts.
LEMMA WholeTypes ==
  \A s \in Seq(Symbols) : Whole[s].text \in Seq(Letters) /\ Whole[s].calls \in Seq(Seq(Letters))
<1>. DEFINE Typed(s) == Whole[s].text \in Seq(Letters) /\ Whole[s].calls \in Seq(Seq(Letters))
            T == {n \in Nat : \A s \in Seq(Symbols) : Len(s) < n => Typed(s)}
<1>0. \A s \in Seq(Symbols) : Len(s) \in Nat
  BY LenProperties
<1>1. 0 \in T
  BY <1>0
<1>2. ASSUME NEW n \in Nat, n \in T PROVE n + 1 \in T
  <2>. SUFFICES ASSUME NEW s \in Seq(Symbols), Len(s) < n + 1 PROVE Typed(s)
    OBVIOUS
  <2>0. s \in Seq(Letters)
    BY SymbolSeq
  <2>1. CASE ~Has(OpenTag, s)
    <3>1. Whole[s].text = s /\ Whole[s].calls = <<>>
      BY <2>1, WholeSteps
    <3>. QED
      BY <2>0, <3>1, ListAlgebra
  <2>2. CASE Has(OpenTag, s)
    <3>. DEFINE b == Before(OpenTag, s)
                a == After(OpenTag, s)
                c == Before(CloseTag, a)
                t == After(CloseTag, a)
    <3>1. b \in Seq(Symbols) /\ a \in Seq(Symbols) /\ Len(a) < Len(s) /\ Len(a) \in Nat
      BY <2>2, AfterLess DEF Tags
    <3>2. b \in Seq(Letters)
      BY <3>1, SymbolSeq
    <3>3. CASE ~Has(CloseTag, a)
      <4>1. Whole[s].text = b /\ Whole[s].calls = <<>>
        BY <2>2, <3>3, WholeSteps
      <4>. QED
        BY <3>2, <4>1, ListAlgebra
    <3>4. CASE Has(CloseTag, a)
      <4>1. c \in Seq(Symbols) /\ t \in Seq(Symbols) /\ Len(t) < Len(a) /\ Len(t) \in Nat
        BY <3>1, <3>4, AfterLess DEF Tags
      <4>2. Trim(c) \in Seq(Letters)
        BY <4>1, SymbolSeq, TrimInk
      <4>3. Typed(t)
        <5>1. Len(t) < n
          BY <1>0, <3>1, <4>1
        <5>. QED
          BY <1>2, <4>1, <5>1
      <4>4. /\ Whole[s].text = Joined(Joined(b, Left(Trim(c))), Whole[t].text)
            /\ Whole[s].calls = Joined(Called(Trim(c)), Whole[t].calls)
        BY <2>2, <3>4, WholeSteps
      <4>. HIDE DEF a, b, c, t
      <4>5. Whole[s].text \in Seq(Letters)
        <5>1. Left(Trim(c)) \in Seq(Letters)
          BY <4>2, BodyTypes
        <5>2. Joined(b, Left(Trim(c))) \in Seq(Letters)
          BY <3>2, <5>1, TextAlgebra
        <5>. QED
          BY <4>3, <4>4, <5>2, TextAlgebra
      <4>6. Whole[s].calls \in Seq(Seq(Letters))
        BY <4>2, <4>3, <4>4, BodyTypes, ListAlgebra
      <4>. QED
        BY <4>5, <4>6
    <3>. QED
      BY <3>3, <3>4
  <2>. QED
    BY <2>1, <2>2
<1>. HIDE DEF T
<1>3. \A n \in Nat : n \in T
  BY <1>1, <1>2, Induct
<1>4. ASSUME NEW s \in Seq(Symbols) PROVE Typed(s)
  <2>1. Len(s) + 1 \in T /\ Len(s) < Len(s) + 1
    BY <1>0, <1>3
  <2>. QED
    BY <2>1 DEF T
<1>. QED
  BY <1>4

\* Text before the first call is passed on.
LEMMA WholePass ==
  ASSUME NEW s \in Seq(Symbols), NEW r \in Seq(Symbols), ~Has(OpenTag, s), Apart(OpenTag, s, r)
  PROVE  /\ Whole[Joined(s, r)].text = Joined(s, Whole[r].text)
         /\ Whole[Joined(s, r)].calls = Whole[r].calls
<1>. DEFINE w == Joined(s, r)
<1>1. w \in Seq(Symbols)
  BY JoinedAt
<1>2. /\ Has(OpenTag, w) <=> Has(OpenTag, r)
      /\ Has(OpenTag, r) => /\ Before(OpenTag, w) = Joined(s, Before(OpenTag, r))
                            /\ After(OpenTag, w) = After(OpenTag, r)
  BY TagJoined DEF Tags
<1>3. s \in Seq(Letters) /\ r \in Seq(Letters)
  BY SymbolSeq
<1>4. CASE ~Has(OpenTag, r)
  <2>1. Whole[r].text = r /\ Whole[r].calls = <<>> /\ Whole[w].text = w /\ Whole[w].calls = <<>>
    BY <1>1, <1>2, <1>4, WholeSteps
  <2>. QED
    BY <2>1
<1>5. CASE Has(OpenTag, r)
  <2>. DEFINE b == Before(OpenTag, r)
              a == After(OpenTag, r)
              c == Before(CloseTag, a)
              t == After(CloseTag, a)
  <2>1. b \in Seq(Symbols) /\ a \in Seq(Symbols)
    BY <1>5, AfterLess DEF Tags
  <2>2. b \in Seq(Letters)
    BY <2>1, SymbolSeq
  <2>3. CASE ~Has(CloseTag, a)
    <3>1. Whole[r].text = b /\ Whole[r].calls = <<>>
      BY <1>5, <2>3, WholeSteps
    <3>2. Whole[w].text = Joined(s, b) /\ Whole[w].calls = <<>>
      BY <1>1, <1>2, <1>5, <2>3, WholeSteps
    <3>. QED
      BY <3>1, <3>2
  <2>4. CASE Has(CloseTag, a)
    <3>1. c \in Seq(Symbols) /\ t \in Seq(Symbols)
      BY <2>1, <2>4, AfterLess DEF Tags
    <3>2. Left(Trim(c)) \in Seq(Letters) /\ Whole[t].text \in Seq(Letters)
      BY <3>1, SymbolSeq, TrimInk, BodyTypes, WholeTypes
    <3>3. /\ Whole[r].text = Joined(Joined(b, Left(Trim(c))), Whole[t].text)
          /\ Whole[r].calls = Joined(Called(Trim(c)), Whole[t].calls)
      BY <1>5, <2>4, WholeSteps
    <3>4. /\ Whole[w].text = Joined(Joined(Joined(s, b), Left(Trim(c))), Whole[t].text)
          /\ Whole[w].calls = Joined(Called(Trim(c)), Whole[t].calls)
      <4>1. After(OpenTag, w) = a /\ Before(OpenTag, w) = Joined(s, b) /\ Has(OpenTag, w)
        BY <1>2, <1>5
      <4>. HIDE DEF w
      <4>. QED
        BY <1>1, <2>4, <4>1, WholeSteps
    <3>. HIDE DEF w, a, b, c, t
    <3>5. Joined(Joined(Joined(s, b), Left(Trim(c))), Whole[t].text)
            = Joined(s, Joined(Joined(b, Left(Trim(c))), Whole[t].text))
      <4>. DEFINE x == Left(Trim(c))
                  y == Whole[t].text
      <4>1. x \in Seq(Letters) /\ y \in Seq(Letters)
        BY <3>2
      <4>. HIDE DEF x, y
      <4>2. Joined(Joined(s, b), x) = Joined(s, Joined(b, x)) /\ Joined(b, x) \in Seq(Letters)
        BY <1>3, <2>2, <4>1, TextAlgebra
      <4>3. Joined(Joined(Joined(s, b), x), y) = Joined(s, Joined(Joined(b, x), y))
        BY <1>3, <4>1, <4>2, TextAlgebra
      <4>. QED
        BY <4>3 DEF x, y
    <3>6. Whole[w].text = Joined(s, Whole[r].text) /\ Whole[w].calls = Whole[r].calls
      BY <3>3, <3>4, <3>5
    <3>. QED
      BY <3>6 DEF w
  <2>. QED
    BY <2>3, <2>4
<1>. QED
  BY <1>4, <1>5

\* The tags are texts.
LEMMA TagTexts ==
  /\ OpenTag \in Seq(Symbols) /\ CloseTag \in Seq(Symbols)
  /\ OpenTag \in Tags /\ CloseTag \in Tags
  /\ OpenTag[1] # OpenTag[2] /\ CloseTag[1] # CloseTag[2]
BY DEF OpenTag, CloseTag, Symbols, Tags

\* A call at the front is taken out.
LEMMA WholeCall ==
  ASSUME NEW s \in Seq(Symbols), NEW r \in Seq(Symbols), ~Has(CloseTag, s)
  PROVE  LET w == Joined(OpenTag, Joined(s, Joined(CloseTag, r)))
         IN  /\ Whole[w].text = Joined(Left(Trim(s)), Whole[r].text)
             /\ Whole[w].calls = Joined(Called(Trim(s)), Whole[r].calls)
<1>. DEFINE u == Joined(CloseTag, r)
            v == Joined(s, u)
            w == Joined(OpenTag, v)
<1>1. u \in Seq(Symbols)
  BY JoinedAt, TagTexts
<1>2. Has(CloseTag, u) /\ Before(CloseTag, u) = <<>> /\ After(CloseTag, u) = r
  BY TagFirst, TagTexts
<1>3. Apart(CloseTag, s, u)
  <2>1. Len(CloseTag) = 2
    BY DEF CloseTag
  <2>2. \A i \in 1..Len(CloseTag) : u[i] = CloseTag[i]
    BY JoinedAt, TagTexts
  <2>3. u[1] = CloseTag[1]
    BY <2>1, <2>2
  <2>. QED
    BY <2>3, TagTexts DEF Apart
<1>. HIDE DEF u
<1>4. v \in Seq(Symbols)
  BY <1>1, JoinedAt
<1>5. Has(CloseTag, v) /\ Before(CloseTag, v) = Joined(s, <<>>) /\ After(CloseTag, v) = r
  BY <1>1, <1>2, <1>3, TagJoined, TagTexts
<1>6. s \in Seq(Letters) /\ Joined(s, <<>>) = s
  BY SymbolSeq, TextAlgebra
<1>. HIDE DEF v
<1>7. w \in Seq(Symbols)
  BY <1>4, JoinedAt, TagTexts
<1>8. Has(OpenTag, w) /\ Before(OpenTag, w) = <<>> /\ After(OpenTag, w) = v
  BY <1>4, TagFirst, TagTexts
<1>. HIDE DEF w
<1>9. /\ Whole[w].text = Joined(Joined(<<>>, Left(Trim(s))), Whole[r].text)
      /\ Whole[w].calls = Joined(Called(Trim(s)), Whole[r].calls)
  BY <1>5, <1>6, <1>7, <1>8, WholeSteps
<1>10. Joined(<<>>, Left(Trim(s))) = Left(Trim(s))
  BY <1>6, TrimInk, BodyTypes, TextAlgebra
<1>. QED
  BY <1>9, <1>10 DEF u, v, w

\* A call that is not closed is dropped.
LEMMA WholeUnclosed ==
  ASSUME NEW s \in Seq(Symbols), ~Has(CloseTag, s)
  PROVE  /\ Whole[Joined(OpenTag, s)].text = <<>>
         /\ Whole[Joined(OpenTag, s)].calls = <<>>
<1>. DEFINE w == Joined(OpenTag, s)
<1>1. w \in Seq(Symbols)
  BY JoinedAt, TagTexts
<1>2. Has(OpenTag, w) /\ Before(OpenTag, w) = <<>> /\ After(OpenTag, w) = s
  BY TagFirst, TagTexts
<1>. HIDE DEF w
<1>3. Whole[w].text = <<>> /\ Whole[w].calls = <<>>
  BY <1>1, <1>2, WholeSteps
<1>. QED
  BY <1>3 DEF w

-----------------------------------------------------------------------------
(* What the client reads of a stream.                                      *)

KindsOf(s, kinds) == Kept(s, [kind : kinds, index : Nat, text : Seq(Letters)])
TextList(s) == [i \in DOMAIN s |-> s[i].text]

\* The chunks of some kinds, taken from two streams.
LEMMA KindsJoined ==
  ASSUME NEW kinds
  PROVE  /\ \A s \in Seq(Chunks) : KindsOf(s, kinds) \in Seq(Chunks)
         /\ \A s \in Seq(Chunks), t \in Seq(Chunks) :
              KindsOf(Joined(s, t), kinds) = Joined(KindsOf(s, kinds), KindsOf(t, kinds))
         /\ KindsOf(<<>>, kinds) = <<>>
<1>. DEFINE S == [kind : kinds, index : Nat, text : Seq(Letters)]
<1>1. \A s \in Seq(Chunks) : Kept(s, S) \in Seq(Chunks)
  BY KeptType
<1>2. \A s \in Seq(Chunks), t \in Seq(Chunks) : Kept(s \o t, S) = Kept(s, S) \o Kept(t, S)
  BY KeptConcat
<1>3. Kept(<<>>, S) = <<>>
  BY KeptEmpty
<1>. QED
  BY <1>1, <1>2, <1>3 DEF KindsOf, Joined

\* And from a stream of one chunk.
LEMMA KindsOne ==
  ASSUME NEW kinds, NEW c \in Chunks
  PROVE  KindsOf(<<c>>, kinds) = IF c.kind \in kinds THEN <<c>> ELSE <<>>
<1>1. c \in [kind : kinds, index : Nat, text : Seq(Letters)] <=> c.kind \in kinds
  BY DEF Chunks
<1>. QED
  BY <1>1, KeptOne DEF KindsOf

\* The texts of the chunks, one by one.
LEMMA TextListType ==
  ASSUME NEW s \in Seq(Chunks)
  PROVE  /\ TextList(s) \in Seq(Seq(Letters))
         /\ Len(s) \in Nat /\ Len(TextList(s)) = Len(s)
         /\ \A i \in 1..Len(s) : TextList(s)[i] = s[i].text
<1>1. Len(s) \in Nat /\ DOMAIN s = 1..Len(s) /\ \A i \in 1..Len(s) : s[i] \in Chunks
  BY LenProperties, ElementOfSeq
<1>2. \A i \in 1..Len(s) : s[i].text \in Seq(Letters)
  BY <1>1 DEF Chunks
<1>. DEFINE f(i) == s[i].text
            l == [i \in 1..Len(s) |-> f(i)]
<1>3. TextList(s) = l
  BY <1>1 DEF TextList
<1>4. \A i \in 1..Len(s) : f(i) \in Seq(Letters)
  BY <1>2
<1>. HIDE DEF f
<1>5. l \in Seq(Seq(Letters)) /\ Len(l) = Len(s) /\ \A i \in 1..Len(s) : l[i] = f(i)
  BY <1>1, <1>4, IsASeq
<1>. HIDE DEF l
<1>6. \A i \in 1..Len(s) : f(i) = s[i].text
  BY DEF f
<1>. QED
  BY <1>1, <1>3, <1>5, <1>6

\* The lists of two streams are put together.
LEMMA TextListJoined ==
  ASSUME NEW s \in Seq(Chunks), NEW t \in Seq(Chunks)
  PROVE  TextList(Joined(s, t)) = Joined(TextList(s), TextList(t))
<1>. DEFINE w == Joined(s, t)
            v == Joined(TextList(s), TextList(t))
<1>1. w \in Seq(Chunks) /\ Len(s) \in Nat /\ Len(t) \in Nat /\ Len(w) = Len(s) + Len(t)
  BY JoinedAt
<1>2. \A i \in 1..Len(s) : w[i] = s[i]
  BY JoinedAt
<1>3. \A i \in 1..Len(t) : w[Len(s) + i] = t[i]
  BY JoinedAt
<1>4. /\ TextList(s) \in Seq(Seq(Letters)) /\ Len(TextList(s)) = Len(s)
      /\ TextList(t) \in Seq(Seq(Letters)) /\ Len(TextList(t)) = Len(t)
  BY TextListType
<1>5. \A i \in 1..Len(s) : TextList(s)[i] = s[i].text
  BY TextListType
<1>6. \A i \in 1..Len(t) : TextList(t)[i] = t[i].text
  BY TextListType
<1>7. ASSUME NEW x \in Seq(Seq(Letters)), NEW y \in Seq(Seq(Letters))
      PROVE  /\ Joined(x, y) \in Seq(Seq(Letters)) /\ Len(Joined(x, y)) = Len(x) + Len(y)
             /\ \A i \in 1..Len(x) : Joined(x, y)[i] = x[i]
             /\ \A i \in 1..Len(y) : Joined(x, y)[Len(x) + i] = y[i]
  <2>1. Joined(x, y) \in Seq(Seq(Letters)) /\ Len(Joined(x, y)) = Len(x) + Len(y)
    BY JoinedAt
  <2>2. \A i \in 1..Len(x) : Joined(x, y)[i] = x[i]
    BY JoinedAt
  <2>3. \A i \in 1..Len(y) : Joined(x, y)[Len(x) + i] = y[i]
    BY JoinedAt
  <2>. QED
    BY <2>1, <2>2, <2>3
<1>8. /\ v \in Seq(Seq(Letters)) /\ Len(v) = Len(TextList(s)) + Len(TextList(t))
      /\ \A i \in 1..Len(TextList(s)) : v[i] = TextList(s)[i]
      /\ \A i \in 1..Len(TextList(t)) : v[Len(TextList(s)) + i] = TextList(t)[i]
  BY <1>4, <1>7
<1>. HIDE DEF w, v
<1>10. /\ TextList(w) \in Seq(Seq(Letters)) /\ Len(TextList(w)) = Len(w)
       /\ \A i \in 1..Len(w) : TextList(w)[i] = w[i].text
  BY <1>1, TextListType
<1>11. Len(TextList(w)) = Len(v)
  BY <1>1, <1>4, <1>8, <1>10
<1>12. ASSUME NEW i \in 1..Len(v) PROVE TextList(w)[i] = v[i]
  <2>0. i \in 1..Len(w) /\ TextList(w)[i] = w[i].text
    BY <1>10, <1>11
  <2>1. CASE i <= Len(s)
    <3>1. i \in 1..Len(s)
      BY <2>1, <1>1, <1>4, <1>8
    <3>. QED
      BY <2>0, <3>1, <1>2, <1>4, <1>5, <1>8
  <2>2. CASE ~(i <= Len(s))
    <3>. DEFINE j == i - Len(s)
    <3>1. j \in 1..Len(t) /\ Len(s) + j = i
      BY <2>2, <1>1, <1>4, <1>8
    <3>. HIDE DEF j
    <3>2. w[i] = t[j] /\ v[i] = TextList(t)[j] /\ TextList(t)[j] = t[j].text
      BY <3>1, <1>3, <1>4, <1>6, <1>8
    <3>. QED
      BY <2>0, <3>2
  <2>. QED
    BY <2>1, <2>2
<1>13. TextList(w) = v
  BY <1>8, <1>10, <1>11, <1>12, SeqEqual
<1>. QED
  BY <1>13 DEF w, v

\* The list of no chunk and of one.
LEMMA TextListFew == TextList(<<>>) = <<>> /\ \A c : TextList(<<c>>) = <<c.text>>
BY DEF TextList

\* A stream shows a text, gives a list of calls to one who reads it as it comes, and n
\* calls to one who gets them collected.
Reads(s, x, list, n) ==
  /\ s \in Seq(Chunks)
  /\ Texts(KindsOf(s, {"text"})) = x
  /\ TextList(KindsOf(s, {"args", "call"})) = list
  /\ Len(KindsOf(s, {"tool_start", "call"})) = n

\* What a stream shows is a text, and what it gives a list of texts.
LEMMA ReadsTypes ==
  ASSUME NEW s, NEW x, NEW list, NEW n, Reads(s, x, list, n)
  PROVE  x \in Seq(Letters) /\ list \in Seq(Seq(Letters)) /\ n \in Nat
<1>1. /\ KindsOf(s, {"text"}) \in Seq(Chunks) /\ KindsOf(s, {"args", "call"}) \in Seq(Chunks)
      /\ KindsOf(s, {"tool_start", "call"}) \in Seq(Chunks)
  BY KindsJoined DEF Reads
<1>2. Texts(KindsOf(s, {"text"})) \in Seq(Letters)
  BY <1>1, TextsJoined
<1>3. TextList(KindsOf(s, {"args", "call"})) \in Seq(Seq(Letters))
  BY <1>1, TextListType
<1>4. Len(KindsOf(s, {"tool_start", "call"})) \in Nat
  BY <1>1, LenProperties
<1>. QED
  BY <1>2, <1>3, <1>4 DEF Reads

\* Two streams, one after the other.
LEMMA ReadsJoined ==
  ASSUME NEW s, NEW x, NEW list, NEW n, Reads(s, x, list, n),
         NEW t, NEW y, NEW more, NEW m, Reads(t, y, more, m)
  PROVE  Reads(Joined(s, t), Joined(x, y), Joined(list, more), n + m)
<1>. DEFINE w == Joined(s, t)
<1>0. s \in Seq(Chunks) /\ t \in Seq(Chunks) /\ w \in Seq(Chunks)
  BY TextsJoined DEF Reads
<1>1. \A kinds : KindsOf(s, kinds) \in Seq(Chunks) /\ KindsOf(t, kinds) \in Seq(Chunks)
  BY <1>0, KindsJoined
<1>2. \A kinds : KindsOf(w, kinds) = Joined(KindsOf(s, kinds), KindsOf(t, kinds))
  BY <1>0, KindsJoined
<1>. HIDE DEF w
<1>3. Texts(KindsOf(w, {"text"})) = Joined(x, y)
  BY <1>1, <1>2, TextsJoined DEF Reads
<1>4. TextList(KindsOf(w, {"args", "call"})) = Joined(list, more)
  BY <1>1, <1>2, TextListJoined DEF Reads
<1>5. Len(KindsOf(w, {"tool_start", "call"})) = n + m
  <2>. DEFINE a == KindsOf(s, {"tool_start", "call"})
              b == KindsOf(t, {"tool_start", "call"})
  <2>1. a \in Seq(Chunks) /\ b \in Seq(Chunks) /\ KindsOf(w, {"tool_start", "call"}) = Joined(a, b)
    BY <1>1, <1>2
  <2>2. Len(a) = n /\ Len(b) = m
    BY DEF Reads
  <2>. HIDE DEF a, b
  <2>3. Len(Joined(a, b)) = Len(a) + Len(b)
    BY <2>1, JoinedAt
  <2>. QED
    BY <2>1, <2>2, <2>3
<1>. QED
  BY <1>0, <1>3, <1>4, <1>5 DEF Reads, w

\* A stream of nothing.
LEMMA ReadsNone == Reads(<<>>, <<>>, <<>>, 0)
<1>1. \A kinds : KindsOf(<<>>, kinds) = <<>>
  BY KindsJoined
<1>2. <<>> \in Seq(Chunks) /\ Len(<<>>) = 0
  BY EmptySeq
<1>. QED
  BY <1>1, <1>2, TextsEmpty, TextListFew DEF Reads

\* A stream of one chunk.
LEMMA ReadsOne ==
  ASSUME NEW c \in Chunks
  PROVE  Reads(<<c>>, IF c.kind = "text" THEN c.text ELSE <<>>,
               IF c.kind \in {"args", "call"} THEN <<c.text>> ELSE <<>>,
               IF c.kind \in {"tool_start", "call"} THEN 1 ELSE 0)
<1>1. \A kinds : KindsOf(<<c>>, kinds) = IF c.kind \in kinds THEN <<c>> ELSE <<>>
  BY KindsOne
<1>2. <<c>> \in Seq(Chunks) /\ Len(<<c>>) = 1 /\ Len(<<>>) = 0
  BY EmptySeq
<1>3. Texts(KindsOf(<<c>>, {"text"})) = IF c.kind = "text" THEN c.text ELSE <<>>
  BY <1>1, TextsEmpty, TextsOne
<1>4. TextList(KindsOf(<<c>>, {"args", "call"})) = IF c.kind \in {"args", "call"} THEN <<c.text>> ELSE <<>>
  BY <1>1, TextListFew
<1>5. Len(KindsOf(<<c>>, {"tool_start", "call"})) = IF c.kind \in {"tool_start", "call"} THEN 1 ELSE 0
  BY <1>1, <1>2
<1>. QED
  BY <1>2, <1>3, <1>4, <1>5 DEF Reads

\* Chunks that are neither text nor call.
Quiet(c) == c.kind \notin {"text", "args", "call", "tool_start"}

\* They say nothing.
LEMMA ReadsQuiet == ASSUME NEW c \in Chunks, Quiet(c) PROVE Reads(<<c>>, <<>>, <<>>, 0)
BY ReadsOne DEF Quiet

\* Streams of a few chunks.
LEMMA JoinedFew ==
  ASSUME NEW c \in Chunks, NEW d \in Chunks, NEW e \in Chunks
  PROVE  /\ Joined(<<c>>, <<d>>) = <<c, d>>
         /\ Joined(Joined(<<c>>, <<d>>), <<e>>) = <<c, d, e>>
<1>1. <<c>> \in Seq(Chunks) /\ <<c, d>> \in Seq(Chunks)
  OBVIOUS
<1>2. <<c, d>> = Append(<<c>>, d) /\ <<c, d, e>> = Append(<<c, d>>, e)
  OBVIOUS
<1>3. <<c>> \o <<d>> = Append(<<c>>, d)
  BY <1>1, AppendFew
<1>4. <<c, d>> \o <<e>> = Append(<<c, d>>, e)
  BY <1>1, AppendFew
<1>. QED
  BY <1>2, <1>3, <1>4 DEF Joined

\* What three chunks say.
LEMMA ReadsThree ==
  ASSUME NEW c \in Chunks, NEW d \in Chunks, NEW e \in Chunks, NEW x, NEW y, NEW z,
         NEW i, NEW j, NEW k, NEW l, NEW m, NEW n,
         Reads(<<c>>, x, i, l), Reads(<<d>>, y, j, m), Reads(<<e>>, z, k, n)
  PROVE  Reads(<<c, d, e>>, Joined(Joined(x, y), z), Joined(Joined(i, j), k), l + m + n)
<1>1. Reads(Joined(<<c>>, <<d>>), Joined(x, y), Joined(i, j), l + m)
  BY ReadsJoined
<1>2. Reads(Joined(Joined(<<c>>, <<d>>), <<e>>), Joined(Joined(x, y), z), Joined(Joined(i, j), k), l + m + n)
  BY <1>1, ReadsJoined
<1>3. Joined(Joined(<<c>>, <<d>>), <<e>>) = <<c, d, e>>
  BY JoinedFew
<1>. QED
  BY <1>2, <1>3

\* The chunks map_delta and its loop write.
LEMMA ChunkReads ==
  ASSUME calls \in Nat, NEW s \in Seq(Letters)
  PROVE  /\ Reads(InitialChunks, <<>>, <<>>, 0)
         /\ Reads(FinalChunks, <<>>, <<>>, 0)
         /\ Reads(StopChunks, <<>>, <<>>, 0)
         /\ Reads(ReopenChunks, <<>>, <<>>, 0)
         /\ Reads(TextChunks(s), s, <<>>, 0)
         /\ Reads(CallChunks(s), <<>>, <<s>>, 1)
         /\ Reads(FallbackChunks(s), Joined(Joined(OpenTag, s), CloseTag), <<>>, 0)
<1>0. <<>> \in Seq(Letters) /\ TextIndex \in Nat /\ TextIndex + 1 \in Nat /\ TextIndex + 2 \in Nat
  BY EmptySeq DEF TextIndex
<1>c. ASSUME NEW kind \in ChunkKinds, NEW i \in Nat, NEW x \in Seq(Letters)
      PROVE  /\ Chunk(kind, i, x) \in Chunks
             /\ Chunk(kind, i, x).kind = kind /\ Chunk(kind, i, x).text = x
  BY DEF Chunk, Chunks
<1>j. Joined(<<>>, <<>>) = <<>> /\ \A x : Joined(<<>>, <<x>>) = <<x>> /\ Joined(<<x>>, <<>>) = <<x>>
  BY DEF Joined
<1>k. {"message_start", "text_start", "stop", "finish", "finish_tools", "message_stop",
       "text", "args", "call", "tool_start"} \subseteq ChunkKinds
  BY DEF ChunkKinds
<1>q. ASSUME NEW kind \in {"message_start", "text_start", "stop", "finish", "finish_tools", "message_stop"},
             NEW i \in Nat
      PROVE  Reads(<<Chunk(kind, i, <<>>)>>, <<>>, <<>>, 0) /\ Chunk(kind, i, <<>>) \in Chunks
  <2>0. kind \in ChunkKinds
    BY <1>k
  <2>1. /\ Chunk(kind, i, <<>>) \in Chunks
        /\ Chunk(kind, i, <<>>).kind = kind
    BY <1>0, <1>c, <2>0
  <2>2. Quiet(Chunk(kind, i, <<>>))
    BY <2>1 DEF Quiet
  <2>. QED
    BY <2>1, <2>2, ReadsQuiet
<1>1. Reads(InitialChunks, <<>>, <<>>, 0)
  <2>. DEFINE c == Chunk("message_start", 0, <<>>)
              d == Chunk("text_start", 0, <<>>)
  <2>1. /\ Reads(<<c>>, <<>>, <<>>, 0) /\ Reads(<<d>>, <<>>, <<>>, 0)
        /\ c \in Chunks /\ d \in Chunks
    BY <1>q
  <2>. HIDE DEF c, d
  <2>2. Reads(Joined(<<c>>, <<d>>), Joined(<<>>, <<>>), Joined(<<>>, <<>>), 0 + 0)
    BY <2>1, ReadsJoined
  <2>3. Joined(<<c>>, <<d>>) = <<c, d>>
    BY <2>1, JoinedFew
  <2>4. Reads(<<c, d>>, <<>>, <<>>, 0)
    BY <2>2, <2>3, <1>j
  <2>. QED
    BY <2>4, ReadsNone DEF InitialChunks, c, d
<1>2. Reads(FinalChunks, <<>>, <<>>, 0)
  <2>. DEFINE c == Chunk("stop", TextIndex, <<>>)
              d == Chunk(IF calls > 0 THEN "finish_tools" ELSE "finish", 0, <<>>)
              e == Chunk("message_stop", 0, <<>>)
  <2>1. /\ Reads(<<c>>, <<>>, <<>>, 0) /\ Reads(<<d>>, <<>>, <<>>, 0) /\ Reads(<<e>>, <<>>, <<>>, 0)
        /\ c \in Chunks /\ d \in Chunks /\ e \in Chunks
    BY <1>0, <1>q
  <2>. HIDE DEF c, d, e
  <2>2. Reads(<<c, d, e>>, Joined(Joined(<<>>, <<>>), <<>>), Joined(Joined(<<>>, <<>>), <<>>), 0 + 0 + 0)
    BY <2>1, ReadsThree
  <2>3. Reads(<<c, d, e>>, <<>>, <<>>, 0)
    BY <2>2, <1>j
  <2>4. Reads(<<Chunk("finish", 0, <<>>)>>, <<>>, <<>>, 0)
    BY <1>q
  <2>. QED
    BY <2>3, <2>4 DEF FinalChunks, c, d, e
<1>3. Reads(StopChunks, <<>>, <<>>, 0) /\ Reads(ReopenChunks, <<>>, <<>>, 0)
  <2>1. Reads(<<Chunk("stop", TextIndex, <<>>)>>, <<>>, <<>>, 0)
    BY <1>0, <1>q
  <2>2. Reads(<<Chunk("text_start", TextIndex + 2, <<>>)>>, <<>>, <<>>, 0)
    BY <1>0, <1>q
  <2>. QED
    BY <2>1, <2>2, ReadsNone DEF StopChunks, ReopenChunks
<1>4. Reads(TextChunks(s), s, <<>>, 0)
  <2>1. /\ Chunk("text", TextIndex, s) \in Chunks
        /\ Chunk("text", TextIndex, s).kind = "text" /\ Chunk("text", TextIndex, s).text = s
    BY <1>0, <1>c, <1>k
  <2>2. Reads(<<Chunk("text", TextIndex, s)>>, s, <<>>, 0)
    BY <2>1, ReadsOne
  <2>. QED
    BY <2>2, ReadsNone DEF TextChunks
<1>5. Reads(CallChunks(s), <<>>, <<s>>, 1)
  <2>. DEFINE c == Chunk("tool_start", TextIndex + 1, <<>>)
              d == Chunk("args", TextIndex + 1, s)
              e == Chunk("stop", TextIndex + 1, <<>>)
              f == Chunk("call", calls, s)
  <2>0. "tool_start" \in ChunkKinds /\ "args" \in ChunkKinds /\ "call" \in ChunkKinds
    BY <1>k
  <2>a. c \in Chunks /\ c.kind = "tool_start"
    BY <1>0, <2>0 DEF Chunk, Chunks
  <2>b. d \in Chunks /\ d.kind = "args" /\ d.text = s
    BY <1>0, <1>c, <2>0
  <2>c. f \in Chunks /\ f.kind = "call" /\ f.text = s
    BY <1>c, <2>0
  <2>1. /\ c \in Chunks /\ c.kind = "tool_start"
        /\ d \in Chunks /\ d.kind = "args" /\ d.text = s
        /\ f \in Chunks /\ f.kind = "call" /\ f.text = s
    BY <2>a, <2>b, <2>c
  <2>2. e \in Chunks /\ Reads(<<e>>, <<>>, <<>>, 0)
    BY <1>0, <1>q
  <2>. HIDE DEF c, d, e, f
  <2>3. Reads(<<c>>, <<>>, <<>>, 1)
    BY <2>1, ReadsOne
  <2>4. Reads(<<d>>, <<>>, <<s>>, 0)
    BY <2>1, ReadsOne
  <2>5. Reads(<<f>>, <<>>, <<s>>, 1)
    BY <2>1, ReadsOne
  <2>6. Reads(<<c, d, e>>, Joined(Joined(<<>>, <<>>), <<>>), Joined(Joined(<<>>, <<s>>), <<>>), 1 + 0 + 0)
    BY <2>1, <2>2, <2>3, <2>4, ReadsThree
  <2>7. Reads(<<c, d, e>>, <<>>, <<s>>, 1)
    BY <2>6, <1>j
  <2>. QED
    BY <2>5, <2>7 DEF CallChunks, c, d, e, f
<1>6. Reads(FallbackChunks(s), Joined(Joined(OpenTag, s), CloseTag), <<>>, 0)
  <2>. DEFINE x == OpenTag \o s \o CloseTag
              c == Chunk("text", IF protocol = "anthropic" THEN TextIndex + 1 ELSE 0, x)
  <2>1. Joined(Joined(OpenTag, s), CloseTag) \in Seq(Letters)
    BY InkTag, TextAlgebra DEF Tags
  <2>2. x = Joined(Joined(OpenTag, s), CloseTag)
    BY DEF Joined
  <2>. HIDE DEF x
  <2>3. c \in Chunks /\ c.kind = "text" /\ c.text = x
    BY <1>0, <1>c, <1>k, <2>1, <2>2
  <2>. HIDE DEF c
  <2>4. Reads(<<c>>, x, <<>>, 0)
    BY <2>3, ReadsOne
  <2>5. FallbackChunks(s) = <<c>>
    BY DEF FallbackChunks, c, x
  <2>. QED
    BY <2>2, <2>4, <2>5
<1>. QED
  BY <1>1, <1>2, <1>3, <1>4, <1>5, <1>6

\* A call that ends leaves its text and adds its call, as Whole has it.
LEMMA ClosedReads ==
  ASSUME calls \in Nat, NEW s \in Seq(Letters)
  PROVE  \E n \in Nat : n = Len(Called(s)) /\ Reads(ClosedChunks(s), Left(s), Called(s), n)
<1>1. CASE s = <<>>
  <2>1. ~IsJson(s)
    BY <1>1 DEF IsJson
  <2>2. Left(s) = <<>> /\ Called(s) = <<>> /\ ClosedChunks(s) = <<>>
    BY <1>1, <2>1 DEF Left, Called, ClosedChunks
  <2>. QED
    BY <2>2, ReadsNone
<1>2. CASE s # <<>> /\ IsJson(s)
  <2>1. Left(s) = <<>> /\ Called(s) = <<s>> /\ ClosedChunks(s) = CallChunks(s)
    BY <1>2 DEF Left, Called, ClosedChunks
  <2>2. Reads(CallChunks(s), <<>>, <<s>>, 1)
    BY ChunkReads
  <2>. QED
    BY <2>1, <2>2
<1>3. CASE s # <<>> /\ ~IsJson(s)
  <2>1. Left(s) = Joined(Joined(OpenTag, s), CloseTag) /\ Called(s) = <<>>
    BY <1>3 DEF Left, Called, Joined
  <2>2. ClosedChunks(s) = FallbackChunks(s)
    BY <1>3 DEF ClosedChunks
  <2>3. Reads(FallbackChunks(s), Joined(Joined(OpenTag, s), CloseTag), <<>>, 0)
    BY ChunkReads
  <2>. QED
    BY <2>1, <2>2, <2>3
<1>. QED
  BY <1>1, <1>2, <1>3

-----------------------------------------------------------------------------
(* A text that came in, what is left of it to translate, and what was written. *)

\* How texts of symbols are put together.
LEMMA SymbolAlgebra ==
  /\ \A x \in Seq(Symbols), y \in Seq(Symbols) : Joined(x, y) \in Seq(Symbols)
  /\ \A x \in Seq(Symbols), y \in Seq(Symbols), z \in Seq(Symbols) :
       Joined(Joined(x, y), z) = Joined(x, Joined(y, z))
  /\ \A x \in Seq(Symbols) : Joined(x, <<>>) = x /\ Joined(<<>>, x) = x
  /\ <<>> \in Seq(Symbols)
BY ConcatProperties, ConcatAssociative, ConcatEmptySeq, EmptySeq DEF Joined

\* There is no tag before the first.
LEMMA NoneBefore ==
  ASSUME NEW A, NEW s \in Seq(A), NEW tag \in Tags, Has(tag, s)
  PROVE  ~Has(tag, Before(tag, s))
<1>. DEFINE b == Before(tag, s)
            m == Min(Places(tag, s))
<1>1. m \in 1..(Len(s) - 1) /\ \A i \in 1..(m - 1) : ~At(tag, s, i)
  BY FirstPlace
<1>2. b \in Seq(A) /\ Len(b) = m - 1 /\ \A i \in 1..Len(b) : b[i] = s[i]
  BY AroundTag
<1>3. Len(s) \in Nat
  BY LenProperties
<1>. HIDE DEF b, m
<1>4. ASSUME NEW i \in 1..(Len(b) - 1) PROVE ~At(tag, b, i)
  <2>1. i \in 1..Len(b) /\ i + 1 \in 1..Len(b) /\ i \in 1..(m - 1)
    BY <1>1, <1>2, <1>3
  <2>2. b[i] = s[i] /\ b[i + 1] = s[i + 1]
    BY <1>2, <2>1
  <2>. QED
    BY <1>1, <2>1, <2>2 DEF At
<1>5. ~Has(tag, b)
  BY <1>2, <1>4, PlacesAt
<1>. QED
  BY <1>5 DEF b

\* s ends as w does.
Ends(s, w) == s # <<>> => w # <<>> /\ s[Len(s)] = w[Len(w)]

\* What makes no tag with the end of w makes none with the end of s.
LEMMA EndsApart ==
  ASSUME NEW s, NEW w, NEW r, NEW tag, Ends(s, w), Apart(tag, w, r)
  PROVE  Apart(tag, s, r)
BY DEF Ends, Apart

\* The empty text ends as any does.
LEMMA EndsEmpty == ASSUME NEW w PROVE Ends(<<>>, w)
BY DEF Ends

\* Ends is transitive.
LEMMA EndsTwice == ASSUME NEW s, NEW t, NEW w, Ends(s, t), Ends(t, w) PROVE Ends(s, w)
BY DEF Ends

\* A text that is put together ends as its second part.
LEMMA EndsJoined ==
  ASSUME NEW A, NEW s \in Seq(A), NEW r \in Seq(A)
  PROVE  Ends(r, Joined(s, r)) /\ (r # <<>> => Ends(Joined(s, r), r))
<1>. DEFINE w == Joined(s, r)
<1>1. w \in Seq(A) /\ Len(s) \in Nat /\ Len(r) \in Nat /\ Len(w) = Len(s) + Len(r)
  BY JoinedAt
<1>2. \A i \in 1..Len(r) : w[Len(s) + i] = r[i]
  BY JoinedAt
<1>. HIDE DEF w
<1>3. ASSUME r # <<>> PROVE w # <<>> /\ r[Len(r)] = w[Len(w)]
  <2>1. Len(r) # 0
    BY <1>3, EmptySeq
  <2>2. Len(r) \in 1..Len(r)
    BY <2>1, <1>1
  <2>3. w[Len(s) + Len(r)] = r[Len(r)]
    BY <1>2, <2>2
  <2>4. Len(w) # 0
    BY <1>1, <2>1
  <2>. QED
    BY <1>1, <2>3, <2>4, EmptySeq
<1>. QED
  BY <1>3 DEF Ends, w

\* What is after a tag ends as the text does.
LEMMA EndsAfter ==
  ASSUME NEW A, NEW s \in Seq(A), NEW tag \in Tags, Has(tag, s)
  PROVE  Ends(After(tag, s), s)
<1>. DEFINE a == After(tag, s)
            b == Before(tag, s)
            u == Joined(tag, a)
<1>1. a \in Seq(A) /\ b \in Seq(A) /\ tag \in Seq(A) /\ s = Joined(b, u)
  BY AroundTag DEF Joined
<1>2. u \in Seq(A) /\ Ends(a, u)
  BY <1>1, JoinedAt, EndsJoined
<1>. HIDE DEF u, a, b
<1>3. Ends(u, s)
  BY <1>1, <1>2, EndsJoined
<1>4. Ends(a, s)
  BY <1>2, <1>3, EndsTwice
<1>. QED
  BY <1>4 DEF a

\* What is before a tag begins as the text does.
LEMMA BeforeApart ==
  ASSUME NEW A, NEW s \in Seq(A), NEW tag \in Tags, Has(tag, s), NEW r, NEW other, Apart(other, r, s)
  PROVE  Apart(other, r, Before(tag, s))
<1>1. Before(tag, s) \in Seq(A) /\ \A i \in 1..Len(Before(tag, s)) : Before(tag, s)[i] = s[i]
  BY AroundTag
<1>2. CASE Before(tag, s) = <<>>
  BY <1>2 DEF Apart
<1>3. CASE Before(tag, s) # <<>>
  <2>1. Len(Before(tag, s)) \in Nat /\ Len(Before(tag, s)) # 0
    BY <1>1, <1>3, EmptySeq, LenProperties
  <2>2. Before(tag, s)[1] = s[1]
    BY <1>1, <2>1
  <2>3. s # <<>>
    <3>1. s = Joined(Before(tag, s), Joined(tag, After(tag, s))) /\ Len(s) \in Nat
          /\ Len(Before(tag, s)) + 2 + Len(After(tag, s)) = Len(s) /\ Len(After(tag, s)) \in Nat
      BY AroundTag, LenProperties DEF Joined
    <3>2. Len(s) # 0
      BY <2>1, <3>1
    <3>. QED
      BY <3>2, EmptySeq
  <2>. QED
    BY <2>2, <2>3 DEF Apart
<1>. QED
  BY <1>2, <1>3

\* What begins as d does.
LEMMA JoinedApart ==
  ASSUME NEW A, NEW d \in Seq(A), d # <<>>, NEW r \in Seq(A), NEW w, NEW tag, Apart(tag, w, d)
  PROVE  Apart(tag, w, Joined(d, r))
<1>1. Len(d) \in Nat /\ Len(d) # 0
  BY EmptySeq, LenProperties
<1>2. \A i \in 1..Len(d) : Joined(d, r)[i] = d[i]
  BY JoinedAt
<1>3. Joined(d, r)[1] = d[1]
  BY <1>1, <1>2
<1>. QED
  BY <1>3 DEF Apart

\* However the text w goes on, its translation is what was written, x and list, and then
\* the translation of the rest that is left of w.
Tally(w, rest, x, list) ==
  \A r \in Seq(Symbols) : (\A tag \in Tags : Apart(tag, w, r)) =>
    /\ Whole[Joined(w, r)].text = Joined(x, Whole[Joined(rest, r)].text)
    /\ Whole[Joined(w, r)].calls = Joined(list, Whole[Joined(rest, r)].calls)

\* Nothing came in and nothing was written.
LEMMA TallyNone == Tally(<<>>, <<>>, <<>>, <<>>)
<1>. SUFFICES ASSUME NEW r \in Seq(Symbols)
              PROVE  /\ Whole[Joined(<<>>, r)].text = Joined(<<>>, Whole[Joined(<<>>, r)].text)
                     /\ Whole[Joined(<<>>, r)].calls = Joined(<<>>, Whole[Joined(<<>>, r)].calls)
  BY DEF Tally
<1>1. Joined(<<>>, r) = r
  BY SymbolAlgebra
<1>. DEFINE y == Whole[r].text
            more == Whole[r].calls
<1>2. y \in Seq(Letters) /\ more \in Seq(Seq(Letters))
  BY WholeTypes
<1>. HIDE DEF y, more
<1>3. Joined(<<>>, y) = y
  BY <1>2, TextAlgebra
<1>4. Joined(<<>>, more) = more
  BY <1>2, ListAlgebra
<1>. QED
  BY <1>1, <1>3, <1>4 DEF y, more

\* A delta comes in that does not complete a tag.
LEMMA TallyFeed ==
  ASSUME NEW w \in Seq(Symbols), NEW rest \in Seq(Symbols), NEW x, NEW list,
         Tally(w, rest, x, list),
         NEW d \in Seq(Symbols), d # <<>>, \A tag \in Tags : Apart(tag, w, d)
  PROVE  Tally(Joined(w, d), Joined(rest, d), x, list)
<1>. SUFFICES ASSUME NEW r \in Seq(Symbols)
              PROVE  /\ Whole[Joined(Joined(w, d), r)].text = Joined(x, Whole[Joined(Joined(rest, d), r)].text)
                     /\ Whole[Joined(Joined(w, d), r)].calls = Joined(list, Whole[Joined(Joined(rest, d), r)].calls)
  BY DEF Tally
<1>1. Joined(d, r) \in Seq(Symbols)
  BY SymbolAlgebra
<1>2. \A tag \in Tags : Apart(tag, w, Joined(d, r))
  BY JoinedApart
<1>3. Joined(Joined(w, d), r) = Joined(w, Joined(d, r))
  BY SymbolAlgebra
<1>4. Joined(Joined(rest, d), r) = Joined(rest, Joined(d, r))
  BY SymbolAlgebra
<1>. QED
  BY <1>1, <1>2, <1>3, <1>4 DEF Tally

\* Text is written.
LEMMA TallyText ==
  ASSUME NEW w, NEW s \in Seq(Symbols), NEW x \in Seq(Letters), NEW list, Tally(w, s, x, list),
         ~Has(OpenTag, s), Ends(s, w)
  PROVE  Tally(w, <<>>, Joined(x, s), list)
<1>. SUFFICES ASSUME NEW r \in Seq(Symbols), \A tag \in Tags : Apart(tag, w, r)
              PROVE  /\ Whole[Joined(w, r)].text = Joined(Joined(x, s), Whole[Joined(<<>>, r)].text)
                     /\ Whole[Joined(w, r)].calls = Joined(list, Whole[Joined(<<>>, r)].calls)
  BY DEF Tally
<1>1. Joined(<<>>, r) = r
  BY SymbolAlgebra
<1>2. Apart(OpenTag, s, r)
  BY TagTexts, EndsApart
<1>3. /\ Whole[Joined(s, r)].text = Joined(s, Whole[r].text)
      /\ Whole[Joined(s, r)].calls = Whole[r].calls
  BY <1>2, WholePass
<1>4. /\ Whole[Joined(w, r)].text = Joined(x, Whole[Joined(s, r)].text)
      /\ Whole[Joined(w, r)].calls = Joined(list, Whole[Joined(s, r)].calls)
  BY DEF Tally
<1>6. Joined(x, Joined(s, Whole[r].text)) = Joined(Joined(x, s), Whole[r].text)
  <2>. DEFINE y == Whole[r].text
  <2>1. s \in Seq(Letters) /\ y \in Seq(Letters)
    BY SymbolSeq, WholeTypes
  <2>. HIDE DEF y
  <2>2. Joined(x, Joined(s, y)) = Joined(Joined(x, s), y)
    BY <2>1, TextAlgebra
  <2>. QED
    BY <2>2 DEF y
<1>. QED
  BY <1>1, <1>3, <1>4, <1>6

\* A call begins after some text.
LEMMA TallyOpen ==
  ASSUME NEW w, NEW s \in Seq(Symbols), NEW x \in Seq(Letters), NEW list, Tally(w, s, x, list),
         Has(OpenTag, s)
  PROVE  Tally(w, Joined(OpenTag, After(OpenTag, s)), Joined(x, Before(OpenTag, s)), list)
<1>. DEFINE b == Before(OpenTag, s)
            a == After(OpenTag, s)
            u == Joined(OpenTag, a)
<1>1. b \in Seq(Symbols) /\ a \in Seq(Symbols) /\ s = Joined(b, u) /\ ~Has(OpenTag, b)
  BY AroundTag, NoneBefore, TagTexts DEF Joined
<1>. HIDE DEF a, b
<1>2. u \in Seq(Symbols)
  BY <1>1, SymbolAlgebra, TagTexts
<1>3. ASSUME NEW r \in Seq(Symbols), \A tag \in Tags : Apart(tag, w, r)
      PROVE  /\ Whole[Joined(w, r)].text = Joined(Joined(x, b), Whole[Joined(u, r)].text)
             /\ Whole[Joined(w, r)].calls = Joined(list, Whole[Joined(u, r)].calls)
  <2>1. /\ Whole[Joined(w, r)].text = Joined(x, Whole[Joined(s, r)].text)
        /\ Whole[Joined(w, r)].calls = Joined(list, Whole[Joined(s, r)].calls)
    BY <1>3 DEF Tally
  <2>2. Joined(s, r) = Joined(b, Joined(u, r)) /\ Joined(u, r) \in Seq(Symbols)
    BY <1>1, <1>2, SymbolAlgebra
  <2>3. Apart(OpenTag, b, Joined(u, r))
    <3>1. Joined(u, r) = Joined(OpenTag, Joined(a, r)) /\ Joined(a, r) \in Seq(Symbols)
      BY <1>1, SymbolAlgebra, TagTexts
    <3>2. Len(OpenTag) = 2
      BY DEF OpenTag
    <3>3. \A i \in 1..Len(OpenTag) : Joined(OpenTag, Joined(a, r))[i] = OpenTag[i]
      BY <3>1, JoinedAt, TagTexts
    <3>4. Joined(u, r)[1] = OpenTag[1]
      BY <3>1, <3>2, <3>3
    <3>. QED
      BY <3>4, TagTexts DEF Apart
  <2>4. /\ Whole[Joined(s, r)].text = Joined(b, Whole[Joined(u, r)].text)
        /\ Whole[Joined(s, r)].calls = Whole[Joined(u, r)].calls
    BY <1>1, <2>2, <2>3, WholePass
  <2>5. b \in Seq(Letters) /\ Whole[Joined(u, r)].text \in Seq(Letters)
    BY <1>1, <2>2, SymbolSeq, WholeTypes
  <2>. HIDE DEF u
  <2>. DEFINE y == Whole[Joined(u, r)].text
  <2>6. y \in Seq(Letters)
    BY <2>5
  <2>. HIDE DEF y
  <2>7. Joined(x, Joined(b, y)) = Joined(Joined(x, b), y)
    BY <2>5, <2>6, TextAlgebra
  <2>. QED
    BY <2>1, <2>4, <2>7 DEF y
<1>. QED
  BY <1>3 DEF Tally, a, b

\* A call ends.
LEMMA TallyClose ==
  ASSUME NEW w, NEW s \in Seq(Symbols), NEW a \in Seq(Symbols),
         NEW x \in Seq(Letters), NEW list \in Seq(Seq(Letters)),
         Tally(w, Joined(OpenTag, Joined(s, Joined(CloseTag, a))), x, list), ~Has(CloseTag, s)
  PROVE  Tally(w, a, Joined(x, Left(Trim(s))), Joined(list, Called(Trim(s))))
<1>. DEFINE u == Joined(OpenTag, Joined(s, Joined(CloseTag, a)))
            y == Left(Trim(s))
            more == Called(Trim(s))
<1>0. y \in Seq(Letters) /\ more \in Seq(Seq(Letters))
  BY SymbolSeq, TrimInk, BodyTypes
<1>. HIDE DEF y, more
<1>1. ASSUME NEW r \in Seq(Symbols), \A tag \in Tags : Apart(tag, w, r)
      PROVE  /\ Whole[Joined(w, r)].text = Joined(Joined(x, y), Whole[Joined(a, r)].text)
             /\ Whole[Joined(w, r)].calls = Joined(Joined(list, more), Whole[Joined(a, r)].calls)
  <2>1. /\ Whole[Joined(w, r)].text = Joined(x, Whole[Joined(u, r)].text)
        /\ Whole[Joined(w, r)].calls = Joined(list, Whole[Joined(u, r)].calls)
    BY <1>1 DEF Tally
  <2>. DEFINE q == Joined(a, r)
  <2>2. q \in Seq(Symbols)
    BY SymbolAlgebra
  <2>3. Joined(u, r) = Joined(OpenTag, Joined(s, Joined(CloseTag, q)))
    <3>. DEFINE c == Joined(CloseTag, a)
                v == Joined(s, c)
    <3>1. c \in Seq(Symbols) /\ Joined(c, r) = Joined(CloseTag, q)
      BY SymbolAlgebra, TagTexts
    <3>. HIDE DEF c, q
    <3>2. v \in Seq(Symbols) /\ Joined(v, r) = Joined(s, Joined(c, r))
      BY <3>1, SymbolAlgebra
    <3>. HIDE DEF v
    <3>3. Joined(Joined(OpenTag, v), r) = Joined(OpenTag, Joined(v, r))
      BY <3>2, SymbolAlgebra, TagTexts
    <3>. QED
      BY <3>1, <3>2, <3>3 DEF c, v
  <2>. HIDE DEF q, u
  <2>4. /\ Whole[Joined(u, r)].text = Joined(y, Whole[q].text)
        /\ Whole[Joined(u, r)].calls = Joined(more, Whole[q].calls)
    BY <2>2, <2>3, WholeCall DEF y, more
  <2>5. Whole[q].text \in Seq(Letters) /\ Whole[q].calls \in Seq(Seq(Letters))
    BY <2>2, WholeTypes
  <2>. DEFINE z == Whole[q].text
              rest == Whole[q].calls
  <2>a. z \in Seq(Letters) /\ rest \in Seq(Seq(Letters))
    BY <2>5
  <2>. HIDE DEF z, rest
  <2>6. Joined(x, Joined(y, z)) = Joined(Joined(x, y), z)
    BY <1>0, <2>a, TextAlgebra
  <2>7. Joined(list, Joined(more, rest)) = Joined(Joined(list, more), rest)
    BY <1>0, <2>a, ListAlgebra
  <2>. QED
    BY <2>1, <2>4, <2>6, <2>7 DEF q, z, rest
<1>. QED
  BY <1>1 DEF Tally, y, more

\* When nothing is left, or a call that is not closed, what was written is the
\* translation.
LEMMA TallyDone ==
  ASSUME NEW w \in Seq(Symbols), NEW rest, NEW x \in Seq(Letters), NEW list \in Seq(Seq(Letters)),
         Tally(w, rest, x, list),
         \/ rest = <<>>
         \/ \E s \in Seq(Symbols) : ~Has(CloseTag, s) /\ rest = Joined(OpenTag, s)
  PROVE  x = Whole[w].text /\ list = Whole[w].calls
<1>1. /\ Whole[Joined(w, <<>>)].text = Joined(x, Whole[Joined(rest, <<>>)].text)
      /\ Whole[Joined(w, <<>>)].calls = Joined(list, Whole[Joined(rest, <<>>)].calls)
  <2>1. <<>> \in Seq(Symbols) /\ \A tag \in Tags : Apart(tag, w, <<>>)
    BY SymbolAlgebra DEF Apart
  <2>. QED
    BY <2>1 DEF Tally
<1>2. rest \in Seq(Symbols) /\ Whole[rest].text = <<>> /\ Whole[rest].calls = <<>>
  <2>1. CASE rest = <<>>
    <3>1. rest \in Seq(Symbols) /\ Len(rest) = 0
      BY <2>1, EmptySeq
    <3>2. ~Has(OpenTag, rest)
      <4>1. 1..(Len(rest) - 1) = {}
        BY <3>1
      <4>. QED
        BY <3>1, <4>1, PlacesAt, TagTexts
    <3>. QED
      BY <2>1, <3>1, <3>2, WholeSteps
  <2>2. ASSUME NEW s \in Seq(Symbols), ~Has(CloseTag, s), rest = Joined(OpenTag, s)
        PROVE  rest \in Seq(Symbols) /\ Whole[rest].text = <<>> /\ Whole[rest].calls = <<>>
    BY <2>2, WholeUnclosed, SymbolAlgebra, TagTexts
  <2>. QED
    BY <2>1, <2>2
<1>3. Joined(w, <<>>) = w /\ Joined(rest, <<>>) = rest
  BY <1>2, SymbolAlgebra
<1>4. Joined(x, <<>>) = x /\ Joined(list, <<>>) = list
  BY TextAlgebra, ListAlgebra
<1>. QED
  BY <1>1, <1>2, <1>3, <1>4

-----------------------------------------------------------------------------
(* The translation does not depend on the deltas.                          *)

\* What the chunks written so far say.
LEMMA OutReads ==
  ASSUME out \in Seq(Chunks)
  PROVE  Reads(out, CollectedText, StreamedCalls, Len(CollectedCalls))
BY DEF Reads, CollectedText, StreamedCalls, CollectedCalls, Kinds, KindsOf, TextList

\* And what they say after a step.
LEMMA OutReadsNext ==
  ASSUME NEW s, NEW x, NEW list, NEW n, out' = s, Reads(s, x, list, n)
  PROVE  CollectedText' = x /\ StreamedCalls' = list /\ Len(CollectedCalls') = n
BY DEF Reads, CollectedText, StreamedCalls, CollectedCalls, Kinds, KindsOf, TextList

\* More chunks are written.
LEMMA OutMore ==
  ASSUME out \in Seq(Chunks), Len(CollectedCalls) = Len(StreamedCalls),
         NEW s, NEW x, NEW list, Reads(s, x, list, Len(list)), out' = Joined(out, s)
  PROVE  /\ CollectedText' = Joined(CollectedText, x)
         /\ StreamedCalls' = Joined(StreamedCalls, list)
         /\ Len(CollectedCalls') = Len(StreamedCalls')
<1>1. Reads(out, CollectedText, StreamedCalls, Len(CollectedCalls))
  BY OutReads
<1>2. Reads(Joined(out, s), Joined(CollectedText, x), Joined(StreamedCalls, list),
            Len(CollectedCalls) + Len(list))
  BY <1>1, ReadsJoined
<1>3. /\ CollectedText' = Joined(CollectedText, x)
      /\ StreamedCalls' = Joined(StreamedCalls, list)
      /\ Len(CollectedCalls') = Len(CollectedCalls) + Len(list)
  BY <1>2, OutReadsNext
<1>4. StreamedCalls \in Seq(Seq(Letters)) /\ list \in Seq(Seq(Letters))
  BY <1>1, ReadsTypes
<1>5. Len(Joined(StreamedCalls, list)) = Len(StreamedCalls) + Len(list)
  BY <1>4, JoinedAt
<1>. QED
  BY <1>3, <1>5

\* The part of the answer that is not yet written: a call that is open, and the rest of
\* the delta.
Pre == IF inCall THEN Joined(OpenTag, buffer) ELSE <<>>
Rest == Joined(Pre, pending)

\* No tag is torn apart by the deltas, and what was written is the translation so far.
Sewn ==
  /\ pending \in Seq(Symbols) /\ buffer \in Seq(Symbols)
  /\ Ends(pending, Answered)
  /\ pending = <<>> => Ends(buffer, Answered)
  /\ ~Has(CloseTag, buffer)
  /\ Apart(CloseTag, buffer, pending)
  /\ Tally(Answered, Rest, CollectedText, StreamedCalls)

SameCalls == Len(CollectedCalls) = Len(StreamedCalls)
Split == SameCalls /\ (~errored /\ ~cut => Sewn)

\* The empty text has no tag.
LEMMA EmptyHasNoTag == ASSUME NEW tag \in Tags PROVE ~Has(tag, <<>>)
<1>. DEFINE s == <<>>
<1>1. s \in Seq(Letters) /\ Len(s) = 0
  BY EmptySeq
<1>. HIDE DEF s
<1>2. 1..(Len(s) - 1) = {}
  BY <1>1
<1>3. ~Has(tag, s)
  BY <1>1, <1>2, PlacesAt
<1>. QED
  BY <1>3 DEF s

\* At the start of a request there is nothing.
LEMMA SewnFresh ==
  ASSUME pending = <<>>, buffer = <<>>, ~inCall, out = <<>>, fed = 0
  PROVE  Split
<1>1. Answered = <<>>
  BY SubSeqEmpty DEF Answered
<1>2. out \in Seq(Chunks) /\ <<>> \in Seq(Symbols)
  BY EmptySeq
<1>3. Reads(<<>>, <<>>, <<>>, 0)
  BY ReadsNone
<1>4. CollectedText = <<>> /\ StreamedCalls = <<>> /\ Len(CollectedCalls) = 0
  BY <1>2, <1>3, OutReads DEF Reads
<1>5. Rest = <<>>
  BY SymbolAlgebra DEF Rest, Pre
<1>6. Tally(Answered, Rest, CollectedText, StreamedCalls)
  BY <1>1, <1>4, <1>5, TallyNone
<1>7. ~Has(CloseTag, buffer)
  BY EmptyHasNoTag, TagTexts
<1>8. Len(<<>>) = 0
  OBVIOUS
<1>. QED
  BY <1>2, <1>4, <1>6, <1>7, <1>8 DEF Split, SameCalls, Sewn, Ends, Apart

\* The same after a step.
LEMMA SewnFreshNext ==
  ASSUME pending' = <<>>, buffer' = <<>>, ~inCall', out' = <<>>, fed' = 0
  PROVE  Split'
<1>1. Answered' = <<>>
  BY SubSeqEmpty DEF Answered
<1>2. <<>> \in Seq(Symbols)
  BY EmptySeq
<1>3. Reads(<<>>, <<>>, <<>>, 0)
  BY ReadsNone
<1>4. CollectedText' = <<>> /\ StreamedCalls' = <<>> /\ Len(CollectedCalls') = 0
  BY <1>3, OutReadsNext
<1>5. Rest' = <<>>
  BY SymbolAlgebra DEF Rest, Pre
<1>6. Tally(Answered', Rest', CollectedText', StreamedCalls')
  BY <1>1, <1>4, <1>5, TallyNone
<1>7. ~Has(CloseTag, buffer')
  BY EmptyHasNoTag, TagTexts
<1>8. Len(<<>>) = 0
  OBVIOUS
<1>. QED
  BY <1>2, <1>4, <1>6, <1>7, <1>8 DEF Split, SameCalls, Sewn, Ends, Apart

\* A delta comes in.
LEMMA DeliverSplit == MapperLoop /\ Split /\ Deliver => Split'
<1>. SUFFICES ASSUME MapperLoop, Split, Deliver PROVE Split'
  OBVIOUS
<1>0. MapperTypeOK /\ Outside
  BY DEF MapperLoop
<1>f. /\ fed \in Nat /\ Len(answer) \in Nat /\ answer \in Seq(Symbols) /\ fed <= Len(answer)
  BY <1>0, LoopFacts
<1>1. PICK n \in 1..(Len(answer) - fed) :
            pending' = SubSeq(answer, fed + 1, fed + n) /\ fed' = fed + n
  BY DEF Deliver
<1>2. /\ pending = <<>> /\ out' = out /\ buffer' = buffer /\ inCall' = inCall /\ errored' = errored
      /\ answer' = answer
      /\ cut' = (cut \/ (fed > 0 /\ <<answer[fed], answer[fed + 1]>> \in Tags))
  BY DEF Deliver, request, conversation, Tags
<1>3. CollectedText' = CollectedText /\ StreamedCalls' = StreamedCalls /\ SameCalls'
  BY <1>2 DEF Split, SameCalls, CollectedText, StreamedCalls, CollectedCalls, Kinds
<1>. SUFFICES ASSUME ~errored', ~cut' PROVE Sewn'
  BY <1>3 DEF Split
<1>. DEFINE d == pending'
            w == Answered
<1>4. Sewn
  BY <1>2 DEF Split
<1>5. \A i \in 1..Len(answer) : answer[i] \in Symbols
  BY <1>f, ElementOfSeq
<1>6. /\ d \in Seq(Symbols) /\ Len(d) = n /\ d[1] = answer[fed + 1]
  <2>. DEFINE i == fed + 1
              j == fed + n
  <2>1. i \in Int /\ j \in Int /\ i <= j /\ j - i + 1 = n /\ 1 \in 1..n
        /\ i + 1 - 1 = i /\ \A k \in i..j : answer[k] \in Symbols
    BY <1>f, <1>1, <1>5
  <2>. HIDE DEF i, j
  <2>2. d = SubSeq(answer, i, j)
    BY <1>1 DEF i, j
  <2>3. d \in Seq(Symbols) /\ Len(d) = n /\ d[1] = answer[i]
    BY <2>1, <2>2, SubSeqProperties
  <2>. QED
    BY <2>3 DEF i
<1>7. d # <<>>
  <2>1. n # 0 /\ Len(d) # 0
    BY <1>f, <1>1, <1>6
  <2>. QED
    BY <2>1, <1>6, EmptySeq
<1>8. w \in Seq(Symbols) /\ Len(w) = fed /\ (fed > 0 => w[Len(w)] = answer[fed])
  BY <1>f, <1>5, SubSeqProperties DEF Answered
<1>9. Answered' = Joined(w, d)
  <2>1. /\ 1 \in 1..(Len(answer) + 1) /\ fed \in (1 - 1)..Len(answer)
        /\ fed + n \in fed..Len(answer)
    BY <1>f
  <2>2. SubSeq(answer, 1, fed) \o SubSeq(answer, fed + 1, fed + n) = SubSeq(answer, 1, fed + n)
    BY <1>f, <2>1, ConcatAdjacentSubSeq
  <2>. QED
    BY <1>1, <1>2, <2>2 DEF Answered, Joined
<1>. HIDE DEF d, w
<1>10. ASSUME NEW tag \in Tags PROVE Apart(tag, w, d)
  <2>1. CASE fed = 0
    <3>1. w = <<>>
      BY <1>8, <2>1, EmptySeq
    <3>. QED
      BY <3>1 DEF Apart
  <2>2. CASE fed > 0
    <3>1. <<answer[fed], answer[fed + 1]>> # tag
      BY <1>2, <2>2
    <3>2. ~(answer[fed] = tag[1] /\ answer[fed + 1] = tag[2])
      BY <3>1, TagSymbols
    <3>. QED
      BY <1>6, <1>8, <2>2, <3>2 DEF Apart
  <2>. QED
    BY <1>f, <2>1, <2>2
<1>11. Ends(d, Answered')
  BY <1>6, <1>8, <1>9, EndsJoined
<1>12. Apart(CloseTag, buffer, d)
  <2>1. Ends(buffer, w)
    BY <1>2, <1>4 DEF Sewn, w
  <2>. QED
    BY <1>10, <2>1, EndsApart, TagTexts
<1>13. Tally(Answered', Rest', CollectedText', StreamedCalls')
  <2>1. Pre \in Seq(Symbols) /\ Pre' = Pre
    BY <1>2, <1>4, SymbolAlgebra, TagTexts DEF Pre, Sewn
  <2>2. Rest = Pre
    BY <1>2, <2>1, SymbolAlgebra DEF Rest
  <2>3. Tally(w, Pre, CollectedText, StreamedCalls)
    BY <1>4, <2>2 DEF Sewn, w
  <2>4. Tally(Joined(w, d), Joined(Pre, d), CollectedText, StreamedCalls)
    BY <1>6, <1>7, <1>8, <1>10, <2>1, <2>3, TallyFeed
  <2>5. Rest' = Joined(Pre, d)
    BY <2>1 DEF Rest, d
  <2>. QED
    BY <1>3, <1>9, <2>4, <2>5
<1>14. buffer' \in Seq(Symbols) /\ ~Has(CloseTag, buffer') /\ Apart(CloseTag, buffer', d)
  BY <1>2, <1>4, <1>12 DEF Sewn
<1>15. d = pending'
  BY DEF d
<1>. QED
  BY <1>6, <1>7, <1>11, <1>13, <1>14, <1>15 DEF Sewn

\* The rest of a delta is text.
LEMMA PassTextSplit == MapperLoop /\ Split /\ PassText => Split'
<1>. SUFFICES ASSUME MapperLoop, Split, PassText PROVE Split'
  OBVIOUS
<1>0. MapperTypeOK /\ buffer = <<>>
  BY DEF MapperLoop, Outside, PassText
<1>1. /\ calls \in Nat /\ pending \in Seq(Letters) /\ out \in Seq(Chunks)
  BY <1>0, LoopFacts DEF MapperTypeOK
<1>2. /\ out' = Joined(out, TextChunks(pending)) /\ pending' = <<>> /\ buffer' = <<>>
      /\ ~inCall /\ ~inCall' /\ errored' = errored /\ cut' = cut /\ Answered' = Answered
      /\ ~Has(OpenTag, pending)
  BY <1>0 DEF PassText, request, conversation, Answered, Joined
<1>3. /\ CollectedText' = Joined(CollectedText, pending)
      /\ StreamedCalls' = Joined(StreamedCalls, <<>>)
      /\ SameCalls'
  <2>1. Reads(TextChunks(pending), pending, <<>>, 0) /\ Len(<<>>) = 0
    BY <1>1, ChunkReads
  <2>. QED
    BY <1>1, <1>2, <2>1, OutMore DEF SameCalls, Split
<1>4. CollectedText \in Seq(Letters) /\ StreamedCalls' = StreamedCalls
  <2>1. CollectedText \in Seq(Letters) /\ StreamedCalls \in Seq(Seq(Letters))
    BY <1>1, OutReads, ReadsTypes
  <2>. QED
    BY <1>3, <2>1, ListAlgebra
<1>. SUFFICES ASSUME ~errored, ~cut PROVE Sewn'
  BY <1>2, <1>3 DEF Split
<1>5. Sewn
  BY DEF Split
<1>6. pending \in Seq(Symbols) /\ Ends(pending, Answered)
  BY <1>5 DEF Sewn
<1>7. Rest = pending /\ Rest' = <<>>
  BY <1>2, <1>6, SymbolAlgebra DEF Rest, Pre
<1>8. Tally(Answered, <<>>, Joined(CollectedText, pending), StreamedCalls)
  BY <1>2, <1>4, <1>5, <1>6, <1>7, TallyText DEF Sewn
<1>9. <<>> \in Seq(Symbols) /\ ~Has(CloseTag, <<>>)
  BY SymbolAlgebra, EmptyHasNoTag, TagTexts
<1>10. Tally(Answered', Rest', CollectedText', StreamedCalls')
  BY <1>2, <1>3, <1>4, <1>7, <1>8
<1>. QED
  BY <1>2, <1>9, <1>10 DEF Sewn, Ends, Apart

\* A call begins.
LEMMA OpenCallSplit == MapperLoop /\ Split /\ OpenCall => Split'
<1>. SUFFICES ASSUME MapperLoop, Split, OpenCall PROVE Split'
  OBVIOUS
<1>0. MapperTypeOK /\ buffer = <<>>
  BY DEF MapperLoop, Outside, OpenCall
<1>. DEFINE a == After(OpenTag, pending)
            b == Before(OpenTag, pending)
<1>1. /\ calls \in Nat /\ pending \in Seq(Letters) /\ out \in Seq(Chunks)
  BY <1>0, LoopFacts DEF MapperTypeOK
<1>2. /\ out' = Joined(Joined(out, TextChunks(b)), StopChunks) /\ pending' = a /\ buffer' = <<>>
      /\ ~inCall /\ inCall' /\ errored' = errored /\ cut' = cut /\ Answered' = Answered
      /\ Has(OpenTag, pending)
  BY <1>0 DEF OpenCall, request, conversation, Answered, Joined
<1>3. b \in Seq(Letters)
  BY <1>1, <1>2, AroundTag, TagTexts
<1>. HIDE DEF a, b
<1>4. /\ CollectedText' = Joined(CollectedText, b)
      /\ StreamedCalls' = Joined(StreamedCalls, <<>>)
      /\ SameCalls'
  <2>1. Reads(TextChunks(b), b, <<>>, 0) /\ Reads(StopChunks, <<>>, <<>>, 0) /\ Len(<<>>) = 0
    BY <1>1, <1>3, ChunkReads
  <2>2. Reads(Joined(TextChunks(b), StopChunks), Joined(b, <<>>), Joined(<<>>, <<>>), 0 + 0)
    BY <2>1, ReadsJoined
  <2>3. Joined(b, <<>>) = b /\ Joined(<<>>, <<>>) = <<>>
    BY <1>3, TextAlgebra
  <2>4. Reads(Joined(TextChunks(b), StopChunks), b, <<>>, 0)
    BY <2>2, <2>3
  <2>5. out' = Joined(out, Joined(TextChunks(b), StopChunks))
    <3>1. TextChunks(b) \in Seq(Chunks) /\ StopChunks \in Seq(Chunks)
      BY <2>1 DEF Reads
    <3>2. Joined(Joined(out, TextChunks(b)), StopChunks) = Joined(out, Joined(TextChunks(b), StopChunks))
      BY <1>1, <3>1, ConcatAssociative DEF Joined
    <3>. QED
      BY <1>2, <3>2
  <2>. QED
    BY <1>1, <2>1, <2>4, <2>5, OutMore DEF SameCalls, Split
<1>5. CollectedText \in Seq(Letters) /\ StreamedCalls' = StreamedCalls
  <2>1. CollectedText \in Seq(Letters) /\ StreamedCalls \in Seq(Seq(Letters))
    BY <1>1, OutReads, ReadsTypes
  <2>. QED
    BY <1>4, <2>1, ListAlgebra
<1>. SUFFICES ASSUME ~errored, ~cut PROVE Sewn'
  BY <1>2, <1>4 DEF Split
<1>6. Sewn
  BY DEF Split
<1>7. pending \in Seq(Symbols) /\ Ends(pending, Answered)
  BY <1>6 DEF Sewn
<1>8. a \in Seq(Symbols) /\ Ends(a, pending)
  BY <1>2, <1>7, AroundTag, EndsAfter, TagTexts DEF a
<1>9. Rest = pending /\ Rest' = Joined(OpenTag, a)
  BY <1>2, <1>7, SymbolAlgebra, TagTexts DEF Rest, Pre
<1>10. Tally(Answered, Joined(OpenTag, a), Joined(CollectedText, b), StreamedCalls)
  BY <1>2, <1>5, <1>6, <1>7, <1>9, TallyOpen DEF Sewn, a, b
<1>11. <<>> \in Seq(Symbols) /\ ~Has(CloseTag, <<>>)
  BY SymbolAlgebra, EmptyHasNoTag, TagTexts
<1>12. Tally(Answered', Rest', CollectedText', StreamedCalls')
  BY <1>2, <1>4, <1>5, <1>9, <1>10
<1>13. Ends(a, Answered)
  BY <1>7, <1>8, EndsTwice
<1>14. Ends(buffer', Answered') /\ Apart(CloseTag, buffer', pending')
  BY <1>2 DEF Ends, Apart
<1>. QED
  BY <1>2, <1>8, <1>11, <1>12, <1>13, <1>14 DEF Sewn

\* A call goes on.
LEMMA KeepCallSplit == MapperLoop /\ Split /\ KeepCall => Split'
<1>. SUFFICES ASSUME MapperLoop, Split, KeepCall PROVE Split'
  OBVIOUS
<1>1. /\ out' = out /\ pending' = <<>> /\ buffer' = Joined(buffer, pending)
      /\ inCall /\ inCall' /\ errored' = errored /\ cut' = cut /\ Answered' = Answered
      /\ pending # <<>> /\ ~Has(CloseTag, pending)
  BY DEF KeepCall, request, conversation, Answered, Joined
<1>2. CollectedText' = CollectedText /\ StreamedCalls' = StreamedCalls /\ SameCalls'
  BY <1>1 DEF Split, SameCalls, CollectedText, StreamedCalls, CollectedCalls, Kinds
<1>. SUFFICES ASSUME ~errored, ~cut PROVE Sewn'
  BY <1>1, <1>2 DEF Split
<1>3. Sewn
  BY DEF Split
<1>4. /\ pending \in Seq(Symbols) /\ buffer \in Seq(Symbols) /\ Ends(pending, Answered)
      /\ ~Has(CloseTag, buffer) /\ Apart(CloseTag, buffer, pending)
  BY <1>3 DEF Sewn
<1>5. buffer' \in Seq(Symbols) /\ <<>> \in Seq(Symbols)
  BY <1>1, <1>4, SymbolAlgebra
<1>6. ~Has(CloseTag, buffer')
  BY <1>1, <1>4, TagJoined, TagTexts
<1>7. Ends(buffer', Answered')
  <2>1. Ends(buffer', pending)
    BY <1>1, <1>4, EndsJoined
  <2>. QED
    BY <1>1, <1>4, <2>1, EndsTwice
<1>8. Rest' = Rest
  <2>1. Rest = Joined(Joined(OpenTag, buffer), pending)
    BY <1>1 DEF Rest, Pre
  <2>2. Joined(Joined(OpenTag, buffer), pending) = Joined(OpenTag, Joined(buffer, pending))
    BY <1>4, SymbolAlgebra, TagTexts
  <2>3. Rest' = Joined(Joined(OpenTag, buffer'), <<>>)
    BY <1>1 DEF Rest, Pre
  <2>4. Joined(OpenTag, buffer') \in Seq(Symbols)
    BY <1>5, SymbolAlgebra, TagTexts
  <2>. QED
    BY <1>1, <2>1, <2>2, <2>3, <2>4, SymbolAlgebra
<1>9. Tally(Answered', Rest', CollectedText', StreamedCalls')
  BY <1>1, <1>2, <1>3, <1>8 DEF Sewn
<1>. QED
  BY <1>1, <1>5, <1>6, <1>7, <1>9 DEF Sewn, Ends, Apart

\* A call ends.
LEMMA CloseCallSplit == MapperLoop /\ Split /\ CloseCall => Split'
<1>. SUFFICES ASSUME MapperLoop, Split, CloseCall PROVE Split'
  OBVIOUS
<1>. DEFINE a == After(CloseTag, pending)
            b == Before(CloseTag, pending)
            s == Joined(buffer, b)
            body == Trim(s)
<1>1. /\ calls \in Nat /\ pending \in Seq(Letters) /\ buffer \in Seq(Letters) /\ out \in Seq(Chunks)
  BY LoopFacts DEF MapperLoop, MapperTypeOK
<1>2. /\ out' = Joined(Joined(out, ClosedChunks(body)), ReopenChunks) /\ pending' = a /\ buffer' = <<>>
      /\ inCall /\ ~inCall' /\ errored' = errored /\ cut' = cut /\ Answered' = Answered
      /\ Has(CloseTag, pending)
  BY DEF CloseCall, request, conversation, Answered, Joined
<1>3. b \in Seq(Letters)
  BY <1>1, <1>2, AroundTag, TagTexts
<1>4. body \in Seq(Letters)
  BY <1>1, <1>3, TextAlgebra, TrimInk
<1>. HIDE DEF a, b, s, body
<1>5. /\ CollectedText' = Joined(CollectedText, Left(body))
      /\ StreamedCalls' = Joined(StreamedCalls, Called(body))
      /\ SameCalls'
  <2>. DEFINE n == Len(Called(body))
  <2>1. Reads(ClosedChunks(body), Left(body), Called(body), n) /\ Reads(ReopenChunks, <<>>, <<>>, 0)
    BY <1>1, <1>4, ChunkReads, ClosedReads
  <2>2. Left(body) \in Seq(Letters) /\ Called(body) \in Seq(Seq(Letters)) /\ n \in Nat
    BY <2>1, ReadsTypes
  <2>3. Reads(Joined(ClosedChunks(body), ReopenChunks), Joined(Left(body), <<>>), Joined(Called(body), <<>>), n + 0)
    BY <2>1, ReadsJoined
  <2>4. Joined(Left(body), <<>>) = Left(body) /\ Joined(Called(body), <<>>) = Called(body) /\ n + 0 = n
    BY <2>2, TextAlgebra, ListAlgebra
  <2>5. Reads(Joined(ClosedChunks(body), ReopenChunks), Left(body), Called(body), Len(Called(body)))
    BY <2>3, <2>4
  <2>6. out' = Joined(out, Joined(ClosedChunks(body), ReopenChunks))
    <3>1. ClosedChunks(body) \in Seq(Chunks) /\ ReopenChunks \in Seq(Chunks)
      BY <2>1 DEF Reads
    <3>2. Joined(Joined(out, ClosedChunks(body)), ReopenChunks)
            = Joined(out, Joined(ClosedChunks(body), ReopenChunks))
      BY <1>1, <3>1, ConcatAssociative DEF Joined
    <3>. QED
      BY <1>2, <3>2
  <2>. QED
    BY <1>1, <2>5, <2>6, OutMore DEF SameCalls, Split
<1>6. CollectedText \in Seq(Letters) /\ StreamedCalls \in Seq(Seq(Letters))
  BY <1>1, OutReads, ReadsTypes
<1>. SUFFICES ASSUME ~errored, ~cut PROVE Sewn'
  BY <1>2, <1>5 DEF Split
<1>7. Sewn
  BY DEF Split
<1>8. /\ pending \in Seq(Symbols) /\ buffer \in Seq(Symbols) /\ Ends(pending, Answered)
      /\ ~Has(CloseTag, buffer) /\ Apart(CloseTag, buffer, pending)
  BY <1>7 DEF Sewn
<1>9. /\ a \in Seq(Symbols) /\ b \in Seq(Symbols) /\ pending = Joined(b, Joined(CloseTag, a))
      /\ Ends(a, pending) /\ ~Has(CloseTag, b)
  BY <1>2, <1>8, AroundTag, EndsAfter, NoneBefore, TagTexts DEF a, b, Joined
<1>10. s \in Seq(Symbols) /\ ~Has(CloseTag, s)
  <2>1. Apart(CloseTag, buffer, b)
    BY <1>2, <1>8, BeforeApart, TagTexts DEF b
  <2>. QED
    BY <1>8, <1>9, <2>1, TagJoined, SymbolAlgebra, TagTexts DEF s
<1>11. Rest = Joined(OpenTag, Joined(s, Joined(CloseTag, a))) /\ Rest' = a
  <2>. DEFINE c == Joined(CloseTag, a)
  <2>1. c \in Seq(Symbols)
    BY <1>9, SymbolAlgebra, TagTexts
  <2>2. pending = Joined(b, c)
    BY <1>9
  <2>. HIDE DEF c
  <2>3. Joined(Joined(OpenTag, buffer), pending) = Joined(OpenTag, Joined(buffer, pending))
    BY <1>8, SymbolAlgebra, TagTexts
  <2>4. Joined(buffer, Joined(b, c)) = Joined(s, c)
    BY <1>8, <1>9, <2>1, SymbolAlgebra DEF s
  <2>5. Rest' = a
    BY <1>2, <1>9, SymbolAlgebra DEF Rest, Pre
  <2>. QED
    BY <1>2, <2>2, <2>3, <2>4, <2>5 DEF Rest, Pre, c
<1>12. Tally(Answered, a, Joined(CollectedText, Left(body)), Joined(StreamedCalls, Called(body)))
  BY <1>6, <1>7, <1>9, <1>10, <1>11, TallyClose DEF Sewn, body
<1>13. <<>> \in Seq(Symbols) /\ ~Has(CloseTag, <<>>)
  BY SymbolAlgebra, EmptyHasNoTag, TagTexts
<1>14. Tally(Answered', Rest', CollectedText', StreamedCalls')
  BY <1>2, <1>5, <1>11, <1>12
<1>15. Ends(a, Answered)
  BY <1>8, <1>9, EndsTwice
<1>16. Ends(buffer', Answered') /\ Apart(CloseTag, buffer', pending')
  BY <1>2 DEF Ends, Apart
<1>. QED
  BY <1>2, <1>9, <1>13, <1>14, <1>15, <1>16 DEF Sewn

\* Frames that are written around the answer say nothing.
LEMMA FrameSplit ==
  ASSUME MapperTypeOK, Split, NEW s, Reads(s, <<>>, <<>>, 0), out' = Joined(out, s),
         Answered' = Answered, pending' = pending, buffer' = buffer, inCall' = inCall,
         errored' = errored, cut' = cut
  PROVE  Split'
<1>1. out \in Seq(Chunks) /\ Len(<<>>) = 0
  BY DEF MapperTypeOK
<1>2. /\ CollectedText' = Joined(CollectedText, <<>>)
      /\ StreamedCalls' = Joined(StreamedCalls, <<>>)
      /\ SameCalls'
  BY <1>1, OutMore DEF Split, SameCalls
<1>3. CollectedText \in Seq(Letters) /\ StreamedCalls \in Seq(Seq(Letters))
  BY <1>1, OutReads, ReadsTypes
<1>4. CollectedText' = CollectedText /\ StreamedCalls' = StreamedCalls
  BY <1>2, <1>3, TextAlgebra, ListAlgebra
<1>5. Rest' = Rest
  BY DEF Rest, Pre
<1>. QED
  BY <1>2, <1>4, <1>5 DEF Split, Sewn

\* Each action keeps the translation.
LEMMA NextSplit ==
  MapperLoop /\ Split /\ [MapperNext]_mapperVars => Split'
<1>. SUFFICES ASSUME MapperLoop, Split, [MapperNext]_mapperVars PROVE Split'
  OBVIOUS
<1>. USE DEF request, conversation
<1>0. MapperTypeOK /\ Fresh /\ Drained /\ Unfailed /\ calls \in Nat
  BY LoopFacts DEF MapperLoop
\* A step that writes nothing.
<1>u. ASSUME out' = out PROVE CollectedText' = CollectedText /\ StreamedCalls' = StreamedCalls /\ SameCalls'
  BY <1>u DEF Split, SameCalls, CollectedText, StreamedCalls, CollectedCalls, Kinds
<1>1. CASE Ask \/ RefuseAtOnce \/ GiveUp \/ UNCHANGED mapperVars
  <2>1. /\ out' = out /\ answer' = answer /\ fed' = fed /\ pending' = pending /\ buffer' = buffer
        /\ inCall' = inCall /\ errored' = errored /\ cut' = cut
    BY <1>1 DEF Ask, RefuseAtOnce, GiveUp, mapperVars
  <2>2. Answered' = Answered /\ Rest' = Rest
    BY <2>1 DEF Answered, Rest, Pre
  <2>. QED
    BY <1>u, <2>1, <2>2 DEF Split, Sewn
<1>2. CASE Start
  <2>1. fed = 0 /\ fed' = 0
    BY <1>2, <1>0 DEF Start, Fresh
  <2>2. Answered = <<>> /\ Answered' = <<>>
    BY <2>1, SubSeqEmpty DEF Answered
  <2>3. Reads(InitialChunks, <<>>, <<>>, 0)
    BY <1>0, ChunkReads, TextAlgebra
  <2>4. /\ out' = Joined(out, InitialChunks) /\ pending' = pending /\ buffer' = buffer
        /\ inCall' = inCall /\ errored' = errored /\ cut' = cut
    BY <1>2 DEF Start, Joined
  <2>. QED
    BY <1>0, <2>2, <2>3, <2>4, FrameSplit
<1>3. CASE Deliver
  BY <1>3, DeliverSplit
<1>4. CASE Fail \/ EndEmpty
  <2>1. out' = out /\ errored'
    BY <1>4 DEF Fail, EndEmpty
  <2>. QED
    BY <1>u, <2>1 DEF Split
<1>5. CASE End
  <2>1. Reads(FinalChunks, <<>>, <<>>, 0)
    BY <1>0, ChunkReads, TextAlgebra
  <2>2. /\ out' = Joined(out, FinalChunks) /\ pending' = pending /\ buffer' = buffer
        /\ inCall' = inCall /\ errored' = errored /\ cut' = cut /\ Answered' = Answered
    BY <1>5 DEF End, Joined, Answered
  <2>. QED
    BY <1>0, <2>1, <2>2, FrameSplit
<1>6. CASE Reply
  <2>1. pending' = <<>> /\ buffer' = <<>> /\ ~inCall' /\ out' = <<>> /\ fed' = 0
    BY <1>6, <1>0 DEF Reply, Drained
  <2>. QED
    BY <2>1, SewnFreshNext
<1>7. CASE PassText
  BY <1>7, PassTextSplit
<1>8. CASE OpenCall
  BY <1>8, OpenCallSplit
<1>9. CASE KeepCall
  BY <1>9, KeepCallSplit
<1>10. CASE CloseCall
  BY <1>10, CloseCallSplit
<1>. QED
  BY <1>1, <1>2, <1>3, <1>4, <1>5, <1>6, <1>7, <1>8, <1>9, <1>10 DEF MapperNext

\* What was written when the answer ends.
LEMMA SplitDone == MapperLoop /\ Split => SplitInvariant
<1>. SUFFICES ASSUME MapperLoop, Split, phase = "done", ~cut, ~errored
              PROVE  /\ CollectedText = Whole[Answered].text
                     /\ StreamedCalls = Whole[Answered].calls
                     /\ Len(CollectedCalls) = Len(StreamedCalls)
  BY DEF SplitInvariant
<1>1. Sewn /\ SameCalls
  BY DEF Split
<1>2. pending = <<>>
  BY DEF MapperLoop, Drained
<1>3. /\ CollectedText \in Seq(Letters) /\ StreamedCalls \in Seq(Seq(Letters))
  BY OutReads, ReadsTypes DEF MapperLoop, MapperTypeOK
<1>4. Answered \in Seq(Symbols)
  <2>1. answer \in Seq(Symbols) /\ fed \in Nat /\ fed <= Len(answer) /\ Len(answer) \in Nat
    BY LoopFacts DEF MapperLoop
  <2>2. \A i \in 1..Len(answer) : answer[i] \in Symbols
    BY <2>1, ElementOfSeq
  <2>. QED
    BY <2>1, <2>2, SubSeqProperties DEF Answered
<1>5. \/ Rest = <<>>
      \/ \E s \in Seq(Symbols) : ~Has(CloseTag, s) /\ Rest = Joined(OpenTag, s)
  <2>1. CASE inCall
    <3>1. buffer \in Seq(Symbols) /\ ~Has(CloseTag, buffer)
      BY <1>1 DEF Sewn
    <3>2. Joined(OpenTag, buffer) \in Seq(Symbols)
      BY <3>1, SymbolAlgebra, TagTexts
    <3>3. Rest = Joined(OpenTag, buffer)
      BY <1>2, <2>1, <3>2, SymbolAlgebra DEF Rest, Pre
    <3>. QED
      BY <3>1, <3>3
  <2>2. CASE ~inCall
    BY <1>2, <2>2, SymbolAlgebra DEF Rest, Pre
  <2>. QED
    BY <2>1, <2>2
<1>6. Tally(Answered, Rest, CollectedText, StreamedCalls)
  BY <1>1 DEF Sewn
<1>7. CollectedText = Whole[Answered].text /\ StreamedCalls = Whole[Answered].calls
  BY <1>3, <1>4, <1>5, <1>6, TallyDone
<1>. QED
  BY <1>1, <1>7 DEF SameCalls

\* The translation does not depend on where the answer is cut into deltas, for every set of
\* answers: text and calls of a whole stream are those of the answer in one piece, as long
\* as no delta ends inside a tag and no error came.
THEOREM MapperSplit == MapperSpec => []SplitInvariant
<1>1. MapperInit => Split
  BY SewnFresh DEF MapperInit
<1>. QED
  BY <1>1, MapperInitLoop, MapperNextLoop, NextSplit, SplitDone, PTL DEF MapperSpec

=============================================================================

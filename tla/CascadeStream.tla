---------------------------- MODULE CascadeStream ----------------------------
(***************************************************************************)
(* One chat request on its way through a language-server instance: the     *)
(* handler (cli-server/src/handlers/chat.rs), the transcoder that runs     *)
(* behind it (transcoder-core/src/mappers/engine.rs) and the task that     *)
(* polls the trajectory of the cascade (transcoder-core/src/cascade/       *)
(* client.rs).  What the mappers make of a delta is not modelled here.     *)
(*                                                                         *)
(* A text is a length.  A trajectory is the sequence of the texts of its   *)
(* planner responses: the last one grows, or another one follows (the      *)
(* agent has called a tool).  A delta is a piece of one response.          *)
(*                                                                         *)
(* Other requests on the same instance are seen through the last error the *)
(* instance keeps of the stderr of its process, which nothing clears.      *)
(***************************************************************************)
EXTENDS Naturals, Sequences

CONSTANTS
  IdleAfter,    \* an idle cascade ends the polling after so many rounds (10)
  MaxPolls,     \* any cascade does after so many (100)
  ErrorsAfter,  \* so many rounds forgive a failed call (5)
  Capacity,     \* of the channel between the poller and the transcoder (128)
  MaxSteps,     \* bound: planner responses of a cascade
  MaxLen        \* bound: length of a response

ASSUME PollingAssumption ==
  /\ {IdleAfter, MaxPolls, ErrorsAfter} \subseteq Nat
  /\ ErrorsAfter <= MaxPolls
ASSUME CapacityAssumption == Capacity \in Nat \ {0}
ASSUME TextAssumption == MaxSteps \in Nat /\ MaxLen \in Nat

VARIABLES
  run,        \* the cascade: "idle" or "running"
  text,       \* the lengths of its planner responses
  begun,      \* it has been running
  denied,     \* Google has denied this request
  lastError,  \* the instance keeps a PERMISSION_DENIED line
  poller,     \* where the polling task is
  polls,      \* retry_count
  sent,       \* last_sent_len, and the response it was measured in
  seen,       \* the status in the last trajectory read
  next,       \* the delta the poller is sending
  chan,       \* what is in the channel
  engine,     \* where the transcoder is
  heard,      \* the deltas it has taken over
  client,     \* what the HTTP client has got
  banned      \* the account has been marked forbidden

cascade == <<run, text, begun>>
polling == <<poller, polls, sent, seen, next>>
vars == <<cascade, denied, lastError, polling, chan, engine, heard, client, banned>>

Piece == [kind : {"text"}, step : 1 .. MaxSteps, from : 0 .. MaxLen, to : 0 .. MaxLen]
Failure == [kind : {"denied", "error"}]
Nothing == [kind |-> "none"]

TypeOK ==
  /\ run \in {"idle", "running"}
  /\ text \in Seq(0 .. MaxLen) /\ Len(text) <= MaxSteps
  /\ begun \in BOOLEAN /\ denied \in BOOLEAN /\ lastError \in BOOLEAN /\ banned \in BOOLEAN
  /\ poller \in {"off", "poll", "send", "ended", "panicked"}
  /\ polls \in 0 .. MaxPolls + 1
  /\ sent \in [step : 0 .. MaxSteps, len : 0 .. MaxLen]
  /\ seen \in {"idle", "running"}
  /\ next \in IF poller = "send" THEN Piece \cup Failure ELSE {Nothing}
  /\ chan \in Seq(Piece \cup Failure) /\ Len(chan) <= Capacity
  /\ engine \in {"off", "first", "loop", "final", "failed", "dropped"}
  /\ heard \in Seq(Piece)
  /\ client \in {"waiting", "reading", "closed", "gone", "403", "500"}

Init ==
  /\ run = "idle" /\ text = <<>> /\ begun = FALSE
  /\ denied = FALSE /\ lastError \in BOOLEAN
  /\ poller = "off" /\ polls = 0 /\ sent = [step |-> 0, len |-> 0] /\ seen = "running"
  /\ next = Nothing /\ chan = <<>>
  /\ engine = "off" /\ heard = <<>>
  /\ client = "waiting" /\ banned = FALSE

-----------------------------------------------------------------------------
(* The language server.                                                    *)

LastLen == IF text = <<>> THEN 0 ELSE text[Len(text)]

Begin ==
  /\ poller # "off" /\ ~begun
  /\ begun' = TRUE /\ run' = "running"
  /\ UNCHANGED <<text, denied, lastError, polling, chan, engine, heard, client, banned>>

Write ==
  /\ run = "running"
  /\ \/ Len(text) < MaxSteps /\ text' = Append(text, 0)
     \/ text # <<>> /\ LastLen < MaxLen /\ text' = [text EXCEPT ![Len(text)] = @ + 1]
  /\ UNCHANGED <<run, begun, denied, lastError, polling, chan, engine, heard, client, banned>>

Finish ==
  /\ run = "running"
  /\ run' = "idle"
  /\ UNCHANGED <<text, begun, denied, lastError, polling, chan, engine, heard, client, banned>>

\* Google denies this request: the cascade stops, and the line on stderr is read
\* by the supervisor of the process at once, later (OtherDenied) or never.
Deny ==
  /\ ~denied /\ engine \in {"off", "first", "loop"}
  /\ denied' = TRUE /\ lastError' \in {lastError, TRUE}
  /\ begun' = TRUE /\ run' = "idle"
  /\ UNCHANGED <<text, polling, chan, engine, heard, client, banned>>

\* A line about a denial is read, most likely of another request of the process.
OtherDenied ==
  /\ lastError' = TRUE
  /\ UNCHANGED <<cascade, denied, polling, chan, engine, heard, client, banned>>

-----------------------------------------------------------------------------
(* The polling task.                                                       *)

\* Mutant: the bound on the rounds is left out.
RoundUnbounded(idle) ==
  IF idle /\ polls > IdleAfter
  THEN poller' = "ended" /\ UNCHANGED polls
  ELSE poller' = "poll" /\ polls' = polls + 1

\* After a response: an idle cascade or too many rounds end the task.
Round(idle) ==
  IF (idle /\ polls > IdleAfter) \/ polls > MaxPolls
  THEN poller' = "ended" /\ UNCHANGED polls
  ELSE poller' = "poll" /\ polls' = polls + 1

\* Mutant: the exit conditions come before the text.
PollExitFirst ==
  /\ poller = "poll"
  /\ seen' = run
  /\ IF LastLen > sent.len /\ ~(run = "idle" /\ polls > IdleAfter)
     THEN /\ next' = [kind |-> "text", step |-> Len(text), from |-> sent.len, to |-> LastLen]
          /\ poller' = "send"
          /\ UNCHANGED polls
     ELSE Round(run = "idle") /\ UNCHANGED next
  /\ UNCHANGED <<cascade, denied, lastError, sent, chan, engine, heard, client, banned>>

\* A trajectory: what the last planner response has beyond last_sent_len is sent.  In
\* another response than the one it was measured in, the length need not be where
\* a character begins: then the slice panics.
Poll ==
  /\ poller = "poll"
  /\ seen' = run
  /\ IF LastLen > sent.len
     THEN /\ UNCHANGED polls
          /\ \/ /\ next' = [kind |-> "text", step |-> Len(text), from |-> sent.len, to |-> LastLen]
                /\ poller' = "send"
             \/ /\ sent.len > 0 /\ sent.step # Len(text)
                /\ poller' = "panicked"
                /\ UNCHANGED next
     ELSE Round(run = "idle") /\ UNCHANGED next
  /\ UNCHANGED <<cascade, denied, lastError, sent, chan, engine, heard, client, banned>>

\* A response without a trajectory.
PollNothing ==
  /\ poller = "poll"
  /\ Round(FALSE)
  /\ UNCHANGED <<cascade, denied, lastError, sent, seen, next, chan, engine, heard, client, banned>>

\* Mutant: a forgiven failure starts the count again.
PollFailsRestarted ==
  /\ poller = "poll"
  /\ IF polls < ErrorsAfter
     THEN polls' = 0 /\ UNCHANGED <<poller, next>>
     ELSE next' = [kind |-> "error"] /\ poller' = "send" /\ UNCHANGED polls
  /\ UNCHANGED <<cascade, denied, lastError, sent, seen, chan, engine, heard, client, banned>>

\* The call fails.  Only failures of the first rounds are forgiven.
PollFails ==
  /\ poller = "poll"
  /\ IF polls < ErrorsAfter
     THEN polls' = polls + 1 /\ UNCHANGED <<poller, next>>
     ELSE /\ next' \in {[kind |-> "error"]}
                        \cup (IF denied THEN {[kind |-> "denied"]} ELSE {})
          /\ poller' = "send"
          /\ UNCHANGED polls
  /\ UNCHANGED <<cascade, denied, lastError, sent, seen, chan, engine, heard, client, banned>>

\* Mutant: last_sent_len stays where it was.
SendUnmeasured ==
  /\ poller = "send"
  /\ engine \in {"first", "loop"} /\ Len(chan) < Capacity
  /\ chan' = Append(chan, next)
  /\ IF next.kind = "text" THEN Round(seen = "idle") ELSE poller' = "ended" /\ UNCHANGED polls
  /\ UNCHANGED <<sent, next, cascade, denied, lastError, seen, engine, heard, client, banned>>

\* tx.send: waits for room, and ends the task when the receiver is gone.
Send ==
  /\ poller = "send"
  /\ next' = Nothing
  /\ IF engine \in {"first", "loop"}
     THEN /\ Len(chan) < Capacity
          /\ chan' = Append(chan, next)
          /\ IF next.kind = "text"
             THEN sent' = [step |-> next.step, len |-> next.to] /\ Round(seen = "idle")
             ELSE UNCHANGED <<sent, polls>> /\ poller' = "ended"
     ELSE UNCHANGED <<sent, chan, polls>> /\ poller' = "ended"
  /\ UNCHANGED <<cascade, denied, lastError, seen, engine, heard, client, banned>>

-----------------------------------------------------------------------------
(* The handler and the transcoder.                                         *)

Gone == poller \in {"ended", "panicked"}
Head1 == chan[1]

\* handle_generic_stream returns an error: 403 when its text says so, which the
\* stored line always does, and the account is marked forbidden; else 500.
Refuse(statuses) ==
  /\ client' \in statuses
  /\ banned' = (banned \/ client' = "403")
  /\ engine' = "dropped"

\* The connection, StartCascade and SendUserCascadeMessage succeed ...
Open ==
  /\ engine = "off" /\ client = "waiting"
  /\ engine' = "first" /\ poller' = "poll"
  /\ UNCHANGED <<cascade, denied, lastError, polls, sent, seen, next, chan, heard, client, banned>>

\* ... or one of them fails.
OpenFails ==
  /\ engine = "off" /\ client = "waiting"
  /\ Refuse(IF lastError THEN {"403"} ELSE IF denied THEN {"403", "500"} ELSE {"500"})
  /\ UNCHANGED <<cascade, denied, lastError, polling, chan, heard>>

\* The first frame decides about the status of the response.  An empty stream is
\* put down to the stored line, if there is one.
FirstFrame ==
  /\ engine = "first"
  /\ IF chan # <<>>
     THEN /\ chan' = Tail(chan)
          /\ IF Head1.kind = "denied" THEN Refuse({"403", "500"}) /\ UNCHANGED heard
             ELSE /\ client' = "reading"
                  /\ engine' = IF Head1.kind = "text" THEN "loop" ELSE "failed"
                  /\ heard' = IF Head1.kind = "text" THEN <<Head1>> ELSE heard
                  /\ UNCHANGED banned
     ELSE /\ Gone
          /\ UNCHANGED <<chan, heard>>
          /\ IF lastError THEN Refuse({"403"})
             ELSE client' = "reading" /\ engine' = "loop" /\ UNCHANGED banned
  /\ UNCHANGED <<cascade, denied, lastError, polling>>

\* Mutant: the end of the channel is not noticed.
NextFrameEndless ==
  /\ engine = "loop" /\ chan # <<>>
  /\ chan' = Tail(chan)
  /\ engine' = IF Head1.kind = "text" THEN "loop" ELSE "failed"
  /\ heard' = IF Head1.kind = "text" THEN Append(heard, Head1) ELSE heard
  /\ UNCHANGED <<cascade, denied, lastError, polling, client, banned>>

\* A delta is passed on; a failure is shown as text and ends the stream without a
\* final frame; the end of the channel ends it with one.
NextFrame ==
  /\ engine = "loop"
  /\ IF chan # <<>>
     THEN /\ chan' = Tail(chan)
          /\ engine' = IF Head1.kind = "text" THEN "loop" ELSE "failed"
          /\ heard' = IF Head1.kind = "text" THEN Append(heard, Head1) ELSE heard
     ELSE /\ Gone
          /\ engine' = "final"
          /\ UNCHANGED <<chan, heard>>
  /\ UNCHANGED <<cascade, denied, lastError, polling, client, banned>>

\* The stream is through: the traffic log is written and the connection closed.
Close ==
  /\ client = "reading" /\ engine \in {"final", "failed"}
  /\ client' = "closed"
  /\ UNCHANGED <<cascade, denied, lastError, polling, chan, engine, heard, banned>>

\* The client goes away.  Before the response the handler is dropped with the
\* receiver; later the transcoder runs on and sends into the void.
Disconnect ==
  /\ client \in {"waiting", "reading"}
  /\ engine' = IF client = "waiting" THEN "dropped" ELSE engine
  /\ client' = "gone"
  /\ UNCHANGED <<cascade, denied, lastError, polling, chan, heard, banned>>

-----------------------------------------------------------------------------
LanguageServer == Begin \/ Write \/ Finish \/ Deny \/ OtherDenied
Poller == Poll \/ PollNothing \/ PollFails \/ Send
Transcoder == FirstFrame \/ NextFrame

Next == LanguageServer \/ Poller \/ Transcoder \/ Open \/ OpenFails \/ Close \/ Disconnect

Spec == Init /\ [][Next]_vars

\* The runtime polls the tasks, every call to the language server returns (HTTP/2
\* keep-alive finds out when it is gone), and the client reads or goes away.
Fairness ==
  /\ WF_vars(Poller)
  /\ WF_vars(Transcoder)
  /\ WF_vars(Open \/ OpenFails)
  /\ WF_vars(Close)

FairSpec == Spec /\ Fairness

-----------------------------------------------------------------------------
(* What holds.                                                             *)

\* The client gets no character twice, and within a response of the planner none is
\* left out: every delta starts where the one before it ended (client.rs:253-257).
\* In a further response the characters up to that length are missing.
InOrder ==
  /\ heard # <<>> => heard[1].from = 0
  /\ \A i \in 1 .. Len(heard) - 1 :
       /\ heard[i].step <= heard[i + 1].step
       /\ heard[i].to = heard[i + 1].from

\* When the polling has ended with a cascade it saw idle and some delta was sent, the last
\* one reaches at least the length of the planner's last response: the last delta is sent
\* before the exit, and the closed channel is read to its end (client.rs:253-263,
\* engine.rs:158-171).  It says nothing of a last response that is no longer than what was
\* sent of an earlier one: of that nothing is ever sent (client.rs:253).
TailDelivered ==
  (engine = "final" /\ poller = "ended" /\ seen = "idle" /\ heard # <<>>)
    => heard[Len(heard)].to >= LastLen

\* Every request is answered, and every stream ends, whatever the cascade does
\* and whichever calls fail.
StreamEnds == <>(client \in {"closed", "gone", "403", "500"})

\* The polling task ends, also when nobody listens any more and nothing is left to
\* send that would tell it so (client.rs:255, 267).
PollerStops == poller = "poll" ~> Gone

(* What the code says and does not do.                                     *)

\* chat.rs:144: the account is disabled automatically when the error is a 403.  The
\* line an instance keeps may come from another request, of any time before.
BanOnlyDenied == banned => denied
=============================================================================

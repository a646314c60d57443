----------------------------- MODULE ToolMapper -----------------------------
(***************************************************************************)
(* The translation of one conversation: transcoder-core/src/mappers.  A    *)
(* request becomes a prompt (build_prompt), the text of the answer arrives *)
(* in deltas (engine.rs), and map_delta takes the tool calls out of it and *)
(* writes the chunks of the client's protocol.                             *)
(*                                                                         *)
(* A text is a sequence of symbols.  A tag is two symbols, so that a delta *)
(* can end inside it.  "x" is any visible text, "{" and "}" are the ends   *)
(* of a JSON object, " " is white space, "!" the text of an error.         *)
(*                                                                         *)
(* One action is one pass of the while loop of map_delta: nobody else sees *)
(* the state in between, since map_delta does not wait.                    *)
(***************************************************************************)
EXTENDS Naturals, SequencesExt, FiniteSetsExt

CONSTANTS
  Protocols,  \* the protocols clients use
  Answers,    \* the texts the model may answer with
  MaxTurns    \* bound on the requests of the conversation, the last unanswered

Symbols == {"x", " ", "{", "}", "<", "</", "tool_call>"}
Blank == " "
ErrorText == <<"!">>

ASSUME ProtocolsAssumption == Protocols \subseteq {"openai", "anthropic", "gemini"}
ASSUME AnswersAssumption == Answers \subseteq Seq(Symbols)
ASSUME MaxTurnsAssumption == MaxTurns \in Nat \ {0}

VARIABLES
  protocol,  \* the mapper in use
  tools,     \* whether the client declares tools
  parts,     \* the parts of the client's messages, in order
  prompt,    \* what build_prompt made of them
  turn,      \* which request of the conversation this is
  phase,     \* where the transcoding loop is
  answer,    \* the text the model answers with
  fed,       \* how much of it was given to map_delta
  errored,   \* an error text was given to map_delta
  pending,   \* pending_text
  inCall,    \* in_tool_call
  buffer,    \* tool_call_buffer
  calls,     \* tool_call_index
  out,       \* the chunks written
  cut,       \* history: a delta ended inside a tag
  clean      \* history: every call that ended was JSON

mapperVars == <<protocol, tools, parts, prompt, turn, phase, answer, fed, errored,
                pending, inCall, buffer, calls, out, cut, clean>>
conversation == <<protocol, tools, parts, prompt, turn>>
request == <<conversation, answer>>

Phases == {"request", "start", "open", "failing", "ending", "failed", "done"}
ChunkKinds == {"message_start", "text_start", "tool_start", "text", "args", "call",
               "stop", "finish_tools", "finish", "message_stop"}

Letters == Symbols \cup {"!"}
PartKinds == {"tools", "text", "call", "result"}

Parts == [kind : PartKinds, call : Nat]
Chunks == [kind : ChunkKinds, index : Nat, text : Seq(Letters)]

MapperTypeOK ==
  /\ protocol \in Protocols
  /\ tools \in BOOLEAN
  /\ parts \in Seq(Parts)
  /\ prompt \in Seq(Parts)
  /\ turn \in 1..MaxTurns
  /\ phase \in Phases
  /\ answer \in Answers \cup {<<>>}
  /\ fed \in 0..Len(answer)
  /\ errored \in BOOLEAN
  /\ pending \in Seq(Letters)
  /\ inCall \in BOOLEAN
  /\ buffer \in Seq(Letters)
  /\ calls \in 0..Len(answer)
  /\ out \in Seq(Chunks)
  /\ cut \in BOOLEAN
  /\ clean \in BOOLEAN

\* The elements of s that are in S, in their order.
Kept(s, S) ==
  LET kept[n \in 0..Len(s)] ==
        IF n = 0 THEN <<>>
        ELSE IF s[n] \in S THEN Append(kept[n - 1], s[n])
        ELSE kept[n - 1]
  IN  kept[Len(s)]

-----------------------------------------------------------------------------
(* build_prompt.  A part is a text, a call the model made, or the result of *)
(* one; a call and its result carry the number of the call.                 *)

Part(kind, call) == [kind |-> kind, call |-> call]

PartsOf(kinds, ps) == Kept(ps, [kind : kinds, call : Nat])

\* The instructions that name the tools, when there are any.
ToolInstructions(declared) == IF declared THEN <<Part("tools", 0)>> ELSE <<>>

\* Mutant: the blocks of the type tool_result are left out.
AnthropicPromptResultless(declared, ps) ==
  ToolInstructions(declared) \o PartsOf({"text", "call"}, ps)

\* Blocks of the types text, tool_use and tool_result are quoted.
AnthropicPrompt(declared, ps) ==
  ToolInstructions(declared) \o PartsOf({"text", "call", "result"}, ps)

\* The content of every message is quoted.  A result is the content of a message
\* of the role tool; a call is in tool_calls and the content beside it is null.
OpenAiPrompt(declared, ps) ==
  ToolInstructions(declared) \o PartsOf({"text", "result"}, ps)

\* Only text is quoted: functionCall and functionResponse are not looked at.
GeminiPrompt(declared, ps) ==
  ToolInstructions(declared) \o PartsOf({"text"}, ps)

Prompt(declared, ps) ==
  CASE protocol = "anthropic" -> AnthropicPrompt(declared, ps)
    [] protocol = "openai" -> OpenAiPrompt(declared, ps)
    [] protocol = "gemini" -> GeminiPrompt(declared, ps)

-----------------------------------------------------------------------------
(* Texts and tags.                                                         *)

OpenTag == <<"<", "tool_call>">>
CloseTag == <<"</", "tool_call>">>

Places(tag, s) == {i \in 1..(Len(s) - 1) : <<s[i], s[i + 1]>> = tag}
Has(tag, s) == Places(tag, s) # {}
Before(tag, s) == SubSeq(s, 1, Min(Places(tag, s)) - 1)
After(tag, s) == SubSeq(s, Min(Places(tag, s)) + 2, Len(s))

Trim(s) ==
  LET ink == {i \in DOMAIN s : s[i] # Blank}
  IN  IF ink = {} THEN <<>> ELSE SubSeq(s, Min(ink), Max(ink))

\* Whether serde_json takes the text for an object.
IsJson(s) ==
  /\ Len(s) >= 2
  /\ s[1] = "{" /\ s[Len(s)] = "}"
  /\ \A i \in 2..(Len(s) - 1) : s[i] \in {"x", Blank}

-----------------------------------------------------------------------------
(* Chunks.                                                                 *)

Chunk(kind, index, text) == [kind |-> kind, index |-> index, text |-> text]

\* Anthropic numbers the blocks: text 2n, tool call 2n + 1.
TextIndex == IF protocol = "anthropic" THEN 2 * calls ELSE 0

InitialChunks ==
  IF protocol = "anthropic"
  THEN <<Chunk("message_start", 0, <<>>), Chunk("text_start", 0, <<>>)>>
  ELSE <<>>

FinalChunks ==
  IF protocol = "anthropic"
  THEN <<Chunk("stop", TextIndex, <<>>),
         Chunk(IF calls > 0 THEN "finish_tools" ELSE "finish", 0, <<>>),
         Chunk("message_stop", 0, <<>>)>>
  ELSE <<Chunk("finish", 0, <<>>)>>

TextChunks(s) == IF s = <<>> THEN <<>> ELSE <<Chunk("text", TextIndex, s)>>

\* A tag that opens a call ends the block of text before it.
StopChunks == IF protocol = "anthropic" THEN <<Chunk("stop", TextIndex, <<>>)>> ELSE <<>>

CallChunks(s) ==
  IF protocol = "anthropic"
  THEN <<Chunk("tool_start", TextIndex + 1, <<>>),
         Chunk("args", TextIndex + 1, s),
         Chunk("stop", TextIndex + 1, <<>>)>>
  ELSE <<Chunk("call", calls, s)>>

\* What is not JSON goes back into the text, tags and all; the Anthropic mapper
\* gives it the index of a tool block.
FallbackChunks(s) ==
  <<Chunk("text", IF protocol = "anthropic" THEN TextIndex + 1 ELSE 0,
          OpenTag \o s \o CloseTag)>>

\* A call is written when it is JSON, shown as text when it is not, and dropped when
\* it is blank.
ClosedChunks(body) ==
  CASE body = <<>> -> <<>>
    [] IsJson(body) -> CallChunks(body)
    [] OTHER -> FallbackChunks(body)

\* Mutant: the next block of text is numbered from the incremented index.
ReopenChunksShifted ==
  IF protocol = "anthropic" THEN <<Chunk("text_start", TextIndex + 4, <<>>)>> ELSE <<>>

\* The block of text after a call.
ReopenChunks ==
  IF protocol = "anthropic" THEN <<Chunk("text_start", TextIndex + 2, <<>>)>> ELSE <<>>

-----------------------------------------------------------------------------
(* The conversation.                                                       *)

MapperInit ==
  /\ protocol \in Protocols
  /\ tools \in BOOLEAN
  /\ parts = <<Part("text", 0)>>
  /\ prompt = <<>>
  /\ turn = 1
  /\ phase = "request"
  /\ answer = <<>>
  /\ fed = 0
  /\ errored = FALSE
  /\ pending = <<>>
  /\ inCall = FALSE
  /\ buffer = <<>>
  /\ calls = 0
  /\ out = <<>>
  /\ cut = FALSE
  /\ clean = TRUE

\* handle_generic_stream builds the prompt and opens the cascade.
Ask ==
  /\ phase = "request"
  /\ prompt' = Prompt(tools, parts)
  /\ phase' = "start"
  /\ UNCHANGED <<protocol, tools, parts, turn, answer, fed, errored, pending,
                 inCall, buffer, calls, out, cut, clean>>

\* The first frame is a refusal: the request fails, no chunk is written.
RefuseAtOnce ==
  /\ phase = "start"
  /\ turn < MaxTurns
  /\ phase' = "failed"
  /\ UNCHANGED <<request, fed, errored, pending, inCall, buffer, calls, out, cut, clean>>

\* The transcoding loop starts with the protocol's first frames.  From here on the
\* model's answer comes in.
Start ==
  /\ phase = "start"
  /\ turn < MaxTurns
  /\ phase' = "open"
  /\ answer' \in Answers
  /\ out' = out \o InitialChunks
  /\ UNCHANGED <<conversation, fed, errored, pending, inCall, buffer, calls, cut, clean>>

\* Mutant: the delta overlaps the next one by a symbol.
DeliverOverlapping ==
  /\ phase = "open" /\ pending = <<>>
  /\ \E n \in 1..(Len(answer) - fed) :
       /\ pending' = SubSeq(answer, fed + 1, fed + n)
       /\ fed' = fed + n + 1
  /\ UNCHANGED <<request, phase, errored, inCall, buffer, calls, out, cut, clean>>

\* The next delta; the text may be cut anywhere.
Deliver ==
  /\ phase = "open" /\ pending = <<>>
  /\ \E n \in 1..(Len(answer) - fed) :
       /\ pending' = SubSeq(answer, fed + 1, fed + n)
       /\ fed' = fed + n
  /\ cut' = (cut \/ (fed > 0 /\ <<answer[fed], answer[fed + 1]>> \in {OpenTag, CloseTag}))
  /\ UNCHANGED <<request, phase, errored, inCall, buffer, calls, out, clean>>

\* The cascade reports an error: its text takes the way of a delta.
Fail ==
  /\ phase = "open" /\ pending = <<>>
  /\ phase' = "failing"
  /\ pending' = ErrorText
  /\ errored' = TRUE
  /\ UNCHANGED <<request, fed, inCall, buffer, calls, out, cut, clean>>

\* After an error the loop returns: no final frames.
GiveUp ==
  /\ phase = "failing" /\ pending = <<>>
  /\ phase' = "failed"
  /\ UNCHANGED <<request, fed, errored, pending, inCall, buffer, calls, out, cut, clean>>

\* The stream ends without a single delta: an error text is made up for it.
EndEmpty ==
  /\ phase = "open" /\ pending = <<>>
  /\ fed = 0
  /\ phase' = "ending"
  /\ pending' = ErrorText
  /\ errored' = TRUE
  /\ UNCHANGED <<request, fed, inCall, buffer, calls, out, cut, clean>>

\* The stream ends: the final frames are written, whatever the buffer holds.
End ==
  /\ pending = <<>>
  /\ phase = "ending" \/ (phase = "open" /\ fed > 0)
  /\ phase' = "done"
  /\ out' = out \o FinalChunks
  /\ UNCHANGED <<request, fed, errored, pending, inCall, buffer, calls, cut, clean>>

\* The client shows the answer, carries out the calls and asks again.
Reply ==
  /\ phase = "done"
  /\ LET before == Len(PartsOf({"call"}, parts))
     IN  parts' = parts \o <<Part("text", 0)>>
                        \o [i \in 1..calls |-> Part("call", before + i)]
                        \o [i \in 1..calls |-> Part("result", before + i)]
  /\ turn' = turn + 1
  /\ phase' = "request"
  /\ answer' = <<>>
  /\ fed' = 0
  /\ errored' = FALSE
  /\ inCall' = FALSE
  /\ buffer' = <<>>
  /\ calls' = 0
  /\ out' = <<>>
  /\ cut' = FALSE
  /\ clean' = TRUE
  /\ UNCHANGED <<protocol, tools, prompt, pending>>

-----------------------------------------------------------------------------
(* map_delta: one pass of its loop.                                        *)

\* The rest of the delta is text.
PassText ==
  /\ pending # <<>> /\ ~inCall /\ ~Has(OpenTag, pending)
  /\ out' = out \o TextChunks(pending)
  /\ pending' = <<>>
  /\ UNCHANGED <<request, phase, fed, errored, inCall, buffer, calls, cut, clean>>

\* A call begins.
OpenCall ==
  /\ pending # <<>> /\ ~inCall /\ Has(OpenTag, pending)
  /\ out' = out \o TextChunks(Before(OpenTag, pending)) \o StopChunks
  /\ inCall' = TRUE
  /\ pending' = After(OpenTag, pending)
  /\ UNCHANGED <<request, phase, fed, errored, buffer, calls, cut, clean>>

\* The rest of the delta belongs to a call that goes on.
KeepCall ==
  /\ pending # <<>> /\ inCall /\ ~Has(CloseTag, pending)
  /\ buffer' = buffer \o pending
  /\ pending' = <<>>
  /\ UNCHANGED <<request, phase, fed, errored, inCall, calls, out, cut, clean>>

\* Mutant: what the last delta holds of the call is left out.
CloseCallEarly ==
  /\ pending # <<>> /\ inCall /\ Has(CloseTag, pending)
  /\ LET body == Trim(buffer)
     IN  /\ out' = out \o ClosedChunks(body) \o ReopenChunks
         /\ calls' = IF IsJson(body) THEN calls + 1 ELSE calls
         /\ clean' = (clean /\ IsJson(body))
  /\ inCall' = FALSE
  /\ buffer' = <<>>
  /\ pending' = After(CloseTag, pending)
  /\ UNCHANGED <<request, phase, fed, errored, cut>>

\* Mutant: a call that is not JSON leaves the mapper inside the call.
CloseCallStuck ==
  /\ pending # <<>> /\ inCall /\ Has(CloseTag, pending)
  /\ LET body == Trim(buffer \o Before(CloseTag, pending))
     IN  /\ out' = out \o ClosedChunks(body) \o ReopenChunks
         /\ calls' = IF IsJson(body) THEN calls + 1 ELSE calls
         /\ clean' = (clean /\ IsJson(body))
         /\ inCall' = ~IsJson(body)
  /\ buffer' = <<>>
  /\ pending' = After(CloseTag, pending)
  /\ UNCHANGED <<request, phase, fed, errored, cut>>

\* A call ends.
CloseCall ==
  /\ pending # <<>> /\ inCall /\ Has(CloseTag, pending)
  /\ LET body == Trim(buffer \o Before(CloseTag, pending))
     IN  /\ out' = out \o ClosedChunks(body) \o ReopenChunks
         /\ calls' = IF IsJson(body) THEN calls + 1 ELSE calls
         /\ clean' = (clean /\ IsJson(body))
  /\ inCall' = FALSE
  /\ buffer' = <<>>
  /\ pending' = After(CloseTag, pending)
  /\ UNCHANGED <<request, phase, fed, errored, cut>>

MapperNext ==
  \/ Ask \/ RefuseAtOnce \/ Start \/ Deliver \/ Fail \/ GiveUp \/ EndEmpty \/ End \/ Reply
  \/ PassText \/ OpenCall \/ KeepCall \/ CloseCall

MapperSpec == MapperInit /\ [][MapperNext]_mapperVars

-----------------------------------------------------------------------------
(* What the client reads.                                                  *)

Kinds(kinds) == Kept(out, [kind : kinds, index : Nat, text : Seq(Letters)])
Texts(chunks) == FlattenSeq([i \in DOMAIN chunks |-> chunks[i].text])

\* What the non-streaming handler of /v1/messages puts together from the chunks:
\* all text in one block, then the tool blocks as they were opened, hence with
\* an empty input.
CollectedText == Texts(Kinds({"text"}))
CollectedCalls == Kinds({"tool_start", "call"})

\* The arguments, which only a streaming client gets.
StreamedCalls == LET c == Kinds({"args", "call"}) IN [i \in DOMAIN c |-> c[i].text]

\* The text of a whole answer with its calls taken out: what the instructions
\* promise the model about <tool_call>.
Whole[s \in Seq(Symbols)] ==
  IF ~Has(OpenTag, s)
  THEN [text |-> s, calls |-> <<>>]
  ELSE LET front == Before(OpenTag, s)
           rest == After(OpenTag, s)
       IN  IF ~Has(CloseTag, rest)
           THEN [text |-> front, calls |-> <<>>]
           ELSE LET body == Trim(Before(CloseTag, rest))
                    more == Whole[After(CloseTag, rest)]
                    shown == IF body = <<>> \/ IsJson(body) THEN <<>>
                             ELSE OpenTag \o body \o CloseTag
                IN  [text |-> front \o shown \o more.text,
                     calls |-> (IF IsJson(body) THEN <<body>> ELSE <<>>) \o more.calls]

Answered == SubSeq(answer, 1, fed)
Given == Answered \o (IF errored THEN ErrorText ELSE <<>>)

Marks == {OpenTag[1], CloseTag[1], OpenTag[2], Blank}
Ink(s) == Kept(s, Letters \ Marks)

-----------------------------------------------------------------------------
(* What the translation promises.                                          *)

\* map_delta loses nothing and changes no order: at every moment the chunks, the
\* buffered call and the rest of the delta are the text that came in, up to tags
\* and blanks, however tags are cut, calls broken off and errors mixed in.
NothingLost == Ink(Texts(out) \o buffer \o pending) = Ink(Given)

\* The translation does not depend on where the stream is cut into deltas, as
\* long as no cut is inside a tag: text and calls are those of the answer in one
\* piece, for the streaming client and for the one that gets them collected.
SplitInvariant ==
  phase = "done" /\ ~cut /\ ~errored =>
    /\ CollectedText = Whole[Answered].text
    /\ StreamedCalls = Whole[Answered].calls
    /\ Len(CollectedCalls) = Len(StreamedCalls)

Opens(c) == c.kind \in {"text_start", "tool_start"}

\* The blocks that are open before chunk n of s, by the place of their start.
OpenAt(s, n) ==
  {i \in 1..(n - 1) :
     /\ Opens(s[i])
     /\ \A j \in (i + 1)..(n - 1) : s[j].kind = "stop" => s[j].index # s[i].index}

\* One block is open at a time, no index comes twice, every delta and stop is for the
\* open block and none is open at the end.
Nested(s) ==
  \A n \in DOMAIN s :
    /\ Opens(s[n]) => /\ OpenAt(s, n) = {}
                      /\ \A i \in 1..(n - 1) : Opens(s[i]) => s[i].index < s[n].index
    /\ s[n].kind \in {"text", "args", "stop"} =>
         \E i \in OpenAt(s, n) : s[i].index = s[n].index
    /\ s[n].kind \in {"finish", "finish_tools"} => OpenAt(s, n) = {}

\* The blocks of an Anthropic stream nest as the protocol wants it, wherever the deltas
\* are cut.  It takes calls that are JSON and an end outside a call.
BlocksWellFormed ==
  protocol = "anthropic" /\ clean /\ (phase = "done" => ~inCall) => Nested(out)

\* A model that called tools is asked again with every result, in order.  Not so
\* over the Gemini protocol, whose prompt leaves the results out.
ResultsReachModel ==
  phase # "request" /\ protocol # "gemini" =>
    PartsOf({"result"}, prompt) = PartsOf({"result"}, parts)

=============================================================================

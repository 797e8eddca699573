------------------------------ MODULE AgentTurn ------------------------------
(***************************************************************************)
(* One agent turn: QueueManager._pump_agent (queue.py) asks the model, runs *)
(* the tools it calls in the turn's Toolbox (tools.py), appends what they   *)
(* returned and asks again, until the model answers without a tool or a     *)
(* limit makes it.  The turn is one job of GpuQueue; this is what happens   *)
(* while that job's worker is "pumping".                                    *)
(*                                                                          *)
(* Tokens are counted in units.  What the model writes, and what the web,   *)
(* the documents and the sandbox return, is chosen freely.                  *)
(***************************************************************************)
EXTENDS Integers, Sequences, FiniteSets, SequencesExt

CONSTANTS
  MaxSteps,      \* box.max_steps: rounds of tool calls
  Budget,        \* max_tokens of the turn
  AnswerRoom,    \* ANSWER_ROOM_TOKENS
  StepFloor,     \* STEP_FLOOR_TOKENS
  MinGiven,      \* the 256 tokens any request is given
  Slip,          \* bound: how far the estimate of a thought cut short is off
  MaxCalls,      \* bound: tool calls written in one step
  Amounts,       \* bound: what a reply may use, apart from all it was given
  Tools,         \* the tools of this box, and names that are not one
  Urls,
  LandsAt,       \* [Urls -> Urls]: where a request for an address ends up
  ResultLists,   \* bound: what a search returns, as sequences of addresses
  Paths,         \* workspace files
  MaxFiles,      \* workspace.MAX_FILES
  DocChars,      \* the length of a document
  Breaks,        \* the offsets of its line breaks
  ReadChars      \* agent_read_chars: one part of it

ASSUME TurnAssumption ==
  /\ MaxSteps \in Nat /\ Budget \in Nat /\ AnswerRoom \in Nat /\ StepFloor \in Nat
  /\ MinGiven \in Nat \ {0} /\ MinGiven <= StepFloor
  /\ Slip \in Nat /\ Amounts \subseteq Nat
  /\ LandsAt \in [Urls -> Urls]
  /\ ResultLists \subseteq Seq(Urls)
  /\ DocChars \in Nat \ {0} /\ ReadChars \in Nat \ {0} /\ Breaks \subseteq 0..(DocChars - 1)

VARIABLES
  step, phase,   \* the loop: "asking", "streaming", "tools" (between two), "calling", "over"
  thinking,      \* chat_template_kwargs.enable_thinking
  late,          \* the turn's deadline has passed
  stop,          \* job._cancel
  ending,        \* "answered", "stopped" or "failed"; "none" while it runs
  request,       \* the request in progress: whether it is the last, its max_tokens
  got,           \* what its reply holds so far
  next,          \* the call whose turn it is
  cutOff, cutCall, out,  \* _pump_agent's own
  spent,         \* history: tokens the model really wrote
  guessed,       \* history: a thought was cut short and its length estimated
  messages,      \* what was appended to the conversation
  trail,         \* job.trail
  content,       \* the steps whose words are in job.content_parts
  spoke,         \* history: the steps that said something
  sources, pages,        \* box.sources (their addresses), box.pages
  announced,     \* history: the sources told to the browser, in order
  files, changed,        \* the workspace: the paths in it, and what this turn did to them
  before,        \* history: the paths in it when the turn began
  at, reads      \* a document read from its start: where the next part begins, parts read

loopVars == <<step, phase, ending, request, got, next, cutOff, cutCall, out, spent, guessed>>
talkVars == <<messages, trail, content, spoke>>
boxVars  == <<sources, pages, files, changed, at, reads>>
vars == <<loopVars, talkVars, boxVars, announced, thinking, late, stop, before>>

NoRequest == [final |-> FALSE, given |-> 0]
Nothing == [text |-> FALSE, bare |-> FALSE, calls |-> <<>>, pics |-> 0]

Init ==
  /\ step = 0 /\ phase = "asking" /\ ending = "none"
  /\ thinking \in BOOLEAN /\ late = FALSE /\ stop = FALSE
  /\ request = NoRequest
  /\ got = Nothing /\ next = 1
  /\ cutOff = FALSE /\ cutCall = FALSE /\ out = 0 /\ spent = 0 /\ guessed = FALSE
  /\ messages = <<>> /\ trail = <<>> /\ content = {} /\ spoke = {}
  /\ sources = <<>> /\ pages = {} /\ announced = <<>>
  /\ files \in SUBSET Paths /\ before = files
  /\ changed = [p \in Paths |-> "no"]
  /\ at = 0 /\ reads = 0

-----------------------------------------------------------------------------
(* Asking the model *)

\* Mutant of Final: the rounds are not counted.
Final_Uncounted(full) ==
  cutOff \/ late \/ full \/ (step > 0 /\ Budget - out < StepFloor)

\* Whether this request is the last: tool_choice "none", no thinking.  `full':
\* the prompt's estimate and an answer's room exceed the context.
Final(full) ==
  \/ cutOff
  \/ step = MaxSteps
  \/ late
  \/ full
  \/ step > 0 /\ Budget - out < StepFloor

\* What a step that may think leaves for the answer.
Reserve == IF AnswerRoom < Budget \div 4 THEN AnswerRoom ELSE Budget \div 4

\* Mutant of Given: every step gets the whole budget.
Given_Whole(final) == Budget

\* max_tokens of a request.
Given(final) ==
  LET left == Budget - out - (IF thinking /\ ~final THEN Reserve ELSE 0)
  IN  IF left < MinGiven THEN MinGiven ELSE left

\* The top of the loop.
Ask ==
  /\ phase = "asking"
  /\ \E full \in BOOLEAN :
       request' = [final |-> Final(full), given |-> Given(Final(full))]
  /\ phase' = "streaming" /\ got' = Nothing
  /\ UNCHANGED <<step, ending, next, cutOff, cutCall, out, spent, guessed, talkVars, boxVars,
                 announced, thinking, late, stop, before>>

\* The reply arrives: thoughts, then words, then tool calls; after Stop the next
\* chunk ends it.  Until there are words or calls it is all thought; words that
\* are `bare' are one too, closed with a </think> of their own.
Streaming == phase = "streaming" /\ ~stop

Say ==
  /\ Streaming /\ ~got.text /\ got.calls = <<>>
  /\ \E bare \in BOOLEAN : got' = [got EXCEPT !.text = TRUE, !.bare = bare]
  /\ content' = content \cup {step} /\ spoke' = spoke \cup {step}
  /\ UNCHANGED <<step, phase, ending, request, next, cutOff, cutCall, out, spent, guessed,
                 messages, trail, boxVars, announced, thinking, late, stop, before>>

Call(t) ==
  /\ Streaming /\ ~request.final /\ Len(got.calls) < MaxCalls
  /\ got' = [got EXCEPT !.calls = Append(@, t)]
  /\ UNCHANGED <<step, phase, ending, request, next, cutOff, cutCall, out, spent, guessed,
                 talkVars, boxVars, announced, thinking, late, stop, before>>

\* How a reply's tokens may add up.
Used == {n \in Amounts : n <= request.given} \cup {request.given}

\* The request is local to its reply, and what a reply held to its step.
NextStep == step' = step + 1 /\ phase' = "asking" /\ got' = Nothing /\ request' = NoRequest
Over(how) == ending' = how /\ phase' = "over" /\ got' = Nothing /\ request' = NoRequest

Note == [kind |-> "note", step |-> step, n |-> 0]
ToolRow(kind, n) == [kind |-> kind, step |-> step, n |-> n]

\* What a tool step said first moves from the answer to the trail, without a bare
\* thought: where that was all, it has said nothing.
Worded == got.text /\ ~got.bare
Preamble == IF Worded THEN Append(trail, Note) ELSE trail
Unsaid == spoke' = IF got.bare THEN spoke \ {step} ELSE spoke

\* Mutant of Retold: what is in the trail stays in the answer.
Retold_Stays == content

\* job.content_parts.clear()
Retold == {}

\* The deadline in mid-thought: the stream is closed, no usage arrives, and what
\* was thought is estimated from its characters.
CloseThinking ==
  /\ Streaming /\ ~request.final /\ late /\ ~got.text /\ got.calls = <<>>
  /\ \E n \in Used, slip \in -Slip..Slip :
       /\ n + slip >= 0
       /\ spent' = spent + n /\ out' = out + n + slip
  /\ guessed' = TRUE /\ cutOff' = TRUE
  /\ NextStep
  /\ UNCHANGED <<ending, next, cutCall, talkVars, boxVars, announced,
                 thinking, late, stop, before>>

\* The reply is complete, and its usage has arrived: `full' when it was cut at
\* max_tokens (finish_reason "length").
Counted(n) == spent' = spent + n /\ out' = out + n
Length(n) == n = request.given

\* Thought through its share: answer instead.
ThoughtThrough ==
  /\ phase = "streaming" /\ ~request.final /\ ~stop
  /\ got.calls = <<>> /\ ~got.text
  /\ Counted(request.given)
  /\ cutOff' = TRUE
  /\ NextStep
  /\ UNCHANGED <<ending, next, cutCall, guessed, talkVars, boxVars, announced,
                 thinking, late, stop, before>>

\* Cut in the middle of a call: the calls are shown as cut off, none runs, and
\* the conversation is not told of them.  Stop does not keep them from the trail.
CallCut ==
  /\ phase = "streaming" /\ ~request.final /\ got.calls # <<>>
  /\ Counted(request.given)
  /\ cutOff' = TRUE /\ cutCall' = TRUE
  /\ trail' = Preamble \o [i \in 1..Len(got.calls) |-> ToolRow("cut", i)]
  /\ content' = Retold
  /\ IF stop THEN Over("stopped") /\ UNCHANGED step ELSE NextStep /\ UNCHANGED ending
  /\ Unsaid
  /\ UNCHANGED <<next, guessed, messages, boxVars, announced,
                 thinking, late, stop, before>>

\* No call, or none that counts any more: this was the answer.
Answer ==
  /\ phase = "streaming" /\ ~stop
  /\ \E n \in Used :
       /\ request.final \/ (got.calls = <<>> /\ (got.text \/ ~Length(n)))
       /\ Counted(n)
  /\ Over("answered")
  /\ UNCHANGED <<step, next, cutOff, cutCall, guessed, talkVars, boxVars,
                 announced, thinking, late, stop, before>>

\* A tool step: its words are a preamble, and the calls go into the conversation.
ToolStep ==
  /\ phase = "streaming" /\ ~request.final /\ ~stop /\ got.calls # <<>>
  /\ \E n \in Used : ~Length(n) /\ Counted(n)
  /\ trail' = Preamble
  /\ content' = Retold
  /\ messages' = Append(messages, [role |-> "assistant", step |-> step,
                                   n |-> Len(got.calls), last |-> FALSE])
  /\ phase' = "tools" /\ next' = 1 /\ request' = NoRequest
  /\ Unsaid
  /\ UNCHANGED <<step, ending, got, cutOff, cutCall, guessed, boxVars, announced,
                 thinking, late, stop, before>>

-----------------------------------------------------------------------------
(* Running a tool *)

StartTool ==
  /\ phase = "tools" /\ ~stop
  /\ phase' = "calling"
  /\ UNCHANGED <<step, ending, request, got, next, cutOff, cutCall, out, spent, guessed, talkVars,
                 boxVars, announced, thinking, late, stop, before>>

\* "You have one more round": written below the last result of the last round but one.
Told(ms) ==
  IF MaxSteps - step - 1 = 1 THEN [ms EXCEPT ![Len(ms)].last = TRUE] ELSE ms

\* Pictures the model asked to see: one user turn, after all the results.
Shown(ms, pics) ==
  IF pics = 0 THEN ms
  ELSE Append(ms, [role |-> "pictures", step |-> step, n |-> pics, last |-> FALSE])

\* The conversation once a result is appended.
Closed(result, pics) ==
  LET ms == Append(messages, result)
  IN  IF next < Len(got.calls) THEN ms ELSE Shown(Told(ms), pics)

\* A tool has returned (Toolbox.run: an unknown name, arguments that are no JSON
\* and a tool that raises are results too).
Return(pics) ==
  LET seen == got.pics + pics IN
  /\ phase = "calling"
  /\ trail' = Append(trail, ToolRow("ran", next))
  /\ messages' = Closed([role |-> "tool", step |-> step, n |-> next, last |-> FALSE], seen)
  /\ IF next < Len(got.calls)
       THEN /\ phase' = "tools" /\ next' = next + 1
            /\ got' = [got EXCEPT !.pics = seen]
            /\ UNCHANGED <<step, request>>
       ELSE NextStep /\ next' = 1
  /\ UNCHANGED <<ending, cutOff, cutCall, out, spent, guessed, content, spoke,
                 thinking, late, stop, before>>

Calling(names) == phase = "calling" /\ got.calls[next] \in names

\* cite: a new address gets the next number, a known one keeps its own.
Cite(known, u) == IF u \in ToSet(known) THEN known ELSE Append(known, u)

\* Mutant of Announce: a known source is told again.
Announce_Again(us) == announced' = announced \o us

\* A result tells the browser its newly numbered sources.
Announce(us) ==
  announced' = announced \o SubSeq(sources', Len(sources) + 1, Len(sources'))

Numbered(us) ==
  /\ sources' = FoldLeft(Cite, sources, us)
  /\ Announce(us)

\* A result the box keeps no account of: lists, outlines, searches in a document,
\* Python, a search that finds nothing; and whatever fails: an unknown tool, bad
\* arguments, a service that is away, a page, picture or file that is not there,
\* a tool that raises.
Plain ==
  /\ Return(0)
  /\ UNCHANGED <<boxVars, announced>>

\* A search numbers what it found.
Found ==
  /\ \E us \in ResultLists : Numbered(us)
  /\ Return(0)
  /\ UNCHANGED <<pages, files, changed, at, reads>>

WebSearch == Calling({"web_search"}) /\ Found
\* By the pages the pictures are on.
ImageSearch == Calling({"image_search"}) /\ Found

\* read_page: a page read once this turn is not fetched again, under the address
\* that was asked for or the one it came from.
ReadPage(u) ==
  /\ Calling({"read_page"})
  /\ IF u \in pages
       THEN Numbered(<<u>>) /\ UNCHANGED pages
       ELSE Numbered(<<LandsAt[u]>>) /\ pages' = pages \cup {u, LandsAt[u]}
  /\ Return(0)
  /\ UNCHANGED <<files, changed, at, reads>>

\* view_image: an earlier photo of the chat, or one from the web.
ViewPhoto ==
  /\ Calling({"view_image"})
  /\ Return(1)
  /\ UNCHANGED <<boxVars, announced>>

ViewWebImage(u) ==
  /\ Calling({"view_image"})
  /\ Numbered(<<LandsAt[u]>>)
  /\ Return(1)
  /\ UNCHANGED <<pages, files, changed, at, reads>>

\* text_window: a part ends on the last line break of its second half, if any.
WindowEnd(start) ==
  LET end == IF start + ReadChars < DocChars THEN start + ReadChars ELSE DocChars
      inside == {b \in Breaks : start + ReadChars \div 2 <= b /\ b < end /\ b > start}
  IN  IF end < DocChars /\ inside # {}
        THEN (CHOOSE b \in inside : \A c \in inside : c <= b) + 1
        ELSE end

\* doc_read (and ws_read, read_page's `start'): from the start, or where the
\* last part said to continue.
ReadDocument(start) ==
  /\ Calling({"doc_read"})
  /\ start \in {0, at}
  /\ at' = WindowEnd(start)
  /\ reads' = (IF start = 0 THEN 0 ELSE reads) + 1
  /\ Return(0)
  /\ UNCHANGED <<sources, pages, announced, files, changed>>

\* Workspace.write: a file this turn created stays "created" however often it
\* is written after.
Change(p) ==
  IF changed[p] # "no" THEN changed[p] ELSE IF p \in files THEN "edited" ELSE "created"

\* ws_write and ws_edit (which needs the file): a full workspace refuses a new one.
WriteFile(p) ==
  /\ Calling({"ws_write", "ws_edit"})
  /\ got.calls[next] = "ws_edit" => p \in files
  /\ p \in files \/ Cardinality(files) < MaxFiles
  /\ files' = files \cup {p}
  /\ changed' = [changed EXCEPT ![p] = Change(p)]
  /\ Return(0)
  /\ UNCHANGED <<sources, pages, announced, at, reads>>

RunTool ==
  \/ Plain
  \/ WebSearch
  \/ ImageSearch
  \/ \E u \in Urls : ReadPage(u)
  \/ ViewPhoto
  \/ \E u \in Urls : ViewWebImage(u)
  \/ \E start \in 0..DocChars : ReadDocument(start)
  \/ \E p \in Paths : WriteFile(p)

-----------------------------------------------------------------------------
(* Around the turn *)

Deadline ==
  /\ phase # "over" /\ ~late /\ late' = TRUE
  /\ UNCHANGED <<loopVars, talkVars, boxVars, announced, thinking, stop, before>>

Stop ==
  /\ phase # "over" /\ ~stop /\ stop' = TRUE
  /\ UNCHANGED <<loopVars, talkVars, boxVars, announced, thinking, late, before>>

\* _pump_until_stopped cancels the pump wherever it waits, or the pump looks at
\* the flag itself: at the next chunk, or before the next tool.
StopNoticed ==
  /\ stop /\ phase \in {"streaming", "tools", "calling"}
  /\ IF phase = "streaming"
       THEN \E n \in Used : spent' = spent + n
       ELSE UNCHANGED spent
  /\ Over("stopped")
  /\ UNCHANGED <<step, next, cutOff, cutCall, out, guessed, talkVars, boxVars,
                 announced, thinking, late, stop, before>>

\* UpstreamError, or the stream breaks off.
UpstreamFails ==
  /\ phase = "streaming"
  /\ \E n \in Used : spent' = spent + n
  /\ Over("failed")
  /\ UNCHANGED <<step, next, cutOff, cutCall, out, guessed, talkVars, boxVars,
                 announced, thinking, late, stop, before>>

Next ==
  \/ Ask
  \/ Say
  \/ \E t \in Tools : Call(t)
  \/ CloseThinking
  \/ ThoughtThrough
  \/ CallCut
  \/ Answer
  \/ ToolStep
  \/ StartTool
  \/ RunTool
  \/ Deadline
  \/ Stop
  \/ StopNoticed
  \/ UpstreamFails

Spec == Init /\ [][Next]_vars

-----------------------------------------------------------------------------
(* Properties *)

LoopTypes ==
  /\ step \in 0..MaxSteps
  /\ phase \in {"asking", "streaming", "tools", "calling", "over"}
  /\ ending \in {"none", "answered", "stopped", "failed"}
  /\ request \in [final : BOOLEAN, given : Int]
  /\ got \in [text : BOOLEAN, bare : BOOLEAN, calls : Seq(Tools), pics : Nat]
  /\ next \in Nat \ {0}
  /\ cutOff \in BOOLEAN /\ cutCall \in BOOLEAN /\ guessed \in BOOLEAN
  /\ out \in Nat /\ spent \in Nat
  /\ thinking \in BOOLEAN /\ late \in BOOLEAN /\ stop \in BOOLEAN

BoxTypes ==
  /\ messages \in Seq([role : {"assistant", "tool", "pictures"}, step : 0..MaxSteps,
                       n : Nat, last : BOOLEAN])
  /\ trail \in Seq([kind : {"note", "ran", "cut"}, step : 0..MaxSteps, n : Nat])
  /\ content \subseteq 0..MaxSteps /\ spoke \subseteq 0..MaxSteps
  /\ sources \in Seq(Urls) /\ announced \in Seq(Urls) /\ pages \subseteq Urls
  /\ files \subseteq Paths /\ before \subseteq Paths
  /\ changed \in [Paths -> {"no", "created", "edited"}]
  /\ at \in 0..DocChars /\ reads \in Nat

\* Every variable keeps its type; the loop stays within its rounds.
TypeOK == LoopTypes /\ BoxTypes

\* llama.cpp renders the conversation through the model's chat template: each
\* tool call has exactly one result, in order, right after its turn, pictures
\* come after all of them, and nothing else stands between.  The model is told
\* of its last round exactly when there is one left.
CallsAnswered ==
  phase = "streaming" =>
    \A i \in 1..Len(messages) :
      LET m == messages[i] IN
      /\ m.role = "assistant" =>
           \A k \in 1..m.n :
             /\ i + k <= Len(messages)
             /\ messages[i + k].role = "tool"
             /\ messages[i + k].step = m.step /\ messages[i + k].n = k
      /\ m.role = "tool" =>
           /\ i > m.n /\ messages[i - m.n].role = "assistant"
           /\ m.n <= messages[i - m.n].n
           /\ m.last <=> m.n = messages[i - m.n].n /\ m.step = MaxSteps - 2
      /\ m.role = "pictures" =>
           i > 1 /\ messages[i - 1].role = "tool" /\ m.step = messages[i - 1].step

Notes(s) == {i \in 1..Len(trail) : trail[i].kind = "note" /\ trail[i].step = s}
RanAt == {i \in 1..Len(trail) : trail[i].kind = "ran"}
ResultsAt == {i \in 1..Len(messages) : messages[i].role = "tool"}
\* A call, by its step and its place in it; the calls are made in that order.
CallOf(row) == <<row.step, row.n>>
Earlier(r, s) == r.step < s.step \/ (r.step = s.step /\ r.n < s.n)

\* What a step said is in one place: in the answer, or in the trail above it, and
\* never in both; the answer holds the words of one step.  The trail shows as run
\* exactly what the model was given the results of, in the order of the calls.
ToldOnce ==
  /\ Cardinality(content) <= 1
  /\ \A s \in 0..MaxSteps :
       Cardinality(Notes(s)) + Cardinality(content \cap {s}) = IF s \in spoke THEN 1 ELSE 0
  /\ {CallOf(trail[i]) : i \in RanAt} = {CallOf(messages[i]) : i \in ResultsAt}
  /\ \A i, k \in RanAt : i < k => Earlier(trail[i], trail[k])
  /\ \A i, k \in ResultsAt : i < k => Earlier(messages[i], messages[k])

\* Model and reader are told the turn as it was: the one in a conversation its
\* template renders, the other in an answer and a trail without gap or repetition.
ToldAsItWas == CallsAnswered /\ ToldOnce

\* The budget, or the least a request is given if a caller asked for less than that.
Allowance == IF Budget < MinGiven THEN MinGiven ELSE Budget

\* "The output budget is shared by every step": however many steps there are, and
\* however they end, the turn writes at most the budget (or the least a request is
\* given, if that is more), once more that least, and the error of one estimate;
\* and what is counted is what was written.
BudgetHolds ==
  /\ spent <= Allowance + MinGiven + Slip
  /\ ending \notin {"stopped", "failed"} /\ ~guessed => out = spent

\* The Toolbox's account of the turn.  "Two searches never both hand out a [1]":
\* one number per address, and the browser hears of every source once, in the
\* order of the numbers.
SourcesAnnouncedOnce ==
  /\ announced = sources
  /\ \A i, k \in 1..Len(sources) : sources[i] = sources[k] => i = k

\* A model that follows "continues" gets through the document: every part is more
\* than half a part long.
ReadingGetsThrough ==
  at = DocChars \/ reads * (ReadChars \div 2 + 1) <= at

\* The reply's list of files says what the turn did to each, however often it
\* wrote it.
FilesAreTold ==
  \A p \in Paths :
    /\ changed[p] = "created" <=> p \in files \ before
    /\ changed[p] = "edited" => p \in before

\* What the tools of one turn say of sources, parts and files adds up, over all its
\* steps (Toolbox.cite, _window_result, Workspace.changed).
BoxKeepsAccount == SourcesAnnouncedOnce /\ ReadingGetsThrough /\ FilesAreTold

=============================================================================

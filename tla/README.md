# Llamacracy in TLA+

Llamacracy lets a few people share one GPU. A FastAPI process keeps a queue, runs one
inference at a time through llama-swap (which swaps models in and out of VRAM), meters the
seconds each request held the box, and stores chats, files and courses in SQLite. This
directory is a verification project for that process: TLA+ modules translated from
`llamacracy/*.py`, TLC runs that check them on small instances, and theorems that TLAPS
proves for every value of the constants. Paths below are relative to the repository;
`PROJECT.json` maps every definition to its lines.

## 1. Inventory

Everything in the service runs on one asyncio event loop. A database call never suspends
(`db.py` runs sqlite inside the call, under a lock nobody else can hold across a
suspension), and neither does a put on an unbounded `asyncio.Queue`. What suspends is a
request to llama-swap, a sleep, an event, the GPU slot, the end of the power sampler, a web
search, and a worker thread. The models take one uninterrupted stretch as one action.

| Component | State it keeps | Operations | Talks to |
| --- | --- | --- | --- |
| GPU queue and worker (`queue.py`) | `_pending`, `_active`, `_wake`, `_arrived`, `_slot`, each job's state, stop flag, stream, done event | submit, cancel, drop_queued, drop_conversation, worker loop, `_run`, `_finalize`, start, stop | llama-swap, database, power sampler, metering |
| Model residency (`queue.py`, `upstream.py`) | `_loaded_model`, `locked_model` and its row, `_preload_now`, idle clock, backoff | preload, keepalive, idle unload, `/running` poll, lock, forced unload | llama-swap, the slot |
| Admission, limits, billing (`app.py`, `metering.py`) | `sessions` and `jobs` rows | check_limits, open session, weekly sum and reset, finalize_billing | queue, database |
| Agent turn and tools (`queue.py`, `tools.py`, `sandbox.py`, `fetch.py`, `search.py`, `verify.py`, `quotes.py`) | steps, tool budget, drafts, sources, the deadline | one model call, tool calls, take back a preamble, last answer | llama-swap, web, sandbox, workspace |
| Conversation tree (`app.py`, `threads.py`) | messages with parent and active child, active root, summaries | send, edit, switch, compact, delete, store a reply | queue, database |
| Live queue over SSE (`queue.py`, `app.py`) | a bounded queue per subscriber | subscribe, broadcast, drop a slow reader | browsers |
| OpenAI-compatible API (`app.py`, `upstream.py`) | one job per request, raw bytes | drain, keepalive, disconnect | queue |
| Uploads and documents | rows, files, extracted text | upload, extract, delete | disk |
| Workspace (`workspace.py`) | versions of files per branch | open, write | agent turn, tree |
| Study and practice (`study.py`, `practice.py`) | courses, materials, problems, attempts | CRUD, add a problem, grade, reveal | tree, uploads |
| Identity, keys, settings | users, keys, prefs | provision, check a key | every handler |
| Database, admin reports, front end, benches (see section 7) | rows | reads, one kill | |

### Where it is hard

* **Interleaving of handlers, worker and monitor.** Stop, Kill and a deleted chat may meet a
  job at any await: in the line, while llama-swap is asked, during the pump, while the chat
  is being named, while the sampler ends.
* **Events and the slot.** `_wake` is cleared before it is awaited; `_arrived` is cleared
  when a preload starts; the slot changes hands between worker and monitor.
* **Answers applied late.** `/running`, an unload and a preload are all asked before an await
  and applied after it, when a job may have started, a lock moved or a chat gone.
* **Several steps, each of which may fail.** Finalising bills, writes a row, stores a reply
  and releases waiters; a job is in the line before its row is written.
* **Clocks at boundaries.** A session's last tick, the edge of the rolling week, a load time
  made of two clocks.
* **Stops and crashes of the service.** Cancellation unwinds the worker through `_take`'s
  `finally`; a crash leaves rows behind, and files without rows.
* **Two stores.** An upload is a row and one or two files; a problem has no foreign key to its
  session; a message may refer to what is being deleted.
* **Bytes that end anywhere.** A `/v1` stream is forwarded piece by piece and metered line by
  line; its client may go at any moment and only the response can tell the queue.
* **A model that writes what it likes.** Tool calls cut off, unknown or repeated, preambles
  that turn out not to be the answer, quotations and keys that stand nowhere.

### What makes each component correct

* Queue: strict FIFO, one inference at a time, no wake-up lost, no job forgotten, one ending
  per stream, a stop that is honoured, nothing written into a deleted chat, rows that agree
  with jobs.
* Residency: a job and a touch of the locked model never overlap, the lock survives restarts
  on a model that exists, the view converges to llama-swap's truth, a lock takes hold, an
  idle GPU is freed.
* Billing: sessions and rows agree, a second is sold once, a limit is overshot by few, the
  reset time is true.
* Tree: every message hangs below an older one of its chat, the shown path ends at a leaf, a
  summary stands for exactly what it was made of, a reply was written from its own branch.
* Agent: all steps share one budget, each tool call is answered before the next model call,
  what was said and run is told once and in one place, sources have one number each.
* SSE: a subscriber that lags never blocks the worker; a page shows or is about to show the
  queue as it is.
* `/v1` and the chat's stream: whole, in order, once, with one end, and metered whatever the
  pieces; a client that goes away does not keep the GPU.
* Library: a row has its files, a deletion takes nothing that something else uses, a problem
  belongs to a session that is there, a key stays hidden until earned or asked for.
* Checks: nothing is called checked that was not, and each verdict is the one a plain
  definition gives.

## 2. The order of the work

The modules were written in the order of what they carry, and the plan is done:

1. **GpuQueue**, with **FifoLine** as the abstract specification it implements.
2. **ModelResidency**: which model is in VRAM and who believes it. It sees the queue as
   "somebody waits" and "a job is in the slot"; GpuQueue sees a touch as a holder of the slot.
   The two meet in `TouchAlone` / `SlotDiscipline`.
3. **Metering**: sessions, the week, admission and the bill.
4. **ConversationTree**: messages, branches, switch, edit, compaction in flight, deletion,
   workspace versions along a branch.
5. **AgentTurn**: what happens inside one job of an agent chat.
6. **Streams**: what leaves the box while it works, over SSE and `/v1`.
7. **Library**: uploads, courses, problems and the chats that refer to them.
8. **Checks**: what the server verifies of what a model writes and a student answers.

What is left is in section 7; what is left to prove, at the end of section 6.

## 3. The modules

### GpuQueue

State and code: `pending`, `active`, `wake`, `arrived` are the fields of those names; `slot`
says who holds `_slot`; `worker` is the await at which the worker is suspended (`ready`,
`asleep` in `_wake.wait`, `waiting` for the slot, `asking` llama-swap, `pumping` the answer,
`naming` the chat, `settling` in `sampler.stop`, `stopped`); `state`, `chat`, `stop`,
`ended`, `stream`, `picked` are fields of `Job`; `row`, `replies`, `named`, `chats` are what
the database holds, and `charged` the calls of `finalize_billing`. `ticket` and `lost` are
history. Tokens, reasoning and tool events are left out of `stream`: of its output a job
keeps whether it wrote nothing, thinking only or an answer (`wrote`), which is what
`_finalize` and `_name_chat` look at.

Handlers: `Submit` and `Refuse` (admission with `UnderCap`), `Cancel`, `Kill`, `DropQueued`,
and the three stretches of deleting a chat. Worker: `LoopTop`, `WakeUp`, `SlotGranted`,
`TakeHead`, `AnswerLoaded`, `Output`, `AfterPump` (by `PumpDrained` or `StopNoticed`),
`NameChat`, `TitleRaises`, `RunFails`, `Settle`, with `Finally` for the whole of `_take`'s
finally. Monitor: `TouchBegin`, `PreloadEnd`, `PreloadYield`, `KeepaliveEnd`. Service:
`StopService`, `Exit`, `Crash`, `StartService`.

A database call may raise at the places where the code's reaction matters; `faults` counts
them up to `MaxDbFaults`. A process may end `MaxStarts - 1` times.

### FifoLine

"Strict global FIFO. Exactly one inference runs at a time." A line, who is served, who is
gone. `Fifo` in GpuQueue is its instance with `line <- pending`, `serving <- active` and what
ended or was lost as `gone`. `FifoPromise` includes FifoLine's liveness.

### ModelResidency

`resident` is llama-swap's truth, `view` the queue's `_loaded_model`. Each actor that asks
llama-swap has a variable for what it waits for (`monitor`, `poll`, `admin`) and the answer
on its way (`answer`), so that an answer is applied late, after anything. Time is abstract:
`idle` and `backoff` say whether a clock ran out. llama-swap is external and modelled by how
`upstream.py` uses it: a request loads its model, an aborted load may leave the old model,
the new one or none, and its own ttl may unload while nobody is being served.

### Metering

Time is in ticks, and a credit is divided in `Rate` parts so that the load multiplier is
`LoadRate / Rate`. `Request` is `_check_limits`, `check_limits` and `submit` in one stretch
(no await between them suspends); the worker's clocks are `picked`, `started` and `load` as
`_run` sets them; `Finalize` is `_finalize` with `finalize_billing`. Dollars, the unused fast
lane, rounding to four decimals and the change of a user's limits while jobs run are left
out.

A shutdown bills the job it cuts as far as it came (`Shutdown`). While that job's model is
still loading, `load_seconds` is still 0, so those seconds are billed at the full rate and
not at `LOAD_TIME_MULTIPLIER`; the same `_finalize` counts from `picked_at` and so includes
the time llama-swap was being asked. `Occupancy` has both measures: `_run`'s own is there only
once the chat is named and the sampler has stopped.

### ConversationTree

`chats`, `msgs` and `files` are the rows of `conversations`, `messages` and
`workspace_files`, with the columns that hold the tree together; `used` is SQLite's
`sqlite_sequence`, by which AUTOINCREMENT never gives an id out again. `line` and `running`
are what this component needs of the queue: the jobs in their order, each with what its
handler gave it. A reply job carries the message it answers, the prompt that was built and
the version of the file its workspace saw; a compaction job carries the boundary and what
its transcript was made of. `searches` are sends suspended in a web search, `summaries` are
compactions whose job is done and whose handler has not run yet.

What is abstracted: a path is a set, since ids only grow along it. A summary is the set of
messages it was written from, so "the summary is right" can be said at all; a prompt is what
its summary stands for beside what is sent verbatim. A branch shows one version of one file.
Attachments, titles, renaming and pinning change nothing here.

Sends: `SendInChat` and `SendNew` (one uninterrupted handler), `BeginSearch`, `Land` and
`Abandon` (the same handler around its one real await), `SendCut` (the process dies, or the
database fails, between two of its statements). Turns: `Start`, `Drop` (any ending without a
reply), `WriteFile`, `Answer`, `AnswerCut`. The rest: `Switch`; `Compact`, `Summarise`,
`StoreSummary`; `Delete`, `DeleteCut`; `Restart`, which runs `_TREE_MIGRATION`.

`BranchesAreKept` holds with one handler cut short. With two, both in the first send of one
chat, the migration meets a chat with two first messages and no root, takes it for one of the
days before trees and hangs the second below the first; `db.py` says of it that it is a
"no-op after the first run". A message sent below a question that is still unanswered leaves
the screen when the reply arrives, because the reply becomes what the question shows
(`queue.py`, `_persist_assistant_message`); it stays a version to switch back to.

### AgentTurn

One call of `_pump_agent`. `phase` is where the loop is: `asking` (about to request the next
step), `streaming`, `tools` (between two tools), `calling`, `over`. `step`, `out`, `cutOff`,
`cutCall`, `messages`, `trail`, `content` are the code's variables; `content` holds the steps
whose words are still part of the answer. `spent`, `spoke`, `before`, `announced`, `guessed`
are history. `Ask`, `Say`, `Call`, `ThoughtThrough`, `CallCut`, `Answer`, `ToolStep`,
`StartTool`, then one action per kind of tool: `Plain`, `WebSearch`, `ImageSearch`, `ReadPage`,
`ViewPhoto`, `ViewWebImage`, `ReadDocument`, `WriteFile`. `Deadline` and `Stop` may come at any
point and are noticed where the code looks. Tokens are counted in units; what the model writes
and the web returns is free. `Given` is the share of the budget a request gets, `Reserve` the
room kept for the answer. A caller may ask for fewer tokens than the 256 every request is given
(`app.py` 714 and 1050 set no lower bound), so nothing orders `Budget` and `MinGiven`;
`BudgetHolds` bounds the turn by the larger of the two, one more `MinGiven` and one estimate's
error. Words that are only a thought closed by a bare `</think>` leave no note (`bare`).

Left out: the drafts of a call while it streams, and the estimate of the prompt (`full`) that
may lower a request. Met while modelling, and no property: `_window_result` numbers a
document's parts by their offset and may call two the same part (`tools.py` 320-330); the
notice of a memory tool counts lookups that failed; the estimate for a thought that was closed
by the server is not flagged `usage_estimated`; a page read again under the address that was
redirected gets a second number.

### Streams

The database is synchronous, so a step ends where the code waits for the network, a queue or
an event. Upstream's answer is three lines (`output`, `usage`, `[DONE]`) of two halves each,
and a piece may end after any half; `read` counts them. `channel` is `Job._chunks`, `heard`
what a client that is still there was sent, `mail` a subscriber's queue and `page` the
snapshot its page shows. Queue side: `Submit`, `Take`, `Begin`, `Post`, `RawChunk`,
`ChatChunk`, `Posted`, `Answer`, `Title` (the chat is named), `Finish`, `Fail`, `Cancel`, `Unload`. Page: `Subscribe`,
`Show`, `LeavePage`. Clients: `Leave`, and `Read` and `Notice` of their responses. Keepalives
change nothing and are stutters; the server's cancelling of a response is modelled where its
generator waits for an event.

`Owed` names the moments at which a page is behind on purpose or not: from an answer to the
end of its job (the chat is being named, the sampler is stopping) the final state was not
broadcast yet, and a `/v1` body's loaded model is told only with its job's end. Also seen: a
`/v1` stream that is stopped while it runs gets the event `done`, not `cancelled`, and so ends
without the box's `[DONE]`, although the comment at `app.py` 1367 says the client of a cut
stream gets one (`StreamEnds` says what it does get); a page whose queue overflowed keeps an open connection with
keepalives and never hears again; `max_tokens` of -1 passes the clamp `min(asked or budget,
budget)`, although the comment there says that a -1 would make the cap meaningless.

### Library

`rows` and `disk` are the two stores; `reading` are uploads whose extraction runs; `chats`,
`images`, `docs`, `figures`, `cards` what messages refer to; `courses`, `materials`, `problems`,
`attempts`, `seen` the tables of `study.py` and `practice.py`; `search` a send that waits for
the web, `turn` the running tutor or agent turn. A handler that can be cut between two
statements has the cut in its action (`whole`, `Cut`). Rows before files when something is
deleted, files before rows when it is saved.

A chat is the union of what its messages refer to: the tree is ConversationTree's. One user,
since every statement is scoped to the caller. A `DeleteCourse` cut after some of its sessions
is the `DeleteChat` of each. Waiting turns are left out. Seen: a document attached in two chats
(a resend after a lost answer) is lost to one when the other is deleted, and a photo used in
two makes the deletion fail by its foreign key; a document deleted while its message waits for
a search leaves an id without a row; the problems of a stopped turn stay unanswered with no
card; a wrong answer after a right one leaves card and progress telling different things; the
parked `.incoming-` files of a killed process are never removed.

### Checks

A text is the sequence of its words as `quotes._norm` leaves them, and what the server itself
puts into one (a page mark, "Nothing in d1 matches", a result's number) is the word `Aside`. A
quotation is its fragments between ellipses, none of them empty. A number is an integer in the
smallest unit anybody writes, `One` of it to 1; a value that is compared with it is a fraction,
since `verify.check` takes reciprocals.

`In` is the search of `quotes.py`; `Matches`, with `RoundsTo`, `Close` and `RoundFigure`, the
comparison of `verify.py` (the last decimal, percent, SI prefixes, round figures, reciprocals for
an exact fraction, the sign rule), `Claim`, `Working` and `NumberVerdict` what is made of it;
`RoundSig` and `NumberMatches` the grading of `practice.py`. The properties compare them with
definitions that only say what is meant. `Placed`: the fragments can be laid out in a text;
`Laid`: on pages, each on one of them; `Stated`: no number with the same last decimal is closer
to the value; `Told`: that, for a value a reader may take the number for; `FairlyRounded`: no
number with as many figures is closer to the key.

Around them is the protocol: calls, the sandbox's process, problems sent back or stored, the
reply's verdicts, the student's answer. A program prints numbers and ends with its status line
or without. `TimeOut` kills it, also when it has just ended, and `Left` is what may be read of
its output then: what the reader had is lost, and the rest may begin and stop anywhere, the
status line included, which is why `Ok` asks for the time limit too. `Kept` is an output cut to
size: the cut may go through a number (`Torn`, which leaves one of `Parts`), and the note that
says how many characters were cut is from then on part of the output, its number (`CutNotes`)
included. `added` is `add_problem`'s own counter; the card's number comes from it. `printed`,
`whole`, `asked` and `fetched` are history: what programs really printed, whether any output was
cut or lost, and what the model searched for and was shown of the web.

Abstracted: a word broken at a line's end, one quotation and one number per reply, answers after
the turn. A number's line is what stands beside it (`beside`) and behind its last "=" (`result`).

## 4. The runs

| Run | Instance | What it shows |
| --- | --- | --- |
| `queue_safety` | three jobs of two users, one chat, a cap of one job each, no faults | `QueueDiscipline` (FIFO, one in the slot), `OneEnding`, `StoreAgrees` (what the client was told is what the database has), `StopIsHonoured` |
| `queue_outage` | two jobs of a chat, one raising database call, one restart | `SubmissionsAreHeard` (no lost wake-up or arrival), `WaitersReleased`, `NothingIntoDeletedChats`, `ChargedIffTaken` |
| `queue_live` | two jobs, a stop or a crash of the service, fairness | `SilenceIsSurvived` (Stop and an arrival get through although llama-swap may never answer), `EveryJobEnds` if it does, `FifoPromise`: GpuQueue implements FifoLine, its liveness included |
| `residency` | two models, one may leave the inventory, one restart, one failed `/running` | `LockDiscipline` (touch and job apart, a valid lock), `ViewConverges`, `IdleBoxSettles` (a lock takes hold, an idle GPU is freed) |
| `metering` | three requests of a user, two at a time, five ticks, a session of two, a week of three, one stop | `MoneyAddsUp` (sessions and rows agree, no second sold twice), `OneSessionAtATime`, `LimitsAreHonest` (few overshoot, the reset told and the reset shown are true) |
| `tree` | two chats, five messages (one less per trouble), two jobs or waiting handlers, one search, two file versions, one handler cut short, one restart | `ChatsAreTrees`, `BranchesAreWhole` (a shown path reaches a leaf, summaries and prompts are of their own branch), `QuietTurnSeesNewest`, `BranchesAreKept` |
| `agent_turn` | two rounds of two calls, six tools, a budget of eight units, one document of nine characters, one workspace file, a redirect | `ToldAsItWas`, `BudgetHolds`, `BoxKeepsAccount` |
| `streams` | one job of any kind beside a summary, pieces of any length, one page with room for two snapshots | `NewestIsPushed`, `StreamsAreWhole`, `GoneStreamsFreeTheSlot` |
| `library` | two uploads, two chats, one course, one problem, one cut or restart, three of them at most | `FilesMatchRows`, `NothingInUseIsDeleted`, `PracticeIsSound` |
| `checks` | a paged document, a web text, five problems, three calls, programs that print two numbers of which one is kept | `KeysAreEarned`, `JudgedFairly` |

Each run of a module also checks its `TypeOK` once.

The bounds are the smallest at which the interesting cases exist. Three jobs are needed for
an order to be wrong while one is in the slot, and for a limit to be overshot by more than
the jobs a user may have at once; two jobs of one chat are enough for a delete to meet one
that runs and one that waits. Two models are needed for one to push the other out. One fault
and one restart are enough to break any single step; what two of them do together is not
checked. Five ticks hold two sessions and let a week of three drop its oldest row. Five
messages hold a question, its answer, a compaction of both with one kept, and a fork beside
it; a trouble (a cut, a restart, a search) costs one of them, so that the run ends in minutes,
which leaves four for a chat that met one.

Two rounds of two calls (`MaxSteps`, `MaxCalls`) let the second request be the last, a call be
cut beside a whole one and a source come back in a later step; the `Amounts` a reply may use
are small, odd or all it was given, and the estimate for a thought cut short may be off by
`Slip`. Nine characters with breaks after the third and the sixth make parts that end on a
break, at the full length, and at the end. A subscriber's queue of `Room` 2 can fill, `Behind`
2 lets a response lag, and one job before or behind a summary is enough for a line; the page
is open beside summaries only (`Beside`), since what kind runs makes no difference to it beyond
the body's `Owed`, which the proof covers for all kinds. Two uploads and two chats let each be
used by both; `Few` lets uploads, problems and troubles be three together. The words and
numbers of `MCChecks` are chosen so that each verdict has a case beside its boundary: a
quotation over a page break, out of order, too short, the user's own, the echo of a query; a key
that is half a unit of its rounding, negative, an option's letter, or the number of the cut note;
a printed 12.5 told as 13, as -13, as 1,250 % and as 12,500, a reciprocal, and what a cut leaves
of it.

`CHECK_DEADLOCK FALSE` stands where a bounded set of jobs, ticks, starts, chats or uploads is
used up, or a turn is over; the residency model never ends and Checks rests explicitly
(`Rest`), and both are checked for deadlock.

Every property has a mutant: an operator next to the mapped definition (`..._Ignored`,
`..._OffByOne`) with a plausible bug, under which the property fails.

### Disagreements between the code and its words

Two are runs that must end in a violation.

* `pictures_outlive_chat`: a picture that `run_python` drew is stored at once, and named only by
  a reply that is stored. The reply of a stopped turn is not, so deleting the chat leaves the
  picture's row and file, although `threads.py` says "a deleted chat leaves no orphans".
* `bodies_keep_the_slot`: the drain of a `/v1` call without `stream` looks at the connection
  only after the job's last event, and nobody cancels it, although `_v1_drain` promises
  "cancelling on client disconnect". `GoneBodiesAreCancelled` says that a job whose client left
  while it waited does not end as a finished answer; TLC shows one that is taken, runs to its
  end and is billed, with an upstream that keeps its read timeout (`TimedSpec`).

Others have no run. In the queue:

* `submit` appends the job, then writes its row, then sets `_wake`. If the write raises, the
  job stays in the line with the worker asleep until the next submission.
* The power sampler is stopped only when `_run` reaches its end; a job that fails while
  generating leaves it polling. Its `stop` swallows every `CancelledError`, also the one
  `QueueManager.stop` sent to the worker, so a shutdown may wait for ever.
* The idle monitor unloads without the slot, so it can talk to llama-swap while a job starts,
  although its docstring lets monitor and worker take turns.
* The files a turn works on are read when its message is sent (`app.py` 859); a turn sent below
  one that has not written yet misses what it writes, although `workspace.py` promises "the
  newest version of each path among the messages on its own branch". `QuietTurnSeesNewest`
  says what does hold.
* The `UPDATE` of a chat's title is outside `_name_chat`'s `try`, so a database error there
  turns a finished reply into an error and it is not stored (`TitleRaises`).
* A session's total and a job's row are two statements; one that fails leaves them apart for
  good.

In the checks, where `KeysAreEarned` and `JudgedFairly` say what does hold:

* The note "N more characters cut" is added to an output before it is searched for the key, and
  the cut may go through a number. A key that equals N, or what is left of the number, is stored
  as "Key checked: your code printed it." (`practice.py` 254) although nothing printed it, and a
  number of the reply may be called computed for the same reason; `printed_values` is documented
  as "The values some code printed".
* A search echoes the model's own query, and that counts as seen (as does, beyond the model, a
  `ws_read` of the model's own file). A quotation that stands nowhere else is stored as "Key checked: the quote is in the materials."
  (`practice.py` 255), although the module says (16-17) that quoted words "must be there word for
  word".
* A quotation that runs over a page break of a paged document is "missing": the mark of the page
  stands between its words. The comment at `quotes.py` 125-126 says the whole text is there for
  it. A quotation of fragments, each on one page, is found (`Laid`).

## 5. Fairness

Weak fairness on what the event loop schedules (`Scheduled`): every task that can run does,
and every request that has a timeout in the code (`/running` 5 s, a title 20 s, a keepalive
10 s, an unload 30 s) ends. `SilentUpstreamSpec` stops there: a chat completion may be silent
for ever. `FairSpec` adds that an answer ends (max_tokens bounds it, a read timeout bounds a
silence) and that a preload meets its own limit. `FairStopSpec` adds that a process that was
told to stop and has nothing left to wait for does.

ModelResidency has strong fairness on two steps, `TouchLoads` and `Unloads`: llama-swap may
fail a load or an unload, but one that is tried for ever works some day. Without it a model
that never loads would refute that a lock takes hold, and rightly so. Nothing is assumed of
users, admins, restarts, ttl unloads or failing requests.

Streams has weak fairness on the worker's own steps, on `Take`, and on responses that read or
notice; what the page shows decides nothing on the server and has none. In `Spec` upstream has
none either: `GoneStreamsFreeTheSlot` holds with an upstream that says nothing for ever, because
Stop does not wait for it. `TimedSpec` adds `ReadTimeout`, that an upstream that is asked answers
or fails (600 s, `upstream.py` 38), so that what is found against `GoneBodiesAreCancelled` needs no
endless silence. AgentTurn,
Library and Checks state safety only and assume no fairness.

## 6. Proofs

All proofs are for arbitrary constants under each module's ASSUME.

**GpuQueueProofs.** `Basic`, the conjunction of the type invariant, the slot's discipline and
"a stopped worker when the service is down", is inductive. The lemma `Moves` then sorts every
step into six kinds of what it does to the line: a submission, a job dropped from the line,
the head taken, the end of the job in the slot, the end of the process, or nothing. On these
kinds the second invariant, `Ordered`, is inductive: who is in the line has a ticket not yet
reached by the counter and has not ended (`Known`), what is lost is neither waiting nor
running (`LostKnown`), the line's tickets grow and exceed those of all that was taken
(`FifoOrder`), and each submitted job is in exactly the place its flags say
(`EveryJobAccounted`). FIFO alone is not inductive: without `Known` a new ticket need not be
the greatest. The wake-up and arrival theorems come from `Basic` and one look at each action.
Theorems: `TypeCorrect`, `LineAndSlot` (from `OneAtATime` and `StrictFifo`),
`SubmissionsGetThrough` (from `NoWakeupIsLost` and `NoArrivalIsLost`), and `NoJobIsForgotten`.

On top of those, of a single job: `WaitingIsFree` (billed iff taken),
`NobodyWaitsForEver` (from `NoJobIsForgotten` and `StreamsCloseOnce`: closed once, with the
waiters' release), `DeletedStaysDeleted` (no reply,
title or waiting job in a deleted chat), `StopsAreHonoured` (an action property).
`ImplementsFifo`: every behaviour of GpuQueue is one of FifoLine's safety part. Each of the six
kinds of step maps to a step of FifoLine or a stutter.
The last two are about the course of one job, for which `Courses` sorts the steps once more,
now by where the worker is. `OneEndingIsHeard` assumes that no database call raises
(`MaxDbFaults = 0`; a title that cannot be stored does tell a finished job's client of an error)
and nothing of restarts: `Phases` says how far the job is at each place the worker waits, and
`Told`, that a stream holds the ending of its job's state, once, or none. `StoreKeepsUp` assumes
besides that the service is not stopped (`MaxStarts <= 1`; a queued row outlives its process):
`Whole` adds that a job is cut loose from its chat only when the chat goes, and that a reply is
stored only at a job's end.

**ModelResidencyProofs.** `Sound` (types, `TouchAlone`, `LockIsValid`) is inductive as it
stands: `TouchBegin` needs an empty queue and `Take` a slot without a touch. Theorems:
`ResidencyTyped`, `LockIsDisciplined`.

**MeteringProofs.** `Sound` adds to the types that no clock that was read is ahead of `now`
(`Clocks`) and that a session has its fixed window and has begun (`Windows`). Types need
"one session at a time", since a request's session is a CHOOSE among the open ones, and that
in turn needs `Windows`: a session is opened only when all others of the user are over.
`Books` is inductive beside `Sound` and carries the money and the limits: where each row is
(`Placed`: once in the line, or in the slot), that nothing is billed before its end
(`Unbilled`) and nothing finished later than now (`Past`), that a row has a session of its
owner from the request on (`Admitted`), `Conservation`, and three strengthenings that the
properties need. `BoxPaid`: all that is sold is within the seconds up to the pick of the job in
the slot, not just up to now. `Crowd`: a user has at most `MaxJobsPerUser` jobs. `Lag`: once a
session has reached its cap, those who overshot it *and* those it will still have to pay for
are fewer than `MaxJobsPerUser`; counting only those who overshot is not inductive. The week
needs no invariant beyond types: `WeekLetsGo` says that the rows that finished with j or before
it are a part of what has left the window, or contain it, and sums follow.
What `CreditsOf` adds up is a fold over a set. The lemmas about it (`TotalWithout`,
`TotalOfBoth`, `TotalOfPart`, `TotalOfSame`) are proved by induction over the number of
elements, for which the least counterexample of a set of numbers does (`ByNumber`), and by the
existence of the recursive function that the fold chooses (`SumExists`).
Theorems: `MeterTyped`, `SessionsNeverOverlap`, `MoneyIsConserved`, `LimitsHold`.

**ConversationTreeProofs.** `Sound` is `TypeOK`, `TreeWellFormed`, `RepliesHaveChats` and two
parts that no run needs but the induction does: a waiting search's place is in its chat while
that chat lasts and the chat's id is not another's (`SearchesHavePlaces`), and who runs is in
the line (`RunnerIsFirst`). Well-formedness alone is not inductive: a reply hangs below a
message that must still be there, which `RepliesHaveChats` knows, and a search lands at a
place chosen long before. `GrownIsTree` is the core: a row with a place, hung in, leaves the
tree one. The migration needs one lemma of its own, that "the last before" and "the first
after" agree. Theorems: `ChatsTyped`, and `ChatsAndReplies` (from `ChatsStayTrees` and
`RepliesFindTheirChat`), for any number of handlers cut short.

The other three invariants are about paths, and a path is a walk, which the model computes with a
recursive function (`Walk`). `WalkIs` shows, by induction over the number of rows, that what the
walk meets is the least set that holds its start and what follows each of its members; `PathIs`
that the walk upwards is `Branch(msgs, m)`, the least set of rows that has m and every parent it
meets; `ScreenIsLine` that the path on screen, walked downwards, agrees with it: above each of
its messages are its older ones. From there on no walk is needed. A step that keeps the rows that
stay with their words and parents (`Onward`) keeps every branch (`BranchStays`), and every step
but the migration is one (`StepMovesOn`). On this rest three inductive invariants:

* `Whole`: a summary, stored, on its way or asked for, stands for the branch of its message; a
  prompt, of a stored reply, a turn in the line or a send behind its search, tells the branch above
  its place; a chat that shows nothing has only first messages. None is inductive without the
  others: a reply carries the prompt of its turn, a summary that of its job, the place of a first
  message is chosen by what the chat shows. With it comes the count of `PathsReachLeaves`, which is
  inductive as it stands: a step adds a dead end only when it counts a handler cut short.
  Theorem: `BranchesStayWhole`.
* `Fresh`: a turn that was alone on its branch sees the newest version there; no other turn of the
  line answers a message of that branch (`Apart`: whoever came later found it occupied, or forked);
  a version is tied to a row that is there. Theorem: `QuietTurnsSeeTheNewest`.
* `FewAreBare`: it takes a handler cut short to leave a message in a chat that shows none. The
  migration moves only those, so with one of them it moves nothing. Theorem:
  `NothingIsOverwritten`, which assumes `MaxCuts <= 1`; section 3 has the two cuts that make
  it false. `ShownChatsAreKept` says without that assumption that a chat that shows something is
  rewritten by no step, whatever was cut short.

**AgentTurnProofs.** `BudgetIsShared`:
`BudgetHolds` alone is not inductive, because the last request may be given `MinGiven` on top
of what is left; `Thrift` adds that while the turn runs it is within what it is allowed (`spent <=
Allowance`, the budget or `MinGiven`), that what the code counts is off by at most one
estimate, after which comes the last request (`Count`), and that a request in progress was given
its share and is the last one unless a step's worth is left (`Share`). It uses `MinGiven <= StepFloor` (256 and 384 in the
code). `ReadingNeverStalls`: a part that is not the last ends after more than half of
`ReadChars`, for any document and any line breaks. `FilesToldTruly`: what the turn says it did
to a file agrees with the workspace before and after.

`TurnTypeCorrect`: `TypeOK` with `Where`, what is known of the call at hand in each phase.
`AccountIsKept`: the box numbers the sources of a search as it finds them, and what it keeps of
the turn is what it told the page. The numbering is a fold of `Cite` over the results; nothing
about a fold can be unfolded by the provers beyond its definition, so `CitesExists` shows, by
the length of the results, that the function the fold chooses exists, and `NumberingExtends`
that numbering some results more leaves the numbers given before. `TurnIsToldAsItWas`: each
request replays the conversation so far. Its inductive invariant says of the history the model
is shown (`Conversation`) that it is a list of rows in order, a request for tools followed by
its results (`Rows`), that each result is of a call before it (`Calls`), and that what was said
is what was done (`Said`), with the call at hand the one piece missing.

**StreamsProofs.** `PagesAreUpToDate`: `NewestIsPushed` is inductive beside `Mail` (the queue
is a sequence) and the range of `read`. The steps are sorted by what they owe a page: the loud
ones end in `Broadcast`, which leaves the page with the snapshot of that moment or discards its
queue; the silent ones change nothing a page shows; after the others something is `Owed`.
`StreamsTyped` is the type invariant, with `Mail`.

`WhatIsSentIsHeard` proves `StreamsAreWhole`, for any number of jobs of every kind at once. Its
inductive invariant `Streaming` has four layers beside the types, and each is proved from those
before it:

* `Courses`: where a job is (the line, the slot, over) fits its state, and how much of its answer
  came fits both (`Progress`): nothing before its request is posted, everything when it is done,
  less than everything when it failed, usage exactly when its line is complete.
* `Says`: whoever the step belongs to, a job says one of five things on its stream: nothing that
  matters, a piece of the answer, its end, the close, or its break with the close. Every step is
  one of them for one job and silence for the others (`WorkerSays`, `UpstreamSays`, `TakeSays`,
  `CancelSays`), so what follows has five cases, not fifteen actions.
* `Closing`: the close is the last on a stream and comes when the job is over; a response that is
  over with its client there has read everything, or was a body's that failed.
* `Telling`: of what a client heard *and* what is waiting for it. That is what makes it
  inductive: reading moves an event from one to the other, and what both tell together changes
  only when the job says something. The bytes are `Verbatim`, a chat's end is there once
  (`ChatTold`), a stream has its [DONE] of the box's or is about to get it, exactly if it broke
  (`StreamTold`), a body is on its way whole or was delivered (`BodyTold`).

What the events tell of the bytes (`Halves`) is a fold; `StepsExist` and `HalvesAfter` unfold it,
event by event. When the response is over nothing is waiting, and `Telling` is the property.

**ChecksProofs.** What the algorithms of Checks compute is compared with what is meant.

* *Quotations.* `In` is a fold over the fragments, `Joined` one over pages. `ChainExists` shows
  that the function such a fold chooses exists, `ChainSteps` that it goes from position to
  position; `InIsPlaced` is then the argument for taking first places: if the fragments can be
  laid out at all, the first place for each ends no later than the one in that layout, so a
  place for the next is left. A layout is a function into the text's positions, so no fragment may
  be empty, which `ChecksAssumption` says and `_fragments` sees to.
* *Numbers.* `MatchesFairly`: with two figures or more, rounding key and answer and comparing finds
  the same answers right as asking whether any number with as many figures is closer.
  `RoundSigIs` says what is rounded to, `WritableAre` that a number of n figures that is large
  enough is a multiple of it, `RoundedIsNearest` that no other is as near and larger. The
  provers know 10^k only for a k that is written out, so powers up to the ninth are a name of
  their own (`Ten`) with their values as facts, and the arithmetic goes case by case: this is
  why `NumbersAssumption` bounds numbers to eight digits and figures to nine.
* *What is told of numbers.* `ComparedIsTold` is the same for the reply's numbers: the code finds
  a value among those it compares with just when a reader may take the number for it. Its core,
  `HalfAUnit`, is that being within half of the last decimal and having no closer neighbour are
  the same, for any fraction (`RoundedIsStated`).
* *Sources.* What the tools return is strung together of what others wrote, of queries and of the
  server's own words (`Sourced`). A fragment without a word of the server's therefore stands in
  one of the parts (`ApartIsSourced`, `StrungIsSourced`, `MaterialsAreSourced`): no quotation is
  put together across a mark. On a paged document this gives `PlacedIsLaid`: in the whole text,
  marks and all, a quotation can be laid out just when it can on the pages, each fragment on one.
* *The protocol.* `Typed` adds to the types that a program is there just for the call in hand,
  that a problem whose key is being computed still has its room in the set (`SetTyped`), that
  `added` is the length of the set, that every text that was seen is `Sourced`, and what outputs
  hold: what was printed, or scraps of it once an output was not whole (`KeptIsPrinted`,
  `LeftIsPrinted`). `KeysAreEarned` is inductive beside it, row by row (`Earned`):
  `StoredIsEarned` and `DeliveredIsEarned` for the new row, and texts that were seen stay seen.
  For `JudgedFairly`, a verdict is still the one that would be given now (`VerdictKept`), since
  nothing runs after the reply.

Theorems: `ChecksTyped`, `KeysEarned`, `Judged`.

**LibraryProofs.** `Kept` is inductive, in six parts: types, with the finiteness that counting
materials needs; `Tidy` (what is being read has no row yet, and `FilesMatchRows`); `Sorted` (a
photo is no document and no drawing, and a drawing is of one chat: an id is given out once, so a
row keeps its kind until it goes); `Apart` (a document in two chats is known to be) and `Placed`
(a turn that was not cut loose has its chat), for any order of searches and deletions; and
`Held`, what is in use. Deletion is the heart of it: `OwnedAlone` and `UnusedAlone` say that
nobody misses what a chat, or a course, takes along, and `DeletionsSpare` that this is enough.
Practice rests on it: a turn adds problems to a session that is there. Theorems:
`LibraryTyped`, `FilesAndRowsAgree`, `InUseIsKept`, `PracticeStaysSound`.

### What is only model-checked

Liveness under fairness and everything with ENABLED are out of the prover's reach. The library's
induction theorems take an operator as a parameter and cannot be used here either; where an
induction over data is needed it is stated over sets instead (a set of numbers that holds 0 and
the successor of each of its members is all of Nat: `ByNumber`, `ByElement`), which is how the
sums of Metering are reasoned about, the walks of ConversationTree and the folds of AgentTurn,
Streams and Checks. `SelectSeq` has no definition the prover can use; what is proved about does
without it. Every safety property of the runs is stated by a theorem, some under an assumption
that its theorem names (`OneEndingIsHeard`, `StoreKeepsUp`, `NothingIsOverwritten`). Checked by
TLC alone: the liveness properties `EveryJobEnds`, `SilenceIsSurvived`, `ViewConverges`,
`IdleBoxSettles`, `GoneStreamsFreeTheSlot` and the liveness half of `FifoPromise`
(`ImplementsFifo` is its safety half). RECURSIVE operators are not used anywhere.

## 7. Not modelled, and why

* Extraction of text from documents and pages (`extract.py`, `htmltext.py`): parsing, with no
  control the properties tell apart. The prompts, digests and cards made of it are text.
* Identity, keys, registry, settings: read once at start, or one row of one user changed by one
  statement.
* The admin's reports, the queue's impact on others, invoices and usage lists: SQL that reads.
* The migrations that add columns: before anything is concurrent. (`_TREE_MIGRATION` is
  modelled.)
* Averages of load times and speeds, waiting times shown to users (`_load_ewma`): no property is
  about them.
* Changing a user's limits while jobs run: they are constants of a run of Metering.
* The browser front end and the benches: clients of what is modelled here.
* Tokens, wording, layout.

------------------------------ MODULE GpuQueue ------------------------------
(***************************************************************************)
(* The queue of llamacracy/queue.py: one worker task drains one FIFO line  *)
(* through one GPU slot, while request handlers submit, stop and delete,   *)
(* and the idle monitor borrows the slot to preload or keep alive the      *)
(* locked model.                                                           *)
(*                                                                         *)
(* Everything runs on one asyncio event loop, so a handler is atomic       *)
(* between two points where it really suspends.  A database call and a put *)
(* on an unbounded asyncio.Queue never suspend (db.py runs sqlite inside   *)
(* the call); an HTTP call to llama-swap, a sleep, the wake-up event, the  *)
(* slot and GpuPowerSampler.stop do.  Each action below is one such        *)
(* stretch.  A database call can still raise: `faults' counts how often it *)
(* did, up to MaxDbFaults.                                                 *)
(***************************************************************************)
EXTENDS Naturals, Sequences, FiniteSets

CONSTANTS
  Jobs,            \* every request the run may see; a job id is used once (uuid4)
  Users,
  Chats,           \* conversations
  NoJob, NoChat,   \* None
  Owner,           \* [Jobs -> Users]: job.user_id
  ChatOf,          \* [Jobs -> Chats \cup {NoChat}]: conversation_id at submission;
                   \*   NoChat for /v1 calls and for compaction
  Titled,          \* the first turns of new chats: title_from is set
  Uncapped,        \* users the admin lifted the caps for
  MaxJobsPerUser,  \* settings.max_jobs_per_user; 0 lifts the cap
  MaxDbFaults,     \* bound: database calls that raise in one behaviour
  MaxStarts        \* bound: how often the service is started

ASSUME QueueAssumption ==
  /\ NoJob \notin Jobs
  /\ NoChat \notin Chats
  /\ IsFiniteSet(Jobs)
  /\ Owner \in [Jobs -> Users]
  /\ ChatOf \in [Jobs -> Chats \cup {NoChat}]
  /\ Titled \subseteq {j \in Jobs : ChatOf[j] # NoChat}
  /\ MaxJobsPerUser \in Nat
  /\ MaxDbFaults \in Nat
  /\ MaxStarts \in Nat

JobState == {"none", "queued", "loading_model", "generating",
             "done", "error", "cancelled", "limit_exceeded"}
TERMINAL == {"done", "error", "cancelled", "limit_exceeded"}

\* What reaches a job's stream.  "done" and "stopped" are the event
\* {"type": "done"} with state done or cancelled; "close" is the final None.
\* What tells of progress (loading, tokens, reasoning, tools) is left out.
Event == {"done", "stopped", "title", "error", "cancelled", "close"}

\* Where the worker task is suspended; "ready" is the top of its loop.
Phase == {"ready", "asleep", "waiting", "asking", "pumping", "naming",
          "settling", "stopped"}
Running == {"asking", "pumping", "naming", "settling"}

VARIABLES
  pending,     \* _pending
  active,      \* _active
  wake,        \* _wake
  arrived,     \* _arrived
  slot,        \* who holds _slot
  worker,      \* where _worker is
  state,       \* job.state; "none" before submission
  chat,        \* job.conversation_id
  stop,        \* job._cancel
  ended,       \* job._done
  wrote,       \* the most telling output so far: "nothing", "thinking", "answer"
  stream,      \* everything put on job._chunks, in order
  picked,      \* jobs with a picked_at
  sampling,    \* jobs whose GpuPowerSampler task runs
  chats,       \* the conversations table
  deleting,    \* the conversation a delete handler is in the middle of
  row,         \* jobs.state in the database; "none" when there is no row
  replies,     \* jobs whose assistant message is in the messages table
  named,       \* chats the model has named
  charged,     \* jobs finalize_billing was called for
  service,     \* "up", "stopping" or "down"
  starts, faults,      \* the counters behind MaxStarts and MaxDbFaults
  lost,        \* history: in memory when a process ended
  ticket, tickets      \* history: the order of arrival

lineVars    == <<pending, active>>
syncVars    == <<wake, arrived, slot, worker>>
jobVars     == <<state, chat, stop, ended, wrote, stream, picked, sampling>>
dbVars      == <<chats, row, replies, named, charged>>
serviceVars == <<service, starts, lost>>
ticketVars  == <<ticket, tickets>>
vars == <<lineVars, syncVars, jobVars, dbVars, serviceVars, ticketVars, deleting, faults>>

-----------------------------------------------------------------------------
InLine == {pending[i] : i \in 1..Len(pending)}

\* jobs_of: how many of this user's jobs are queued or running.
JobsOf(u) == Cardinality({j \in Jobs : (j = active \/ j \in InLine) /\ Owner[j] = u})

\* Mutant of Without: a job that leaves the line leaves a hole.
Without_Hole(s, i) == [s EXCEPT ![i] = NoJob]
\* list.remove and list.pop: the sequence without its i-th element.
Without(s, i) == [k \in 1..(Len(s) - 1) |-> IF k < i THEN s[k] ELSE s[k + 1]]

DbOk     == faults' = faults
DbRaises == faults < MaxDbFaults /\ faults' = faults + 1

\* _persist_job: an upsert of the job's row.
Persisted(j, st) == [row EXCEPT ![j] = st]

\* The event loop is free to run a handler of the service.
Free == service = "up" /\ deleting = NoChat

Init ==
  /\ pending = <<>> /\ active = NoJob
  /\ wake = FALSE /\ arrived = FALSE /\ slot = "free" /\ worker = "ready"
  /\ state = [j \in Jobs |-> "none"]
  /\ chat = ChatOf
  /\ stop = [j \in Jobs |-> FALSE]
  /\ ended = [j \in Jobs |-> FALSE]
  /\ wrote = [j \in Jobs |-> "nothing"]
  /\ stream = [j \in Jobs |-> <<>>]
  /\ picked = {} /\ sampling = {}
  /\ chats = Chats /\ deleting = NoChat
  /\ row = [j \in Jobs |-> "none"]
  /\ replies = {} /\ named = {} /\ charged = {}
  /\ service = "up" /\ starts = 1 /\ faults = 0 /\ lost = {}
  /\ ticket = [j \in Jobs |-> 0] /\ tickets = 0

-----------------------------------------------------------------------------
(* Request handlers *)

\* _check_limits: the cap on a user's jobs in the queue.
UnderCap(j) ==
  \/ MaxJobsPerUser = 0
  \/ JobsOf(Owner[j]) < MaxJobsPerUser
  \/ Owner[j] \in Uncapped

\* Mutants of Notify: a submission that tells only one of those who wait.
Notify_ArrivedOnly == arrived' = TRUE /\ UNCHANGED wake
Notify_WakeOnly == wake' = TRUE /\ UNCHANGED arrived

\* The sleeping worker and a preload hear of a job.
Notify == wake' = TRUE /\ arrived' = TRUE

\* submit, from /api/chat, compaction or /v1 after _check_limits let it
\* through.  The job is in the line before its row is written: when that
\* write raises, nobody sets the events.
Submit(j) ==
  /\ Free /\ state[j] = "none" /\ UnderCap(j)
  /\ ChatOf[j] \in chats \cup {NoChat}
  /\ state' = [state EXCEPT ![j] = "queued"]
  /\ pending' = Append(pending, j)
  /\ ticket' = [ticket EXCEPT ![j] = tickets + 1]
  /\ tickets' = tickets + 1
  /\ \/ DbOk /\ row' = Persisted(j, "queued") /\ Notify
     \/ DbRaises /\ UNCHANGED <<row, wake, arrived>>
  /\ UNCHANGED <<active, slot, worker, chat, stop, ended, wrote, stream, picked,
                 sampling, chats, replies, named, charged, serviceVars, deleting>>

\* _check_limits: over a credit cap.  The refusal is a row of its own; the
\* job never enters the queue.
Refuse(j) ==
  /\ Free /\ state[j] = "none" /\ UnderCap(j)
  /\ state' = [state EXCEPT ![j] = "limit_exceeded"]
  /\ row' = Persisted(j, "limit_exceeded")
  /\ UNCHANGED <<lineVars, syncVars, chat, stop, ended, wrote, stream, picked, sampling,
                 chats, replies, named, charged, serviceVars, ticketVars, deleting, faults>>

\* drop_queued: a job that never ran leaves the line, and every waiter hears it.
DropQueued(j) ==
  /\ \E i \in 1..Len(pending) : pending[i] = j /\ pending' = Without(pending, i)
  /\ state' = [state EXCEPT ![j] = "cancelled"]
  /\ stream' = [stream EXCEPT ![j] = Append(Append(@, "cancelled"), "close")]
  /\ ended' = [ended EXCEPT ![j] = TRUE]
  /\ \/ DbOk /\ row' = Persisted(j, "cancelled")
     \/ DbRaises /\ UNCHANGED row
  /\ UNCHANGED <<active, syncVars, chat, stop, wrote, picked, sampling, chats,
                 replies, named, charged, serviceVars, ticketVars>>

SetStop(j) ==
  /\ j = active
  /\ stop' = [stop EXCEPT ![j] = TRUE]
  /\ UNCHANGED <<lineVars, syncVars, state, chat, ended, wrote, stream, picked, sampling,
                 dbVars, serviceVars, ticketVars, faults>>

\* cancel (a user's Stop, or their stream's connection going away) and the
\* admin's kill_job: a running job gets its flag set, a waiting one is dropped.
\* Either answers "not found" for any other job, so _by_id itself, which keeps
\* ended jobs for 120 s, is left out.
Cancel(u, j) ==
  /\ Free /\ Owner[j] = u
  /\ SetStop(j) \/ DropQueued(j)
  /\ UNCHANGED deleting

Kill(j) ==
  /\ Free
  /\ SetStop(j) \/ DropQueued(j)
  /\ UNCHANGED deleting

\* delete_conversation (and a course's delete, per session).  The handler does
\* not suspend: while `deleting' is set nothing else runs.  It drops the chat's
\* queued jobs one by one (a database error there ends the handler) ...
DeleteBegin(c) ==
  /\ Free /\ c \in chats
  /\ deleting' = c
  /\ UNCHANGED <<lineVars, syncVars, jobVars, dbVars, serviceVars, ticketVars, faults>>

\* Mutant of WaitingIn: a delete that forgets the queued jobs.
WaitingIn_None(c) == {}

WaitingIn(c) == {j \in InLine : chat[j] = c}

DeleteDrop ==
  /\ deleting # NoChat
  /\ \E j \in WaitingIn(deleting) :
       /\ DropQueued(j)
       /\ deleting' = IF faults' = faults THEN deleting ELSE NoChat

\* ... then stops the running one and cuts it loose, and deletes the rows.
DeleteEnd ==
  /\ deleting # NoChat /\ WaitingIn(deleting) = {}
  /\ IF active # NoJob /\ chat[active] = deleting
       THEN /\ chat' = [chat EXCEPT ![active] = NoChat]
            /\ stop' = [stop EXCEPT ![active] = TRUE]
       ELSE UNCHANGED <<chat, stop>>
  /\ \/ /\ DbOk
        /\ chats' = chats \ {deleting}
        /\ replies' = {j \in replies : ChatOf[j] # deleting}
        /\ named' = named \ {deleting}
     \/ DbRaises /\ UNCHANGED <<chats, replies, named>>
  /\ deleting' = NoChat
  /\ UNCHANGED <<lineVars, syncVars, state, ended, wrote, stream, picked, sampling,
                 row, charged, serviceVars, ticketVars>>

-----------------------------------------------------------------------------
(* The worker *)

Awake == service # "down" /\ deleting = NoChat

\* Mutant of Turn: pop() instead of pop(0).
Turn_Last == Len(pending)

\* The place in the line that is served next.
Turn == 1

\* Taking the head of the line: pop(0) and the start of _take, up to the
\* await of llama-swap's /running.
TakeHead ==
  /\ pending # <<>> /\ slot = "free"
  /\ pending' = Without(pending, Turn)
  /\ active' = pending[Turn]
  /\ picked' = picked \cup {pending[Turn]}
  /\ slot' = "worker" /\ worker' = "asking"
  /\ UNCHANGED <<wake, arrived, state, chat, stop, ended, wrote, stream, sampling,
                 dbVars, serviceVars, ticketVars, deleting, faults>>

\* The top of _worker's loop: sleep on an empty line, else take the slot.
LoopTop ==
  /\ Awake /\ worker = "ready"
  /\ \/ TakeHead
     \/ /\ pending = <<>>
        /\ wake' = FALSE /\ worker' = "asleep"
        /\ UNCHANGED <<lineVars, arrived, slot, jobVars, dbVars, serviceVars, ticketVars,
                       deleting, faults>>
     \/ /\ pending # <<>> /\ slot # "free"
        /\ worker' = "waiting"
        /\ UNCHANGED <<lineVars, wake, arrived, slot, jobVars, dbVars, serviceVars,
                       ticketVars, deleting, faults>>

WakeUp ==
  /\ Awake /\ worker = "asleep" /\ wake
  /\ worker' = "ready"
  /\ UNCHANGED <<lineVars, wake, arrived, slot, jobVars, dbVars, serviceVars, ticketVars,
                 deleting, faults>>

\* The slot came free while the worker waited for it: the line may have
\* emptied meanwhile.
SlotGranted ==
  /\ Awake /\ worker = "waiting"
  /\ \/ TakeHead
     \/ /\ pending = <<>> /\ slot = "free"
        /\ worker' = "ready"
        /\ UNCHANGED <<lineVars, wake, arrived, slot, jobVars, dbVars, serviceVars,
                       ticketVars, deleting, faults>>

\* Mutant of HasReply: a reply that is all thinking is not worth a row.
HasReply_AnswerOnly(j, st) == chat[j] # NoChat /\ st = "done" /\ wrote[j] = "answer"

\* _finalize persists a reply for a finished turn of a chat that still is one.
HasReply(j, st) == chat[j] # NoChat /\ st = "done" /\ wrote[j] # "nothing"

\* Mutant of Charge: a job that was stopped or failed is not billed.
Charge_DoneOnly(st) == charged' = IF st = "done" THEN charged \cup {active} ELSE charged

\* _finalize calls finalize_billing, whatever the job ended in.
Charge(st) == charged' = charged \cup {active}

\* _take's finally and _finalize, for a job that ends in state st having sent
\* s: billing, the row, the reply, the release of its waiters and of the slot.
\* The row's write may raise, or the reply's after it; both are swallowed.
Finally(st, s, phase) ==
  /\ active' = NoJob
  /\ slot' = "free"
  /\ worker' = phase
  /\ state' = [state EXCEPT ![active] = st]
  /\ stream' = [stream EXCEPT ![active] = Append(s, "close")]
  /\ ended' = [ended EXCEPT ![active] = TRUE]
  /\ Charge(st)
  /\ \/ /\ DbOk
        /\ row' = Persisted(active, st)
        /\ replies' = IF HasReply(active, st) THEN replies \cup {active} ELSE replies
     \/ DbRaises /\ UNCHANGED <<row, replies>>
     \/ /\ DbRaises /\ HasReply(active, st)
        /\ row' = Persisted(active, st)
        /\ UNCHANGED replies
  /\ UNCHANGED <<pending, wake, arrived, chat, stop, wrote, picked, chats, named,
                 starts, lost, ticketVars, deleting>>

\* _run once /running has answered: the job is a cold start or not.
AnswerLoaded ==
  /\ Awake /\ worker = "asking"
  /\ worker' = "pumping"
  /\ \/ state' = [state EXCEPT ![active] = "loading_model"]
     \/ UNCHANGED state
  /\ UNCHANGED <<lineVars, wake, arrived, slot, chat, stop, ended, wrote, stream, picked,
                 sampling, dbVars, serviceVars, ticketVars, deleting, faults>>

\* A pump's first output (_mark_generating starts the sampler), the first token
\* of an answer, and an agent's tool step, which takes back what it said as a
\* preamble.  A pump drops what arrives after Stop.  What a job without a chat
\* writes changes nothing here.
Output ==
  /\ Awake /\ worker = "pumping" /\ ~stop[active]
  /\ \E w \in {"nothing", "thinking", "answer"} :
       /\ state[active] = "generating" => w # wrote[active]
       /\ wrote[active] = "thinking" => w # "nothing"
       /\ ChatOf[active] = NoChat => w = "nothing"
       /\ wrote' = [wrote EXCEPT ![active] = w]
  /\ state' = [state EXCEPT ![active] = "generating"]
  /\ sampling' = sampling \cup {active}
  /\ UNCHANGED <<lineVars, syncVars, chat, stop, ended, stream, picked, dbVars,
                 serviceVars, ticketVars, deleting, faults>>

\* Mutant of Outcome: Stop ends the pump but not the job as cancelled.
Outcome_IgnoresStop(j) == "done"

\* How a job whose pump is over ends.
Outcome(j) == IF stop[j] THEN "cancelled" ELSE "done"

\* _run after the pump: whether the job counts as cancelled is decided here,
\* and the "done" event goes out before the chat is named.
AfterPump ==
  LET st == Outcome(active) IN
  /\ state' = [state EXCEPT ![active] = st]
  /\ stream' = [stream EXCEPT ![active] = Append(@, IF st = "done" THEN "done" ELSE "stopped")]
  /\ worker' = IF active \in Titled /\ wrote[active] = "answer" /\ st = "done"
                 THEN "naming" ELSE "settling"
  /\ UNCHANGED <<lineVars, wake, arrived, slot, chat, stop, ended, wrote, picked, sampling,
                 dbVars, serviceVars, ticketVars, deleting, faults>>

\* llama-swap's reply is complete ...
PumpDrained == Awake /\ worker = "pumping" /\ AfterPump

\* Mutant of StopNoticed: the pumps look at the flag only when a chunk arrives.
StopNoticed_OnChunk == FALSE

\* ... or _pump_until_stopped sees Stop, whatever llama-swap is doing.
StopNoticed == Awake /\ worker = "pumping" /\ stop[active] /\ AfterPump

\* Mutants of RunFails: the client is not told, or the stream is closed twice.
RunFails_Silent ==
  /\ Awake /\ worker \in {"asking", "pumping"}
  /\ Finally("error", stream[active], "ready")
  /\ UNCHANGED <<sampling, service>>
RunFails_Closes ==
  /\ Awake /\ worker \in {"asking", "pumping"}
  /\ Finally("error", stream[active] \o <<"error", "close">>, "ready")
  /\ UNCHANGED <<sampling, service>>

\* UpstreamError, or any other exception, while the job asks or pumps.
RunFails ==
  /\ Awake /\ worker \in {"asking", "pumping"}
  /\ Finally("error", Append(stream[active], "error"), "ready")
  /\ UNCHANGED <<sampling, service>>

\* _name_chat: whatever goes wrong with the request leaves the stand-in title.
\* The title is written over the stand-in only, and only to a chat the job
\* still belongs to ...
NameChat ==
  /\ Awake /\ worker = "naming"
  /\ worker' = "settling"
  /\ \/ UNCHANGED <<named, stream>>
     \/ /\ chat[active] # NoChat
        /\ named' = named \cup {chat[active]}
        /\ stream' = [stream EXCEPT ![active] = Append(@, "title")]
  /\ UNCHANGED <<lineVars, wake, arrived, slot, state, chat, stop, ended, wrote, picked,
                 sampling, chats, row, replies, charged, serviceVars, ticketVars,
                 deleting, faults>>

\* ... and the UPDATE itself may raise, outside the method's try (an
\* error `faults' does not count: a chat is named once).
TitleRaises ==
  /\ Awake /\ worker = "naming"
  /\ chat[active] # NoChat /\ faults < MaxDbFaults
  /\ Finally("error", Append(stream[active], "error"), "ready")
  /\ UNCHANGED <<sampling, service>>

\* The end of _run: the sampler is stopped, and the job is finalized.
Settle ==
  /\ Awake /\ worker = "settling"
  /\ sampling' = sampling \ {active}
  /\ Finally(state[active], stream[active], "ready")
  /\ UNCHANGED service

-----------------------------------------------------------------------------
(* _touch_locked, from the idle monitor *)

\* A preload of the locked model (it clears `arrived') or a keepalive of it.
\* It starts only on an empty queue; a worker already waiting for the slot
\* goes first.
TouchBegin ==
  /\ Awake /\ service = "up"
  /\ slot = "free" /\ active = NoJob /\ pending = <<>> /\ worker # "waiting"
  /\ \/ slot' = "preload" /\ arrived' = FALSE
     \/ slot' = "keepalive" /\ UNCHANGED arrived
  /\ UNCHANGED <<lineVars, wake, worker, jobVars, dbVars, serviceVars, ticketVars,
                 deleting, faults>>

\* Mutant of TouchEnd: it releases a slot somebody else holds.
TouchEnd_AnyHolder(kind) ==
  /\ Awake /\ slot # "free"
  /\ slot' = "free"
  /\ UNCHANGED <<lineVars, wake, arrived, worker, jobVars, dbVars, serviceVars, ticketVars,
                 deleting, faults>>

TouchEnd(kind) ==
  /\ Awake /\ slot = kind
  /\ slot' = "free"
  /\ UNCHANGED <<lineVars, wake, arrived, worker, jobVars, dbVars, serviceVars, ticketVars,
                 deleting, faults>>

\* A preload answers, fails or hits its limit; a keepalive has its timeout.
PreloadEnd   == TouchEnd("preload")
KeepaliveEnd == TouchEnd("keepalive")

\* A preload gives way to a job that arrived.
PreloadYield == arrived /\ TouchEnd("preload")

-----------------------------------------------------------------------------
(* The life of the service *)

\* stop() cancels the tasks.  A suspended worker unwinds through _take's
\* finally, its job in whatever state it was; but CancelledError delivered
\* inside GpuPowerSampler.stop is swallowed there, and the worker goes on.
StopService ==
  /\ Free /\ starts < MaxStarts
  /\ service' = "stopping"
  /\ \/ /\ worker \in {"ready", "asleep", "waiting"}
        /\ worker' = "stopped"
        /\ slot' = "free"
        /\ UNCHANGED <<lineVars, wake, arrived, jobVars, dbVars, starts, lost, ticketVars,
                       deleting, faults>>
     \/ /\ worker \in {"asking", "pumping", "naming"}
        /\ Finally(state[active], stream[active], "stopped")
        /\ UNCHANGED sampling
     \/ /\ worker = "settling" /\ active \in sampling
        /\ UNCHANGED <<lineVars, syncVars, jobVars, dbVars, starts, lost, ticketVars,
                       deleting, faults>>

\* What a process takes with it when it ends.
Vanish ==
  /\ service' = "down"
  /\ lost' = lost \cup InLine \cup ({active} \ {NoJob})
  /\ pending' = <<>> /\ active' = NoJob
  /\ wake' = FALSE /\ arrived' = FALSE /\ slot' = "free" /\ worker' = "stopped"
  /\ sampling' = {} /\ deleting' = NoChat
  /\ UNCHANGED <<state, chat, stop, ended, wrote, stream, picked, dbVars, starts,
                 ticketVars, faults>>

\* stop() has awaited the worker, and the process ends ...
Exit == service = "stopping" /\ worker = "stopped" /\ Vanish

\* ... or it dies at any moment.
Crash == service # "down" /\ starts < MaxStarts /\ Vanish

\* start: a new process has an empty line, whatever the rows say.
StartService ==
  /\ service = "down" /\ starts < MaxStarts
  /\ service' = "up" /\ starts' = starts + 1
  /\ worker' = "ready"
  /\ UNCHANGED <<lineVars, wake, arrived, slot, jobVars, dbVars, lost, ticketVars,
                 deleting, faults>>

-----------------------------------------------------------------------------
Handlers ==
  \/ \E j \in Jobs : Submit(j) \/ Refuse(j) \/ Kill(j)
  \/ \E u \in Users, j \in Jobs : Cancel(u, j)
  \/ \E c \in Chats : DeleteBegin(c)
  \/ DeleteDrop
  \/ DeleteEnd

WorkerStep ==
  \/ LoopTop
  \/ WakeUp
  \/ SlotGranted
  \/ AnswerLoaded
  \/ Output
  \/ PumpDrained
  \/ StopNoticed
  \/ RunFails
  \/ NameChat
  \/ TitleRaises
  \/ Settle

TouchStep == TouchBegin \/ PreloadEnd \/ KeepaliveEnd \/ PreloadYield

ServiceStep == StopService \/ Exit \/ Crash \/ StartService

Next == Handlers \/ WorkerStep \/ TouchStep \/ ServiceStep

Spec == Init /\ [][Next]_vars

\* The event loop runs every task that can run, llama-swap's /running has a
\* 5 s timeout, a title 20 s, and a keepalive 10 s; a service that is stopping
\* goes on to its end.
Scheduled ==
  /\ WF_vars(LoopTop) /\ WF_vars(WakeUp) /\ WF_vars(SlotGranted)
  /\ WF_vars(AnswerLoaded) /\ WF_vars(StopNoticed)
  /\ WF_vars(NameChat \/ TitleRaises) /\ WF_vars(Settle)
  /\ WF_vars(PreloadYield) /\ WF_vars(KeepaliveEnd)
  /\ WF_vars(DeleteDrop) /\ WF_vars(DeleteEnd) /\ WF_vars(Exit)

\* llama-swap may be silent for ever ...
FairSpec == Spec /\ Scheduled

\* ... or every request to it ends: max_tokens bounds a reply, a read timeout a
\* silence, and its own limit a preload.
UpstreamAnswers == WF_vars(PumpDrained) /\ WF_vars(PreloadEnd)

-----------------------------------------------------------------------------
(* Properties *)

LineTypes ==
  /\ pending \in Seq(Jobs)
  /\ active \in Jobs \cup {NoJob}
  /\ wake \in BOOLEAN /\ arrived \in BOOLEAN
  /\ slot \in {"free", "worker", "preload", "keepalive"}
  /\ worker \in Phase

JobTypes ==
  /\ state \in [Jobs -> JobState]
  /\ chat \in [Jobs -> Chats \cup {NoChat}]
  /\ stop \in [Jobs -> BOOLEAN]
  /\ ended \in [Jobs -> BOOLEAN]
  /\ wrote \in [Jobs -> {"nothing", "thinking", "answer"}]
  /\ stream \in [Jobs -> Seq(Event)]
  /\ picked \subseteq Jobs /\ sampling \subseteq Jobs

DbTypes ==
  /\ chats \subseteq Chats /\ deleting \in Chats \cup {NoChat}
  /\ row \in [Jobs -> JobState]
  /\ replies \subseteq Jobs /\ named \subseteq Chats /\ charged \subseteq Jobs

CounterTypes ==
  /\ service \in {"up", "stopping", "down"}
  /\ starts \in Nat /\ faults \in Nat
  /\ lost \subseteq Jobs
  /\ ticket \in [Jobs -> Nat] /\ tickets \in Nat

\* Every variable keeps its type: above all, the job in the slot is a job
\* whenever the worker is about to finish one.
TypeOK == LineTypes /\ JobTypes /\ DbTypes /\ CounterTypes

\* "Strict global FIFO": the line is in order of arrival, and whatever was
\* taken from it arrived before everything still in it.
FifoOrder ==
  /\ \A i, k \in 1..Len(pending) : i < k => ticket[pending[i]] < ticket[pending[k]]
  /\ \A j \in picked, i \in 1..Len(pending) : ticket[j] < ticket[pending[i]]

\* "Exactly one inference runs at a time", and it holds the slot for as long
\* as it runs: the worker is inside a job exactly while the slot is its own.
SlotDiscipline ==
  /\ (active # NoJob) <=> (slot = "worker")
  /\ (active # NoJob) <=> (worker \in Running)

\* The line is strictly first come, first served, and one job at a time has the
\* slot.  (_worker, _take, _touch_locked)
QueueDiscipline == FifoOrder /\ SlotDiscipline

\* A worker asleep in _wake.wait() has been woken if a submission that went
\* through is waiting for it.
NoLostWakeup ==
  worker = "asleep" /\ (\E j \in InLine : row[j] # "none") => wake

\* A preload in progress knows of every submission that went through: the
\* event it waits for was not cleared after the job arrived.
NoLostArrival ==
  slot = "preload" /\ (\E j \in InLine : row[j] # "none") => arrived

\* Whoever waits for a submission, worker or preload, hears of it.  (submit)
SubmissionsAreHeard == NoLostWakeup /\ NoLostArrival

\* No job falls between the line, the slot and its end: whoever waits for it
\* (its stream, compaction's _done.wait) will be, or has been, released; and
\* a job that ended is nowhere in the queue.
EveryJobAccounted ==
  \A j \in Jobs :
    /\ state[j] \notin {"none", "limit_exceeded"} =>
         j \in InLine \/ j = active \/ ended[j] \/ j \in lost
    /\ ended[j] => j \notin InLine /\ j # active

\* The stream is closed exactly when _done is set, once, and nothing is put
\* on it after that.
ClosedOnce ==
  \A j \in Jobs :
    /\ \A i \in 1..Len(stream[j]) : stream[j][i] = "close" => i = Len(stream[j])
    /\ ended[j] <=> (stream[j] # <<>> /\ stream[j][Len(stream[j])] = "close")

\* Whoever waits for a job is released, once, whichever way it ended.
\* (drop_queued, _take)
WaitersReleased == EveryJobAccounted /\ ClosedOnce

Endings == {"done", "stopped", "error", "cancelled"}
EndingOf(s) == IF s = "cancelled" THEN {"stopped", "cancelled"} ELSE {s}

\* A client hears one ending, and it is the one the job came to.
OneEnding ==
  \A j \in Jobs :
    LET said == {i \in 1..Len(stream[j]) : stream[j][i] \in Endings} IN
    /\ Cardinality(said) <= 1
    /\ ended[j] /\ state[j] \in TERMINAL =>
         \E i \in said : stream[j][i] \in EndingOf(state[j])

\* "Its reply (or title) is never written back into a conversation that no
\* longer exists": what is queued or running belongs to a chat that exists or
\* to none, and so does everything written.
NothingIntoDeletedChats ==
  /\ \A j \in Jobs : (j \in InLine \/ j = active) => chat[j] \in chats \cup {NoChat}
  /\ \A j \in replies : ChatOf[j] \in chats
  /\ named \subseteq chats

\* A reply is stored for a job exactly when its client was told "done", it
\* wrote something, and its chat was not deleted.
DoneMeansStored ==
  \A j \in Jobs :
    ended[j] /\ ChatOf[j] \in chats =>
      (j \in replies <=> state[j] = "done" /\ wrote[j] # "nothing")

\* "Queue waiting time -> never charged": billing sees a job if and only if
\* the worker took it.
ChargedIffTaken ==
  /\ charged \subseteq picked
  /\ \A j \in picked : ended[j] => j \in charged

\* The jobs table agrees with the queue: "queued" is a job in the line or in
\* the slot, an ended job has its final state there.
RowsAgree ==
  \A j \in Jobs :
    /\ row[j] = "queued" => j \in InLine \/ j = active
    /\ ended[j] => row[j] = state[j]

\* What the database says of a job, its row and its reply, is what became of it
\* and what its client was told.  (_finalize, _persist_job)
StoreAgrees == DoneMeansStored /\ RowsAgree

\* A running job that is stopped while its answer is written ends cancelled,
\* or in the error that beat it, and never as a finished answer.
StopIsHonoured ==
  [][\A j \in Jobs : stop[j] /\ state[j] \notin TERMINAL => state'[j] # "done"]_vars

\* When llama-swap answers, every submitted job ends, or is lost with its
\* process: _done and the close of its stream reach whoever waits for it.
EveryJobEnds ==
  UpstreamAnswers => \A j \in Jobs : state[j] = "queued" ~> (ended[j] \/ j \in lost)

StopEndsJob == \A j \in Jobs : j = active /\ stop[j] ~> (ended[j] \/ j \in lost)
PreloadGivesWay == slot = "preload" /\ pending # <<>> ~> slot # "preload"

\* However silent llama-swap is, Stop ends a running job, and a job that arrives
\* during a preload gets the slot.  (_pump_until_stopped, _touch_locked)
SilenceIsSurvived == StopEndsJob /\ PreloadGivesWay

\* The queue, seen through its line, its slot and the jobs that are over, does
\* what FifoLine promises: its steps always, its progress when llama-swap answers.
Fifo == INSTANCE FifoLine WITH
          line <- pending, serving <- active, gone <- {j \in Jobs : ended[j]} \cup lost
FifoPromise == Fifo!Safety /\ (UpstreamAnswers => Fifo!Progress)
=============================================================================

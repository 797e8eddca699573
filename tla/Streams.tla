------------------------------- MODULE Streams -------------------------------
(***************************************************************************)
(* What leaves the box while it works: the live queue pushed to a page over  *)
(* SSE (queue.py subscribe, _broadcast; app.py queue_events), the events of  *)
(* a chat's job (app.py chat), and the bytes of a /v1 job, streamed or as    *)
(* one body (app.py v1_chat_completions, queue.py _pump_raw, upstream.py     *)
(* stream_raw, post_raw, UsageSniffer).  The database is synchronous, so a   *)
(* step ends only where the code waits for the network, a queue or an event. *)
(*                                                                          *)
(* Upstream's answer is Lines; each line is two halves, since bytes arrive   *)
(* in pieces that end anywhere.  read[j] counts the halves received.         *)
(***************************************************************************)
EXTENDS Integers, Sequences, FiniteSets, SequencesExt

CONSTANTS
  Jobs, None,
  Uses,     \* bound: by job, the kinds it may have
  Beside,   \* bound: the kinds of the jobs there are while a page is open
  Behind,   \* bound: pieces of a stream its response may have waiting
  Room      \* asyncio.Queue(maxsize=64) of a subscriber

\* A chat; a chat that is named after its first reply (Job.title_from); /v1 with
\* and without "stream"; a summary, whose events nobody reads (compaction).
Chatty == {"chat", "newchat"}
Kinds == Chatty \cup {"stream", "body", "summary"}
Phases == {"asked", "posting", "pump", "title", "stopping"}
ASSUME StreamsAssumption ==
  None \notin Jobs \cup Kinds \cup Phases /\ Uses \in [Jobs -> SUBSET Kinds] /\ Beside \subseteq Kinds
  /\ Behind \in Nat /\ Room \in Nat \ {0}

VARIABLES
  kind,      \* what a job is for, None before it is submitted
  st,        \* Job.state; "new" before it is submitted
  line,      \* QueueManager._pending
  active,    \* QueueManager._active
  phase,     \* what the worker waits for
  loaded,    \* QueueManager._loaded_model is the jobs' model
  read,      \* halves of upstream's answer received
  usage,     \* the usage block was read from them
  stop,      \* Job._cancel
  channel,   \* Job._chunks
  client,    \* "there", or "gone" once its connection is closed
  heard,     \* what the client that is there was sent
  closed,    \* the response is over
  open,      \* a page's connection to /api/queue/events
  tuned,     \* its queue is in QueueManager._subscribers
  mail,      \* that queue
  page       \* the snapshot the page shows

jobVars == <<kind, st, line, active, phase, loaded, read, usage, stop>>
endVars == <<client, heard, closed>>
pageVars == <<open, tuned, mail, page>>
vars == <<jobVars, channel, endVars, pageVars>>

Lines == <<"output", "usage", "[DONE]">>
Total == 2 * Len(Lines)
Terminal == {"done", "error", "cancelled"}
Streamed(j) == kind[j] \in Chatty \cup {"stream"}

Init ==
  /\ kind = [j \in Jobs |-> None] /\ st = [j \in Jobs |-> "new"] /\ line = <<>> /\ active = None /\ phase = None
  /\ loaded = FALSE
  /\ read = [j \in Jobs |-> 0] /\ usage = [j \in Jobs |-> FALSE]
  /\ stop = [j \in Jobs |-> FALSE] /\ channel = [j \in Jobs |-> <<>>]
  /\ client = [j \in Jobs |-> "there"] /\ heard = [j \in Jobs |-> <<>>]
  /\ closed = [j \in Jobs |-> FALSE]
  /\ open = FALSE /\ tuned = FALSE /\ mail = <<>> /\ page = None

(* The live queue. *)
InQueue == ToSet(line) \cup ({active} \ {None})
Snapshot == [loaded |-> loaded, active |-> active, line |-> line,
             states |-> {<<j, st[j]>> : j \in InQueue}]

\* Mutant: the queue of a subscriber has no bound.
Broadcast_Unbounded ==
  /\ mail' = IF tuned THEN Append(mail, Snapshot') ELSE mail
  /\ UNCHANGED <<open, tuned, page>>

\* put_nowait into the subscriber's queue; a queue that is full is discarded.
Broadcast ==
  /\ mail' = IF tuned /\ Len(mail) < Room THEN Append(mail, Snapshot') ELSE mail
  /\ tuned' = (tuned /\ Len(mail) < Room)
  /\ UNCHANGED <<open, page>>

Subscribe ==
  /\ ~open /\ \A j \in Jobs : kind[j] \in Beside \cup {None}
  /\ open' = TRUE /\ tuned' = TRUE /\ mail' = <<Snapshot>>
  /\ UNCHANGED <<jobVars, channel, endVars, page>>

Show ==
  /\ open /\ mail # <<>>
  /\ page' = Head(mail) /\ mail' = Tail(mail)
  /\ UNCHANGED <<jobVars, channel, endVars, open, tuned>>

LeavePage ==
  /\ open
  /\ open' = FALSE /\ tuned' = FALSE /\ mail' = <<>> /\ page' = None
  /\ UNCHANGED <<jobVars, channel, endVars>>

(* Jobs. *)
Emit(j, e) == channel' = [channel EXCEPT ![j] = @ \o e]

\* A request that gets through its checks (one that is refused leaves nothing: not a
\* step).  What is asked of the model goes upstream and is not looked at here.
Submit(j) ==
  /\ st[j] = "new"
  /\ \E k \in Uses[j] : (open => k \in Beside) /\ kind' = [kind EXCEPT ![j] = k]
  /\ st' = [st EXCEPT ![j] = "queued"] /\ line' = Append(line, j)
  /\ UNCHANGED <<active, phase, loaded, read, usage, stop, channel, endVars>>
  /\ Broadcast

Take ==
  /\ active = None /\ line # <<>>
  /\ active' = Head(line) /\ line' = Tail(line) /\ phase' = "asked"
  /\ UNCHANGED <<kind, st, loaded, read, usage, stop, channel, endVars>>
  /\ Broadcast

\* llama-swap told which model is loaded.
Begin(j) ==
  /\ active = j /\ phase = "asked"
  /\ phase' = IF kind[j] = "body" THEN "posting" ELSE "pump"
  /\ UNCHANGED <<kind, line, active, loaded, read, usage, stop, endVars>>
  /\ \/ st' = [st EXCEPT ![j] = "loading_model"] /\ Emit(j, <<[type |-> "loading"]>>) /\ Broadcast
     \/ UNCHANGED <<st, channel, pageVars>>

Post(j) ==
  /\ active = j /\ phase = "posting"
  /\ phase' = "pump" /\ st' = [st EXCEPT ![j] = "generating"]
  /\ UNCHANGED <<kind, line, active, loaded, read, usage, stop, channel, endVars>>
  /\ Broadcast

\* The lines the sniffer sees when the halves from+1..to arrive: those whose end
\* is among them, the beginning being in its buffer.
Completed(from, to) == {Lines[i] : i \in {k \in DOMAIN Lines : 2 * k \in from + 1 .. to}}

Received(j, to) ==
  /\ read' = [read EXCEPT ![j] = to]
  /\ usage' = [usage EXCEPT ![j] = @ \/ "usage" \in Completed(read[j], to)]
MarkGenerating(j) ==
  st' = [st EXCEPT ![j] = "generating"] /\ loaded' = TRUE /\ Broadcast
FirstOutput(j, to) == st[j] # "generating" /\ "output" \in Completed(read[j], to)

\* A piece of a /v1 stream goes on as it came.
RawChunk(j) == \E to \in read[j] + 1 .. Total :
  /\ active = j /\ phase = "pump" /\ kind[j] = "stream" /\ ~stop[j]
  /\ Len(channel[j]) < Behind
  /\ Received(j, to)
  /\ Emit(j, <<[type |-> "raw", from |-> read[j], to |-> to]>>)
  /\ UNCHANGED <<kind, line, active, phase, stop, endVars>>
  /\ IF FirstOutput(j, to) THEN MarkGenerating(j) ELSE UNCHANGED <<st, loaded, pageVars>>

\* A chat reads whole lines; only output becomes an event.
ChatChunk(j) == LET to == read[j] + 2 IN
  /\ active = j /\ phase = "pump" /\ kind[j] \in Chatty \cup {"summary"} /\ ~stop[j] /\ to <= Total
  /\ Received(j, to)
  /\ Emit(j, IF "output" \in Completed(read[j], to) THEN <<[type |-> "token"]>> ELSE <<>>)
  /\ UNCHANGED <<kind, line, active, phase, stop, endVars>>
  /\ IF FirstOutput(j, to) THEN MarkGenerating(j) ELSE UNCHANGED <<st, loaded, pageVars>>

\* The whole body at once; the loaded model is noted without telling the page.
Posted(j) ==
  /\ active = j /\ phase = "pump" /\ kind[j] = "body" /\ read[j] = 0
  /\ Received(j, Total) /\ loaded' = TRUE
  /\ Emit(j, <<[type |-> "raw", from |-> 0, to |-> Total]>>)
  /\ UNCHANGED <<kind, st, line, active, phase, stop, endVars, pageVars>>

\* The pump is through, or Stop ends it.
Answer(j) == LET end == IF stop[j] THEN "cancelled" ELSE "done" IN
  /\ active = j /\ phase = "pump" /\ (stop[j] \/ read[j] = Total)
  /\ st' = [st EXCEPT ![j] = end] /\ Emit(j, <<[type |-> "done", state |-> end]>>)
  /\ phase' = IF kind[j] = "newchat" /\ ~stop[j] THEN "title" ELSE "stopping"
  /\ UNCHANGED <<kind, line, active, loaded, read, usage, stop, endVars, pageVars>>

\* Naming the chat: a title, a timeout, an error or a Stop.
Title(j) ==
  /\ active = j /\ phase = "title" /\ phase' = "stopping"
  /\ Emit(j, <<[type |-> "title"]>>) \/ UNCHANGED channel
  /\ UNCHANGED <<kind, st, line, active, loaded, read, usage, stop, endVars, pageVars>>

Close == [type |-> "close"]

\* The power sampler has stopped; the job is finalised and its stream closed.
Finish(j) ==
  /\ active = j /\ phase = "stopping"
  /\ active' = None /\ phase' = None
  /\ Emit(j, <<Close>>)
  /\ UNCHANGED <<kind, st, line, loaded, read, usage, stop, endVars>>
  /\ Broadcast

\* Upstream refuses, or its connection breaks.
Fail(j) ==
  /\ active = j /\ phase = "pump" /\ read[j] < Total
  /\ st' = [st EXCEPT ![j] = "error"] /\ active' = None /\ phase' = None
  /\ Emit(j, <<[type |-> "error"], Close>>)
  /\ UNCHANGED <<kind, line, loaded, read, usage, stop, endVars>>
  /\ Broadcast

\* Mutant: the pages are not told of a dropped job.
DropQueued_Quiet(j) ==
  /\ line' = RemoveFirst(line, j) /\ st' = [st EXCEPT ![j] = "cancelled"]
  /\ Emit(j, <<[type |-> "cancelled"], Close>>)
  /\ UNCHANGED <<kind, active, phase, loaded, read, usage, stop, pageVars>>

DropQueued(j) ==
  /\ line' = RemoveFirst(line, j) /\ st' = [st EXCEPT ![j] = "cancelled"]
  /\ Emit(j, <<[type |-> "cancelled"], Close>>)
  /\ UNCHANGED <<kind, active, phase, loaded, read, usage, stop>>
  /\ Broadcast

Cancel(j) ==
  \/ /\ j = active /\ stop' = [stop EXCEPT ![j] = TRUE]
     /\ UNCHANGED <<kind, st, line, active, phase, loaded, read, usage, channel, pageVars>>
  \/ j \in ToSet(line) /\ DropQueued(j)
  \/ j \notin InQueue /\ UNCHANGED <<jobVars, channel, pageVars>>

\* A user's Stop or an admin's Kill.
Stop(j) == j \in InQueue /\ ~stop[j] /\ Cancel(j) /\ UNCHANGED endVars

\* An admin's unload takes effect at once, even in a reply; the idle monitor's
\* request may be answered when a job has come.
Unload ==
  /\ loaded /\ loaded' = FALSE
  /\ UNCHANGED <<kind, st, line, active, phase, read, usage, stop, channel, endVars>>
  /\ Broadcast

(* Responses. *)
Leave(j) ==
  /\ kind[j] \notin {None, "summary"} /\ ~closed[j] /\ client[j] = "there"
  /\ client' = [client EXCEPT ![j] = "gone"] /\ heard' = [heard EXCEPT ![j] = <<>>]
  /\ UNCHANGED <<jobVars, channel, closed, pageVars>>

\* Bytes join what was sent before them.
Joined(h, e) ==
  IF h # <<>> /\ Last(h).type = "raw" /\ Last(h).to = e.from
  THEN Append(Front(h), [Last(h) EXCEPT !.to = e.to]) ELSE Append(h, e)

DoneMarker == [type |-> "[DONE]"]

\* Mutant: a stream dropped from the queue just ends.
Relayed_NoMarker(h, e) ==
  CASE e.type = "raw" -> Joined(h, e)
    [] e.type = "error" -> h \o <<e, DoneMarker>>
    [] OTHER -> h

\* What a /v1 stream sends for an event of the queue.
Relayed(h, e) ==
  CASE e.type = "raw" -> Joined(h, e)
    [] e.type = "cancelled" -> Append(h, DoneMarker)
    [] e.type = "error" -> h \o <<e, DoneMarker>>
    [] OTHER -> h

\* A /v1 body is sent when the job is over; 502 without one.
Collected(h, e) ==
  CASE e.type = "raw" -> Joined(h, e)
    [] e.type = "error" -> Append(h, [type |-> "502"])
    [] e.type = "close" -> Append(h, [type |-> IF h = <<>> THEN "502" ELSE "200"])
    [] OTHER -> h

Sent(j, e) ==
  CASE kind[j] \in Chatty -> IF e = Close THEN heard[j] ELSE Append(heard[j], e)
    [] kind[j] = "stream" -> Relayed(heard[j], e)
    [] OTHER -> Collected(heard[j], e)

Read(j) == LET e == Head(channel[j]) IN
  /\ kind[j] # "summary" /\ ~closed[j] /\ channel[j] # <<>>
  /\ channel' = [channel EXCEPT ![j] = Tail(@)]
  /\ heard' = IF client[j] = "there" THEN [heard EXCEPT ![j] = Sent(j, e)] ELSE heard
  /\ closed' = [closed EXCEPT ![j] = e = Close \/ (kind[j] = "body" /\ e.type = "error")]
  /\ UNCHANGED <<jobVars, client, pageVars>>

\* Mutant: the response ends and its job is left running.
Notice_Quiet(j) ==
  /\ client[j] = "gone" /\ ~closed[j] /\ channel[j] = <<>> /\ Streamed(j)
  /\ closed' = [closed EXCEPT ![j] = TRUE]
  /\ UNCHANGED <<jobVars, channel, pageVars, client, heard>>

\* The server cancels a streaming response whose client has gone, where it waits
\* for an event.  Nobody watches the connection of a body.
Notice(j) ==
  /\ client[j] = "gone" /\ ~closed[j] /\ channel[j] = <<>> /\ Streamed(j)
  /\ Cancel(j)
  /\ closed' = [closed EXCEPT ![j] = TRUE]
  /\ UNCHANGED <<client, heard>>

Upstream(j) == RawChunk(j) \/ ChatChunk(j) \/ Posted(j) \/ Fail(j)
Worker(j) == Begin(j) \/ Post(j) \/ Answer(j) \/ Title(j) \/ Finish(j)
Response(j) == Read(j) \/ Notice(j)

Next ==
  \/ Take \/ Unload \/ Subscribe \/ Show \/ LeavePage
  \/ \E j \in Jobs : Submit(j) \/ Upstream(j) \/ Worker(j) \/ Stop(j) \/ Leave(j) \/ Response(j)

\* The event loop runs what is ready, titles and /running have timeouts, and a
\* client that is there reads.  Nothing is asked of upstream here: what holds does
\* not wait for its read timeout.
Fairness == WF_vars(Take) /\ \A j \in Jobs : WF_vars(Worker(j)) /\ WF_vars(Response(j))
Spec == Init /\ [][Next]_vars /\ Fairness

\* With the timeout: upstream says something in time, or its request has failed.
ReadTimeout == \A j \in Jobs : WF_vars(Upstream(j))
TimedSpec == Spec /\ ReadTimeout

(* Properties. *)
Event == [type : {"loading", "token", "title", "error", "cancelled", "close", "[DONE]", "200", "502"}]
  \cup [type : {"done"}, state : {"done", "cancelled"}]
  \cup [type : {"raw"}, from : 0..Total, to : 0..Total]

\* Every variable has its type, and a subscriber's queue its bound.
TypeOK ==
  /\ kind \in [Jobs -> Kinds \cup {None}]
  /\ st \in [Jobs -> Terminal \cup {"new", "queued", "loading_model", "generating"}]
  /\ line \in Seq(Jobs) /\ active \in Jobs \cup {None}
  /\ phase \in Phases \cup {None}
  /\ loaded \in BOOLEAN /\ read \in [Jobs -> 0..Total] /\ usage \in [Jobs -> BOOLEAN]
  /\ stop \in [Jobs -> BOOLEAN] /\ client \in [Jobs -> {"there", "gone"}]
  /\ closed \in [Jobs -> BOOLEAN]
  /\ channel \in [Jobs -> Seq(Event)] /\ heard \in [Jobs -> Seq(Event)]
  /\ open \in BOOLEAN /\ tuned \in BOOLEAN /\ Len(mail) <= Room
  /\ tuned => open

\* The newest a page was sent, or is about to be.
Newest == IF mail = <<>> THEN page ELSE Last(mail)
\* Between an answer and the end of its job the page is owed a snapshot, and
\* after a body arrived.
Owed == phase \in {"title", "stopping"} \/ (active # None /\ phase = "pump" /\ read[active] = Total)

\* A subscribed page has, or has waiting for it, the queue as it is: every change
\* of _pending, _active, a job's state or the loaded model was broadcast, and in
\* order.  (queue.py: _broadcast and its callers)
NewestIsPushed == tuned /\ ~Owed => Newest = Snapshot

Those(h, types) == {i \in 1..Len(h) : h[i].type \in types}
\* The halves in these events, if they follow each other without a gap; else -1.
Follow(n, e) == IF e.type # "raw" THEN n ELSE IF e.from = n THEN e.to ELSE -1
Halves(h) == FoldLeft(Follow, 0, h)
Whole(h) == Halves(h) = Total
Cut(j) == st[j] = "cancelled" /\ stop[j]

Verbatim(j) == kind[j] \in {"stream", "body"} => Halves(heard[j] \o channel[j]) = read[j]
ChatEnds(j) == closed[j] =>
  \E i \in 1..Len(heard[j]) :
    /\ Those(heard[j], {"done", "error", "cancelled"}) = {i}
    /\ st[j] = IF heard[j][i].type = "done" THEN heard[j][i].state ELSE heard[j][i].type
StreamEnds(j) == closed[j] =>
  Cardinality(Those(heard[j], {"[DONE]"})) = IF Cut(j) \/ Whole(heard[j]) THEN 0 ELSE 1
BodyEnds(j) == closed[j] =>
  Last(heard[j]).type = (IF Whole(heard[j]) THEN "200" ELSE "502")

\* A client that stays hears what was meant for it: a /v1 client upstream's bytes,
\* all of them, in order and nothing twice; a chat exactly one end, the one its job
\* had; a /v1 stream exactly one [DONE], upstream's or the box's, but none of the
\* box's when it was stopped while it ran (upstream's if that had come); a /v1 body
\* 200 exactly when the body is whole.
HeardAsSent == \A j \in Jobs : client[j] = "there" =>
  /\ Verbatim(j)
  /\ CASE kind[j] \in Chatty -> ChatEnds(j)
       [] kind[j] = "stream" -> StreamEnds(j)
       [] OTHER -> BodyEnds(j)

\* The numbers billing needs survive however the bytes are cut into pieces: a
\* job that ran to its end has its usage block, and a stream counts as generating
\* from its first whole line of output, not before and not later.
BillingFactsSurvive == \A j \in Jobs :
  /\ usage[j] <=> read[j] >= 4
  /\ st[j] = "done" => usage[j]
  /\ kind[j] # "body" /\ st[j] \notin Terminal => (st[j] = "generating" <=> read[j] >= 2)

\* What upstream said reaches the client whole and once, and the meter as well,
\* however its bytes are cut and however the job ends.  (app.py: chat,
\* v1_chat_completions; queue.py: _pump_raw; upstream.py: UsageSniffer)
StreamsAreWhole == HeardAsSent /\ BillingFactsSurvive

\* A client that goes away does not keep the GPU: its job ends, even if upstream
\* says nothing more.  For the streamed responses.  (Who is gone stays gone and what
\* has ended stays so: "again and again" is "from some moment on".  app.py: chat,
\* _v1_drain)
GoneStreamsFreeTheSlot ==
  \A j \in Jobs : []<>(client[j] = "gone" /\ Streamed(j) => st[j] \in Terminal)

\* A /v1 call is cancelled when its client disconnects, as _v1_drain's docstring has
\* it: without "stream", where the client went while its job was still waiting for
\* its turn, the job is not run to its end.  (app.py: _v1_drain, v1_chat_completions)
GoneBodiesAreCancelled ==
  \A j \in Jobs : [](client[j] = "gone" /\ kind[j] = "body" /\ st[j] = "queued"
                       => [](st[j] # "done"))
==============================================================================

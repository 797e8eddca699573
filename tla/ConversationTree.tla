-------------------------- MODULE ConversationTree --------------------------
(***************************************************************************)
(* Chats as trees (llamacracy/threads.py, workspace.py and the handlers of *)
(* app.py that grow them): sending, editing, switching between versions,   *)
(* compaction, the model's files, deletion, and the replies that come back *)
(* through the queue.                                                      *)
(*                                                                         *)
(* A summary is the set of messages it was written from, and a prompt is   *)
(* the set its summary stands for beside the set sent verbatim.  The code  *)
(* keeps a path as a list; ids only grow along it, so here it is a set.    *)
(*                                                                         *)
(* No database call suspends (the lock of db.py is never contended), so a  *)
(* handler is one step up to the await that really waits: for a web search *)
(* or for the job of a compaction.                                         *)
(***************************************************************************)
EXTENDS Integers, Sequences, FiniteSets, SequencesExt

CONSTANTS
  KeepRecent,      \* COMPACT_KEEP_RECENT
  MaxMessages,     \* bound: message rows ever written
  MaxChats,        \* bound: chats ever started
  MaxVersions,     \* bound: file versions ever written
  MaxInFlight,     \* bound: jobs in the line and handlers that wait for something
  MaxSearches,     \* bound: sends that wait for a search
  MaxCuts,         \* bound: handlers cut short between two statements
  MaxRestarts      \* bound: restarts of the service

ASSUME TreeAssumption ==
  {KeepRecent, MaxMessages, MaxChats, MaxVersions, MaxInFlight, MaxSearches,
   MaxCuts, MaxRestarts} \subseteq Nat

VARIABLES
  chats,      \* conversations: id -> active_root_id
  msgs,       \* messages: id -> its columns, and what its prompt was made of
  files,      \* workspace_files: id -> its chat and message
  used,       \* sqlite_sequence: the last id given out, per table
  line,       \* the active job and those that wait
  running,    \* is the first of them running?
  searches,   \* sends suspended in get_search().search
  summaries,  \* compactions whose job is done and whose handler is not
  cuts, restarts

vars == <<chats, msgs, files, used, line, running, searches, summaries,
          cuts, restarts>>

\* NULL.
None == 0

NoPrompt == [told |-> {}, verbatim |-> {}]

Column(col) == [m \in DOMAIN msgs |-> msgs[m][col]]

Rows(c) == {m \in DOMAIN msgs : msgs[m].chat = c}

\* The rows met from start by following next, which no chain of them leaves.
Walk(start, next, rows) ==
  LET met[n \in Nat] ==
        IF n = 0 THEN {start} \cap rows
        ELSE LET S == met[n - 1] IN S \cup ({next[k] : k \in S} \cap rows)
      all == met[Cardinality(rows)]
  IN  {m \in rows : m \in all}

ActivePath(c) == Walk(chats[c], Column("child"), Rows(c))
PathTo(m, c) == Walk(m, Column("parent"), Rows(c))

\* path[-1]: where a plain send continues, None in an empty chat.
Tips(c) ==
  LET path == ActivePath(c)
  IN  IF path = {} THEN {None} ELSE {m \in path : msgs[m].child \notin path}

\* The deepest compaction on a path, if any.
SummaryPoint(path) ==
  {b \in path : /\ msgs[b].summary # {}
                /\ \A k \in path : msgs[k].summary # {} => k <= b}
Told(path) == UNION {msgs[b].summary : b \in SummaryPoint(path)}

\* The part still sent verbatim.
AfterSummary(path) == {m \in path : \A b \in SummaryPoint(path) : m > b}

\* What the model is sent: a reply with no text is left out.
History(path) ==
  [told |-> Told(path), verbatim |-> {m \in AfterSummary(path) : msgs[m].text}]

\* The version of the file that a branch shows, None when it has none.
Newest(path) ==
  LET shown == {v \in DOMAIN files : files[v].message \in path}
  IN  IF shown = {} THEN None ELSE CHOOSE v \in shown : \A w \in shown : w <= v

-----------------------------------------------------------------------------

Init ==
  /\ chats = <<>> /\ msgs = <<>> /\ files = <<>>
  /\ used = [chat |-> 0, message |-> 0, file |-> 0]
  /\ line = <<>> /\ running = FALSE
  /\ searches = {} /\ summaries = {}
  /\ cuts = 0 /\ restarts = 0

-----------------------------------------------------------------------------
(* Sending *)

\* Mutants of NewId: without AUTOINCREMENT, the largest rowid there is, plus
\* one; a count of the rows, plus one.
NewId_Reused ==
  IF msgs = <<>> THEN 1 ELSE 1 + (CHOOSE m \in DOMAIN msgs : \A k \in DOMAIN msgs : k <= m)
NewId_Count == 1 + Cardinality(DOMAIN msgs)
\* AUTOINCREMENT: the id of a deleted row is not given out again.
NewId == used.message + 1

Message(c, role, text, parent, from) ==
  [chat |-> c, role |-> role, text |-> text, parent |-> parent,
   child |-> None, summary |-> {}, from |-> from]

\* m's parent, or for a first message its chat, points at m.
Inserted(m, row, linked) ==
  [k \in DOMAIN msgs \cup {m} |->
     IF k = m THEN row
     ELSE IF linked /\ k = row.parent THEN [msgs[k] EXCEPT !.child = m]
     ELSE msgs[k]]

\* A chat c that is new gets its row first; the message comes second and the
\* pointer to it third.
Persist(c, parent, linked) ==
  /\ chats' = [d \in DOMAIN chats \cup {c} |->
                 IF d = c /\ linked /\ parent = None THEN NewId
                 ELSE IF d \in DOMAIN chats THEN chats[d] ELSE None]
  /\ msgs' = Inserted(NewId, Message(c, "user", TRUE, parent, NoPrompt), linked)
  /\ used' = [used EXCEPT !.chat = IF c > @ THEN c ELSE @, !.message = NewId]

\* Its job: the message it answers, the history it is sent, and the version
\* its workspace saw.  (alone: no turn before it on its branch may still write.)
Turn(c, prompt, tools, view, alone) ==
  [kind |-> "reply", chat |-> c, message |-> NewId, prompt |-> prompt,
   tools |-> tools, view |-> view, alone |-> alone]

Room == Len(line) + Cardinality(searches) + Cardinality(summaries) < MaxInFlight
RoomForMessage == NewId <= MaxMessages
RoomForChat == used.chat < MaxChats

\* Where a new message of chat c hangs: below the branch on screen, or beside
\* the message it edits.
Places(c) ==
  Tips(c) \cup {msgs[m].parent : m \in {k \in Rows(c) : msgs[k].role = "user"}}

QuietOn(path) ==
  \A i \in 1..Len(line) : line[i].kind = "reply" => line[i].message \notin path

\* A send whose handler never waits; its model may write files.
Send(c, parent) ==
  LET prior == PathTo(parent, c)
  IN  /\ Room /\ RoomForMessage
      /\ Persist(c, parent, TRUE)
      /\ line' = Append(line, Turn(c, History(prior), TRUE, Newest(prior), QuietOn(prior)))
      /\ UNCHANGED <<files, running, searches, summaries, cuts, restarts>>

SendInChat == \E c \in DOMAIN chats : \E parent \in Places(c) : Send(c, parent)
SendNew == RoomForChat /\ Send(used.chat + 1, None)

\* The same send, but the process dies or the database fails before the
\* pointer moves: the rows that were written stay.  (After it, what is left is
\* what Send and Drop leave.)
SendCut ==
  /\ cuts < MaxCuts /\ cuts' = cuts + 1 /\ Room
  /\ \/ /\ RoomForMessage
        /\ \E c \in DOMAIN chats : \E parent \in Places(c) : Persist(c, parent, FALSE)
     \/ RoomForMessage /\ RoomForChat /\ Persist(used.chat + 1, None, FALSE)
     \/ /\ RoomForChat
        /\ used' = [used EXCEPT !.chat = @ + 1]
        /\ chats' = [d \in DOMAIN chats \cup {used'.chat} |->
                       IF d \in DOMAIN chats THEN chats[d] ELSE None]
        /\ UNCHANGED msgs
  /\ UNCHANGED <<files, line, running, searches, summaries, restarts>>

\* A model without tools has one search run for it, which takes its time.  The
\* place of the message and its history are settled before that.  (A first
\* message has neither, and waiting changes nothing for it.)
BeginSearch ==
  /\ Room /\ Cardinality(searches) < MaxSearches
  /\ \E c \in DOMAIN chats : \E parent \in Places(c) :
       searches' = searches \cup
         {[chat |-> c, parent |-> parent, prompt |-> History(PathTo(parent, c))]}
  /\ UNCHANGED <<chats, msgs, files, used, line, running, summaries, cuts, restarts>>

\* Mutant of Land: foreign keys are off.
Land_NoForeignKey(s) ==
  /\ RoomForMessage
  /\ searches' = searches \ {s}
  /\ Persist(s.chat, s.parent, TRUE)
  /\ line' = Append(line, Turn(s.chat, s.prompt, FALSE, None, FALSE))
  /\ UNCHANGED <<files, running, summaries, cuts, restarts>>

Land(s) ==
  /\ s.chat \in DOMAIN chats /\ RoomForMessage
  /\ searches' = searches \ {s}
  /\ Persist(s.chat, s.parent, TRUE)
  /\ line' = Append(line, Turn(s.chat, s.prompt, FALSE, None, FALSE))
  /\ UNCHANGED <<files, running, summaries, cuts, restarts>>

\* The chat went while the search ran: the foreign key refuses the message.
\* Or admission refuses the send.
Abandon(s) ==
  /\ searches' = searches \ {s}
  /\ UNCHANGED <<chats, msgs, files, used, line, running, summaries, cuts, restarts>>

EndSearch == \E s \in searches : Land(s) \/ Abandon(s)

-----------------------------------------------------------------------------
(* Turns *)

Start ==
  /\ line # <<>> /\ ~running
  /\ running' = TRUE
  /\ UNCHANGED <<chats, msgs, files, used, line, searches, summaries, cuts, restarts>>

\* Stop, Kill, a failure, or nothing written: the job leaves without a reply.
Drop ==
  \E i \in 1..Len(line) :
    /\ line' = RemoveAt(line, i)
    /\ running' = (running /\ i # 1)
    /\ UNCHANGED <<chats, msgs, files, used, searches, summaries, cuts, restarts>>

\* Mutant of Wrote: the turn does not see its own write.
Wrote_NotSeen(v) == line

\* The turn's own view of the file.
Wrote(v) == [line EXCEPT ![1].view = v]

\* A running turn writes its file: a new version, tied to the message it
\* answers.  When that message went with its chat, the foreign key refuses.
WriteFile ==
  /\ running /\ line[1].kind = "reply" /\ line[1].tools
  /\ line[1].message \in DOMAIN msgs
  /\ used.file < MaxVersions
  /\ LET v == used.file + 1
         m == line[1].message
     IN  /\ used' = [used EXCEPT !.file = v]
         /\ files' = [w \in DOMAIN files \cup {v} |->
                        IF w = v THEN [chat |-> msgs[m].chat, message |-> m] ELSE files[w]]
         /\ line' = Wrote(v)
  /\ UNCHANGED <<chats, msgs, running, searches, summaries, cuts, restarts>>

\* _persist_assistant_message.  The newest child of the question is the reply
\* just stored, so that is the one it shows; unless the job is cut between.
Reply(text, linked) ==
  /\ running /\ line[1].kind = "reply" /\ line[1].chat # None
  /\ RoomForMessage
  /\ msgs' = Inserted(NewId, Message(line[1].chat, "assistant", text, line[1].message,
                                     line[1].prompt), linked)
  /\ used' = [used EXCEPT !.message = NewId]
  /\ line' = Tail(line) /\ running' = FALSE
  /\ UNCHANGED <<chats, files, searches, summaries, restarts>>

\* With an answer, or with reasoning only.
Answer == \E text \in BOOLEAN : Reply(text, TRUE) /\ UNCHANGED cuts
AnswerCut ==
  /\ cuts < MaxCuts /\ cuts' = cuts + 1
  /\ \E text \in BOOLEAN : Reply(text, FALSE)

-----------------------------------------------------------------------------
(* Versions, compaction, deletion *)

Switch ==
  \E c \in DOMAIN chats : \E m \in Rows(c) :
    /\ IF msgs[m].parent = None
       THEN chats' = [chats EXCEPT ![c] = m] /\ UNCHANGED msgs
       ELSE msgs' = [msgs EXCEPT ![msgs[m].parent].child = m] /\ UNCHANGED chats
    /\ UNCHANGED <<files, used, line, running, searches, summaries, cuts, restarts>>

\* All but the last KeepRecent of the messages still sent verbatim.
ToCompact(path) ==
  LET rows == AfterSummary(path)
  IN  {m \in rows : Cardinality({k \in rows : k > m}) >= KeepRecent}

\* The transcript the summary is written from, the earlier summary included.
Transcript(path) == Told(path) \cup ToCompact(path)

Compact ==
  /\ Room
  /\ \E c \in DOMAIN chats :
       LET path == ActivePath(c)
       IN  /\ Cardinality(ToCompact(path)) >= 2
           /\ \E b \in ToCompact(path) :
                /\ \A m \in ToCompact(path) : m <= b
                /\ line' = Append(line, [kind |-> "compaction", boundary |-> b,
                                         of |-> Transcript(path)])
  /\ UNCHANGED <<chats, msgs, files, used, running, searches, summaries, cuts, restarts>>

\* The job is done; its handler, which waited for _done, runs later.
Summarise ==
  /\ running /\ line[1].kind = "compaction"
  /\ summaries' = summaries \cup {[boundary |-> line[1].boundary, of |-> line[1].of]}
  /\ line' = Tail(line) /\ running' = FALSE
  /\ UNCHANGED <<chats, msgs, files, used, searches, cuts, restarts>>

\* An UPDATE of a row that is gone changes nothing.
StoreSummary ==
  \E s \in summaries :
    /\ summaries' = summaries \ {s}
    /\ msgs' = [m \in DOMAIN msgs |->
                  IF m = s.boundary THEN [msgs[m] EXCEPT !.summary = s.of] ELSE msgs[m]]
    /\ UNCHANGED <<chats, files, used, line, running, searches, cuts, restarts>>

Of(c, t) == t.kind = "reply" /\ t.chat = c

\* drop_conversation: the chat's queued jobs go; the running one is cut loose.
Loose(c, t) == IF Of(c, t) THEN [t EXCEPT !.chat = None] ELSE t

Kept(c) == {i \in 1..Len(line) : (running /\ i = 1) \/ ~Of(c, line[i])}

CutLoose(c) ==
  LET left == Cardinality(Kept(c))
  IN  \E at \in [1..left -> Kept(c)] :
        /\ \A i, j \in 1..left : i < j => at[i] < at[j]
        /\ line' = [i \in 1..left |-> Loose(c, line[at[i]])]

Delete ==
  \E c \in DOMAIN chats :
    /\ CutLoose(c)
    /\ chats' = [d \in DOMAIN chats \ {c} |-> chats[d]]
    /\ msgs' = [m \in DOMAIN msgs \ Rows(c) |-> msgs[m]]
    /\ files' = [v \in {w \in DOMAIN files : files[w].chat # c} |-> files[v]]
    /\ UNCHANGED <<used, running, searches, summaries, cuts, restarts>>

\* The transaction of threads.delete fails as a whole: the jobs are gone, the
\* chat is not.
DeleteCut ==
  /\ cuts < MaxCuts /\ cuts' = cuts + 1
  /\ \E c \in DOMAIN chats : CutLoose(c)
  /\ UNCHANGED <<chats, msgs, files, used, running, searches, summaries, restarts>>

-----------------------------------------------------------------------------
(* Restart *)

\* The largest or the smallest of S by id, None when S is empty.
LastId(S) == IF S = {} THEN None ELSE CHOOSE m \in S : \A k \in S : k <= m
FirstId(S) == IF S = {} THEN None ELSE CHOOSE m \in S : \A k \in S : m <= k

\* Mutant of Untreed: the migration takes every chat.
Untreed_All == DOMAIN chats

\* _TREE_MIGRATION takes a chat without an active root for one of the days
\* before trees, and makes its messages one line.
Untreed == {c \in DOMAIN chats : chats[c] = None}

Migrated(m) ==
  LET c == msgs[m].chat
  IN  IF c \notin Untreed THEN msgs[m]
      ELSE [msgs[m] EXCEPT !.parent = LastId({k \in Rows(c) : k < m}),
                           !.child = FirstId({k \in Rows(c) : k > m})]

Restart ==
  /\ restarts < MaxRestarts /\ restarts' = restarts + 1
  /\ chats' = [c \in DOMAIN chats |-> IF c \in Untreed THEN FirstId(Rows(c)) ELSE chats[c]]
  /\ msgs' = [m \in DOMAIN msgs |-> Migrated(m)]
  /\ line' = <<>> /\ running' = FALSE /\ searches' = {} /\ summaries' = {}
  /\ UNCHANGED <<files, used, cuts>>

Next ==
  \/ SendInChat \/ SendNew \/ SendCut \/ BeginSearch \/ EndSearch
  \/ Start \/ Drop \/ WriteFile \/ Answer \/ AnswerCut
  \/ Switch \/ Compact \/ Summarise \/ StoreSummary \/ Delete \/ DeleteCut
  \/ Restart

Spec == Init /\ [][Next]_vars
-----------------------------------------------------------------------------
(* Properties *)

PromptType == [told : SUBSET Nat, verbatim : SUBSET Nat]
MessageType ==
  [chat : Nat, role : {"user", "assistant"}, text : BOOLEAN, parent : Nat,
   child : Nat, summary : SUBSET Nat, from : PromptType]
TurnType ==
  [kind : {"reply"}, chat : Nat, message : Nat, prompt : PromptType,
   tools : BOOLEAN, view : Nat, alone : BOOLEAN]
    \cup [kind : {"compaction"}, boundary : Nat, of : SUBSET Nat]

\* Every column has its type, and ids are given out in order (schema.sql).
TypeOK ==
  /\ DOMAIN chats \subseteq 1..used.chat /\ \A c \in DOMAIN chats : chats[c] \in Nat
  /\ DOMAIN msgs \subseteq 1..used.message /\ \A m \in DOMAIN msgs : msgs[m] \in MessageType
  /\ DOMAIN files \subseteq 1..used.file
  /\ \A v \in DOMAIN files : files[v] \in [chat : Nat, message : Nat]
  /\ used \in [chat : Nat, message : Nat, file : Nat]
  /\ line \in Seq(TurnType) /\ running \in BOOLEAN
  /\ searches \subseteq [chat : Nat, parent : Nat, prompt : PromptType]
  /\ summaries \subseteq [boundary : Nat, of : SUBSET Nat]
  /\ cuts \in Nat /\ restarts \in Nat

\* Every message belongs to a chat that exists; its parent is an older message
\* of that chat, and what it shows below itself is a child of its own; a chat
\* shows one of its first messages (threads.py:4-9, 20-22).
TreeWellFormed ==
  /\ \A m \in DOMAIN msgs :
       /\ msgs[m].chat \in DOMAIN chats
       /\ msgs[m].parent # None => msgs[m].parent \in Rows(msgs[m].chat) /\ msgs[m].parent < m
       /\ msgs[m].child # None => /\ msgs[m].child \in Rows(msgs[m].chat)
                                  /\ msgs[msgs[m].child].parent = m
  /\ \A c \in DOMAIN chats :
       chats[c] # None => chats[c] \in Rows(c) /\ msgs[chats[c]].parent = None

\* The path on screen never stops above a message that has replies, however
\* branches are forked, switched and answered out of order; a handler cut
\* short costs one such place at most (app.py:1110-1117, queue.py:982-989).
DeadEnds ==
  {m \in DOMAIN msgs : msgs[m].child = None /\ \E k \in DOMAIN msgs : msgs[k].parent = m}
DeadChats == {c \in DOMAIN chats : chats[c] = None /\ Rows(c) # {}}
PathsReachLeaves == Cardinality(DeadEnds) + Cardinality(DeadChats) <= cuts

\* A summary stands for exactly the message it lies on and everything above
\* it, also when it was asked for long before and the branch has been forked,
\* compacted again, or deleted meanwhile (threads.py:14-17).
SummaryCoversPrefix ==
  \A m \in DOMAIN msgs :
    msgs[m].summary # {} => msgs[m].summary = PathTo(m, msgs[m].chat)

\* A reply is written from its own branch and nothing else: every message with
\* a text above the question it answers, once, first those a summary stands
\* for, and none of another branch (threads.py:11-12, 88-106).
WrittenFrom(prompt, question) ==
  LET above == PathTo(msgs[question].parent, msgs[question].chat)
  IN  /\ prompt.told \cup prompt.verbatim \subseteq above
      /\ {m \in above : msgs[m].text} \subseteq prompt.told \cup prompt.verbatim
      /\ \A i \in prompt.told, j \in prompt.verbatim : i < j

PromptMatchesPath ==
  /\ \A r \in DOMAIN msgs :
       msgs[r].role = "assistant" => WrittenFrom(msgs[r].from, msgs[r].parent)
  /\ \A i \in 1..Len(line) :
       line[i].kind = "reply" /\ line[i].message \in DOMAIN msgs =>
         WrittenFrom(line[i].prompt, line[i].message)

\* What the model is told is the branch: through its summaries and past them.
PromptIsThePath == SummaryCoversPrefix /\ PromptMatchesPath

\* What a branch shows and what the model is told of it are the whole branch.
BranchesAreWhole == PathsReachLeaves /\ PromptIsThePath

\* A job that would store a reply stores it in a chat that exists: the insert
\* in _finalize is never refused (queue.py:334-343, app.py:488-490).
RepliesHaveChats ==
  \A i \in 1..Len(line) :
    line[i].kind = "reply" /\ line[i].chat # None =>
      line[i].chat \in DOMAIN chats /\ line[i].message \in Rows(line[i].chat)

\* Chats are trees, and what is still to be stored has its place in one.
ChatsAreTrees == TreeWellFormed /\ RepliesHaveChats

\* A turn that was sent when its branch was quiet sees the newest version of
\* the file on that branch, its own writes included, as long as its chat
\* lives, whatever other branches write meanwhile (workspace.py:6-10).
QuietTurnSeesNewest ==
  \A i \in 1..Len(line) :
    line[i].kind = "reply" /\ line[i].tools /\ line[i].alone
      /\ line[i].message \in DOMAIN msgs
    => line[i].view = Newest(PathTo(line[i].message, msgs[line[i].message].chat))

\* Nothing is overwritten while its chat lives: an edit, a switch, a
\* compaction and a restart keep every message, its words, its place in the
\* tree and every version of a file (threads.py:4-7, workspace.py:4-11).
BranchesAreKept ==
  [][/\ \A m \in DOMAIN msgs : msgs[m].chat \in DOMAIN chats' =>
          /\ m \in DOMAIN msgs'
          /\ \A col \in {"chat", "role", "text", "parent", "from"} :
               msgs'[m][col] = msgs[m][col]
     /\ \A v \in DOMAIN files : files[v].chat \in DOMAIN chats' =>
          v \in DOMAIN files' /\ files'[v] = files[v]]_vars
=============================================================================

------------------------------- MODULE Library -------------------------------
(***************************************************************************)
(* What a person keeps on the box: uploads (a row and one or two files on   *)
(* disk), the chats whose messages refer to them, courses with their        *)
(* materials, and the practice problems a tutor writes.  app.py (uploads,   *)
(* chat), documents.py, uploads.py, study.py, threads.py and practice.py.   *)
(*                                                                          *)
(* One user: every statement is scoped to the caller's rows.  A chat is     *)
(* what its messages refer to; their tree is ConversationTree's.  Statements *)
(* between two awaits that suspend are one action, except that a process    *)
(* may die, or a statement fail, between two of them.                       *)
(***************************************************************************)
EXTENDS Integers, Sequences, FiniteSets

CONSTANTS
  Uploads,      \* ids of uploads
  Chats, Courses,
  Problems,     \* ids of practice problems
  None,         \* NULL
  MaxDocs,      \* documents.MAX_DOCS_PER_MESSAGE
  MaxMaterials, \* study.MAX_MATERIALS
  MaxPerSet,    \* practice.MAX_PER_SET
  MaxTries,     \* bound: attempts at a problem
  MaxTroubles   \* bound: steps cut short and processes that died

ASSUME LibraryAssumption ==
  /\ None \notin Chats /\ "gone" \notin Chats
  /\ {"new", "plain", "gone"} \cap Courses = {}
  /\ MaxDocs \in Nat /\ MaxMaterials \in Nat /\ MaxPerSet \in Nat
  /\ MaxTries \in Nat /\ MaxTroubles \in Nat

VARIABLES
  rows,        \* table uploads: "new" (no such id yet), a kind, or "gone"
  disk,        \* the files under UPLOAD_DIR: <<upload, "file">>, <<upload, "text">>, <<upload, "incoming">>
  reading,     \* documents whose text is being extracted
  chats,       \* table conversations: "new", "plain", the course, or "gone"
  images, docs, figures, \* by chat: the uploads its messages refer to
  cards,       \* by chat: the problems its replies show
  courses,     \* table courses: "new", "live", "gone"
  materials,   \* table course_materials
  search,      \* a send that waits for its web search, or None
  turn,        \* the turn that runs, or None
  problems,    \* table practice_problems; chat "gone" once deleted
  attempts,    \* table practice_attempts: by problem, the outcomes in order
  seen,        \* history: the problems whose key left the server
  drawnIn,     \* history: the chat whose turn drew a picture
  shared,      \* history: uploads of messages of two chats, or gone when their message came
  cuts, restarts

diskVars   == <<rows, disk, reading>>
chatVars   == <<chats, images, docs, figures, cards>>
courseVars == <<courses, materials>>
turnVars   == <<search, turn>>
setVars    == <<problems, attempts, seen>>
history    == <<drawnIn, shared>>
faultVars  == <<cuts, restarts>>
vars == <<diskVars, chatVars, courseVars, turnVars, setVars, history, faultVars>>

NoProblem == [chat |-> None, n |-> 0, kind |-> None]
DeletedProblem == [NoProblem EXCEPT !.chat = "gone"]

Init ==
  /\ rows = [u \in Uploads |-> "new"] /\ disk = {} /\ reading = {}
  /\ chats = [c \in Chats |-> "new"]
  /\ images = [c \in Chats |-> {}] /\ docs = [c \in Chats |-> {}]
  /\ figures = [c \in Chats |-> {}] /\ cards = [c \in Chats |-> {}]
  /\ courses = [k \in Courses |-> "new"] /\ materials = {}
  /\ search = None /\ turn = None
  /\ problems = [p \in Problems |-> NoProblem]
  /\ attempts = [p \in Problems |-> <<>>] /\ seen = {}
  /\ drawnIn = [u \in Uploads |-> None] /\ shared = {}
  /\ cuts = 0 /\ restarts = 0

Kinds == {"image", "document"}
Stored == {u \in Uploads : rows[u] \in Kinds}
Live == {c \in Chats : chats[c] \notin {"new", "gone"}}
Trouble == cuts + restarts < MaxTroubles
Cut == Trouble /\ cuts' = cuts + 1

\* The files behind a row.
FilesOf(us) == us \X {"file", "text"}

-----------------------------------------------------------------------------
(* Uploading *)

\* The INSERT after a save.  Not `whole': the process dies or the database fails
\* before the row is written.
Inserted(u, kind, whole) == rows' = [rows EXCEPT ![u] = IF whole THEN kind ELSE "gone"]

\* uploads.save, for a picture.
Saved(u, whole) ==
  /\ disk' = disk \cup {<<u, "file">>}
  /\ Inserted(u, "image", whole)

\* documents.save: the original and its text, in place of the parked bytes.
SavedDocument(u, whole) ==
  /\ disk' = (disk \ {<<u, "incoming">>}) \cup FilesOf({u})
  /\ Inserted(u, "document", whole)

UploadImage(u) ==
  /\ rows[u] = "new" /\ u \notin reading
  /\ \/ Saved(u, TRUE) /\ UNCHANGED cuts
     \/ Saved(u, FALSE) /\ Cut
  /\ UNCHANGED <<reading, chatVars, courseVars, turnVars, setVars, history, restarts>>

\* _upload_document parks the bytes and asks the extractor, a child process.
UploadDocument(u) ==
  /\ rows[u] = "new" /\ u \notin reading
  /\ reading' = reading \cup {u}
  /\ disk' = disk \cup {<<u, "incoming">>}
  /\ UNCHANGED <<rows, chatVars, courseVars, turnVars, setVars, history, faultVars>>

\* The text is there: the parked bytes go, the original and its text are saved.
Extracted(u) ==
  /\ u \in reading
  /\ reading' = reading \ {u}
  /\ \E whole \in BOOLEAN :
       /\ SavedDocument(u, whole)
       /\ IF whole THEN UNCHANGED cuts ELSE Cut
  /\ UNCHANGED <<chatVars, courseVars, turnVars, setVars, history, restarts>>

\* Too long, a scan, no text, the extractor died: refused, and nothing is kept.
Rejected(u) ==
  /\ u \in reading
  /\ reading' = reading \ {u}
  /\ disk' = disk \ {<<u, "incoming">>}
  /\ rows' = [rows EXCEPT ![u] = "gone"]
  /\ UNCHANGED <<chatVars, courseVars, turnVars, setVars, history, faultVars>>

-----------------------------------------------------------------------------
(* Sending *)

\* What a message may carry: one photo, and documents that are all there.
Photos == {p \in SUBSET {u \in Stored : rows[u] = "image" /\ drawnIn[u] = None} : Cardinality(p) <= 1}
Documents == {d \in SUBSET {u \in Stored : rows[u] = "document"} : Cardinality(d) <= MaxDocs}

UsedIn(c) == images[c] \cup docs[c] \cup figures[c]

\* A message is stored in chat c: its photo must have its row (a foreign key), its
\* documents are JSON.
Message(c, photo, ds) ==
  /\ images' = [images EXCEPT ![c] = @ \cup photo]
  /\ docs' = [docs EXCEPT ![c] = @ \cup ds]
  /\ shared' = shared \cup ((photo \cup ds) \cap UNION {UsedIn(d) : d \in Live \ {c}})
                        \cup (ds \ Stored)

\* A send that does not wait: any turn with tools, so every course's.
Send(c, where, photo, ds) ==
  /\ chats[c] \in {"new", where}
  /\ where \in Courses => courses[where] = "live"
  /\ chats' = [chats EXCEPT ![c] = where]
  /\ Message(c, photo, ds)
  /\ UNCHANGED <<diskVars, figures, cards, courseVars, search, turn, setVars, drawnIn, faultVars>>

\* A send of a plain model waits for its web search, its attachments checked; to
\* None when it starts a chat.
BeginSearch(c, photo, ds) ==
  /\ search = None
  /\ c \in Chats => chats[c] = "plain"
  /\ search' = [chat |-> c, photo |-> photo, docs |-> ds]
  /\ UNCHANGED <<diskVars, chatVars, courseVars, turn, setVars, history, faultVars>>

\* The search is over.  The chat or the photo may be gone by now: then the INSERT
\* fails, and a new chat was made for nothing.  Documents are not looked at again.
EndSearch(c) ==
  /\ search # None /\ search' = None
  /\ IF search.chat = None THEN chats[c] = "new" ELSE c = search.chat
  /\ chats' = IF search.chat = None THEN [chats EXCEPT ![c] = "plain"] ELSE chats
  /\ IF search.photo \subseteq Stored /\ chats'[c] # "gone"
       THEN Message(c, search.photo, search.docs)
       ELSE UNCHANGED <<images, docs, shared>>
  /\ UNCHANGED <<diskVars, figures, cards, courseVars, turn, setVars, drawnIn, faultVars>>

-----------------------------------------------------------------------------
(* A turn *)

\* The turn of a message of chat c, sent then or just now (a turn that waits in the
\* line changes nothing here, and goes with its chat).
StartTurn(c) ==
  /\ turn = None /\ c \in Live
  /\ turn' = [chat |-> c, home |-> c, studies |-> chats[c] # "plain", drawn |-> {}, added |-> {}]
  /\ UNCHANGED <<diskVars, chatVars, courseVars, search, setVars, history, faultVars>>

\* run_python made a picture (save_figure).
Draw(u) ==
  /\ turn # None /\ rows[u] = "new" /\ u \notin reading
  /\ \/ /\ Saved(u, TRUE) /\ UNCHANGED cuts
        /\ turn' = [turn EXCEPT !.drawn = @ \cup {u}]
     \/ Saved(u, FALSE) /\ Cut /\ UNCHANGED turn
  /\ drawnIn' = [drawnIn EXCEPT ![u] = turn.home]
  /\ UNCHANGED <<reading, chatVars, courseVars, search, setVars, shared, restarts>>

\* add_problem, once its key was checked: save_problem writes the chat the job
\* belongs to now (NOT NULL: a turn cut loose cannot add any).
AddProblem(p, kind) ==
  /\ turn # None /\ turn.studies /\ turn.chat # None
  /\ problems[p] = NoProblem
  /\ Cardinality(turn.added) < MaxPerSet
  /\ problems' = [problems EXCEPT ![p] =
                    [chat |-> turn.chat, n |-> Cardinality(turn.added) + 1, kind |-> kind]]
  /\ turn' = [turn EXCEPT !.added = @ \cup {p}]
  /\ UNCHANGED <<diskVars, chatVars, courseVars, search, attempts, seen, history, faultVars>>

\* The turn is done: its reply, with its pictures and its cards, is stored, unless
\* it was cut loose.
Reply ==
  /\ turn # None
  /\ turn' = None
  /\ IF turn.chat # None
       THEN /\ figures' = [figures EXCEPT ![turn.chat] = @ \cup turn.drawn]
            /\ cards' = [cards EXCEPT ![turn.chat] = @ \cup turn.added]
       ELSE UNCHANGED <<figures, cards>>
  /\ UNCHANGED <<diskVars, chats, images, docs, courseVars, search, setVars, history, faultVars>>

\* The turn was stopped or failed: no reply is stored.
NoReply ==
  /\ turn # None
  /\ turn' = None
  /\ UNCHANGED <<diskVars, chatVars, courseVars, search, setVars, history, faultVars>>

-----------------------------------------------------------------------------
(* Deleting *)

Materials == {u \in Uploads : \E k \in Courses : <<k, u>> \in materials}

\* What threads.delete takes along: the uploads its messages refer to, except what
\* is a course's.
Owned(c) == (UsedIn(c) \cap Stored) \ Materials

\* Mutant of Dropped: the files go before the rows.
Dropped_FilesFirst(us, removed) ==
  /\ disk' = disk \ FilesOf(us)
  /\ rows' = [u \in Uploads |-> IF u \in removed THEN "gone" ELSE rows[u]]

\* Rows go in a transaction, then the files behind them (remove_files), as many as
\* can be removed before the process dies.
Dropped(us, removed) ==
  /\ rows' = [u \in Uploads |-> IF u \in us THEN "gone" ELSE rows[u]]
  /\ disk' = disk \ FilesOf(removed)

\* Mutant of Loose: the running turn keeps the chat it belongs to.
Loose_Kept(cs) == turn

\* drop_conversation: the running turn of a deleted chat belongs to none.
Loose(cs) == IF turn # None /\ turn.chat \in cs THEN [turn EXCEPT !.chat = None] ELSE turn

In(cs) == {p \in Problems : problems[p].chat \in cs}

\* The rows of chats cs and all that hangs on them.
Forget(cs) ==
  /\ chats' = [c \in Chats |-> IF c \in cs THEN "gone" ELSE chats[c]]
  /\ images' = [c \in Chats |-> IF c \in cs THEN {} ELSE images[c]]
  /\ docs' = [c \in Chats |-> IF c \in cs THEN {} ELSE docs[c]]
  /\ figures' = [c \in Chats |-> IF c \in cs THEN {} ELSE figures[c]]
  /\ cards' = [c \in Chats |-> IF c \in cs THEN {} ELSE cards[c]]
  /\ problems' = [p \in Problems |-> IF p \in In(cs) THEN DeletedProblem ELSE problems[p]]
  /\ attempts' = [p \in Problems |-> IF p \in In(cs) THEN <<>> ELSE attempts[p]]
  /\ seen' = seen \ In(cs)

\* Another chat's message points at a photo that would go: the foreign key refuses
\* the whole transaction.
Refused(c) == \E d \in Live \ {c} : images[d] \cap Owned(c) # {}

\* delete_conversation: drop_conversation, then threads.delete.
DeleteChat(c) ==
  /\ c \in Live
  /\ turn' = Loose({c})
  /\ IF Refused(c)
       THEN UNCHANGED <<rows, disk, chatVars, setVars, cuts>>
       ELSE /\ Forget({c})
            /\ \/ Dropped(Owned(c), Owned(c)) /\ UNCHANGED cuts
               \/ Dropped(Owned(c), {}) /\ Owned(c) # {} /\ Cut
  /\ UNCHANGED <<reading, courseVars, search, history, restarts>>

-----------------------------------------------------------------------------
(* Courses *)

CreateCourse(k) ==
  /\ courses[k] = "new" /\ courses' = [courses EXCEPT ![k] = "live"]
  /\ UNCHANGED <<diskVars, chatVars, materials, turnVars, setVars, history, faultVars>>

MaterialsOf(k) == {u \in Uploads : <<k, u>> \in materials}

\* Mutant of RoomFor: one too many.
RoomFor_OneMore(k) == Cardinality(MaterialsOf(k)) <= MaxMaterials

RoomFor(k) == Cardinality(MaterialsOf(k)) < MaxMaterials

AddMaterial(k, u) ==
  /\ courses[k] = "live" /\ rows[u] = "document"
  /\ u \notin MaterialsOf(k) /\ RoomFor(k)
  /\ materials' = materials \cup {<<k, u>>}
  /\ UNCHANGED <<diskVars, chatVars, courses, turnVars, setVars, history, faultVars>>

\* Mutant of Unused: what messages refer to is not looked at.
Unused_ByCourses(us, ms, cs) == {u \in us \cap Stored : \A k \in Courses : <<k, u>> \notin ms}

\* _drop_unused_uploads: of us, what no course (with materials ms left) and no
\* message (chats cs are gone) uses.
Unused(us, ms, cs) ==
  {u \in us \cap Stored : /\ \A k \in Courses : <<k, u>> \notin ms
                          /\ \A c \in Live \ cs : u \notin docs[c]}

\* Its two statements, and the uploads it may take along.
RemoveMaterial(k, u) ==
  /\ courses[k] = "live" /\ u \in MaterialsOf(k)
  /\ materials' = materials \ {<<k, u>>}
  /\ LET us == Unused({u}, materials', {}) IN
       \/ Dropped(us, us) /\ UNCHANGED cuts
       \/ (Dropped(us, {}) \/ Dropped({}, {})) /\ us # {} /\ Cut
  /\ UNCHANGED <<reading, chatVars, courses, turnVars, setVars, history, restarts>>

\* delete_course: its sessions one by one, then the course, then what only it used.
\* One that is cut after some sessions has done what DeleteChat does to each.
DeleteCourse(k) ==
  LET cs == {c \in Live : chats[c] = k}
      theirs == UNION {Owned(c) : c \in cs}
      left == {m \in materials : m[1] # k}
      free == Unused(MaterialsOf(k), left, cs)
  IN
  /\ courses[k] = "live"
  /\ \A c \in cs : ~Refused(c)
  /\ courses' = [courses EXCEPT ![k] = "gone"]
  /\ materials' = left
  /\ turn' = Loose(cs)
  /\ Forget(cs)
  /\ \/ Dropped(theirs \cup free, theirs \cup free) /\ UNCHANGED cuts
     \/ (Dropped(theirs \cup free, theirs) \/ Dropped(theirs, theirs)) /\ free # {} /\ Cut
  /\ UNCHANGED <<reading, search, history, restarts>>

-----------------------------------------------------------------------------
(* Practice *)

DoneWith == {"right", "revealed", "self_right", "self_wrong"}

\* _public: the key comes with the problem once the student is done with it.
Shown(outcomes) == \E i \in 1..Len(outcomes) : outcomes[i] \in DoneWith

Record(p, outcome) ==
  /\ Len(attempts[p]) < MaxTries
  /\ attempts' = [attempts EXCEPT ![p] = Append(@, outcome)]
  /\ seen' = IF Shown(attempts'[p]) THEN seen \cup {p} ELSE seen

IsProblem(p) == problems[p].chat \in Chats

\* /answer: a number or a choice is graded; who answers in words is shown the model
\* answer and marks themselves.
AnswerProblem(p) ==
  /\ IsProblem(p)
  /\ IF problems[p].kind = "graded"
       THEN \E outcome \in {"right", "wrong"} : Record(p, outcome)
       ELSE seen' = seen \cup {p} /\ UNCHANGED attempts
  /\ UNCHANGED <<diskVars, chatVars, courseVars, turnVars, problems, history, faultVars>>

MarkProblem(p) ==
  /\ IsProblem(p) /\ problems[p].kind = "short"
  /\ \E outcome \in {"self_right", "self_wrong"} : Record(p, outcome)
  /\ UNCHANGED <<diskVars, chatVars, courseVars, turnVars, problems, history, faultVars>>

RevealProblem(p) ==
  /\ IsProblem(p) /\ Record(p, "revealed")
  /\ UNCHANGED <<diskVars, chatVars, courseVars, turnVars, problems, history, faultVars>>

-----------------------------------------------------------------------------
\* The process dies and another starts: what was under way is forgotten, what is on
\* disk stays.
Restart ==
  /\ Trouble /\ restarts' = restarts + 1
  /\ rows' = [u \in Uploads |-> IF u \in reading THEN "gone" ELSE rows[u]]
  /\ reading' = {} /\ search' = None /\ turn' = None
  /\ UNCHANGED <<disk, chatVars, courseVars, setVars, history, cuts>>

Next ==
  \/ \E u \in Uploads : UploadImage(u) \/ UploadDocument(u) \/ Extracted(u) \/ Rejected(u) \/ Draw(u)
  \/ \E photo \in Photos, ds \in Documents :
       \/ \E c \in Chats, where \in {"plain"} \cup Courses : Send(c, where, photo, ds)
       \/ \E c \in Chats \cup {None} : BeginSearch(c, photo, ds)
  \/ \E c \in Chats : EndSearch(c) \/ StartTurn(c) \/ DeleteChat(c)
  \/ \E p \in Problems, kind \in {"graded", "short"} : AddProblem(p, kind)
  \/ Reply \/ NoReply
  \/ \E k \in Courses : CreateCourse(k) \/ DeleteCourse(k)
  \/ \E k \in Courses, u \in Uploads : AddMaterial(k, u) \/ RemoveMaterial(k, u)
  \/ \E p \in Problems : AnswerProblem(p) \/ MarkProblem(p) \/ RevealProblem(p)
  \/ Restart

Spec == Init /\ [][Next]_vars

-----------------------------------------------------------------------------
(* Properties *)

\* Every variable keeps its type, and a course no more materials than it may have.
TypeOK ==
  /\ rows \in [Uploads -> Kinds \cup {"new", "gone"}]
  /\ disk \subseteq Uploads \X {"file", "text", "incoming"}
  /\ reading \subseteq Uploads
  /\ chats \in [Chats -> {"new", "plain", "gone"} \cup Courses]
  /\ images \in [Chats -> SUBSET Uploads] /\ docs \in [Chats -> SUBSET Uploads]
  /\ figures \in [Chats -> SUBSET Uploads] /\ cards \in [Chats -> SUBSET Problems]
  /\ courses \in [Courses -> {"new", "live", "gone"}]
  /\ materials \subseteq Courses \X Uploads
  /\ \A k \in Courses : Cardinality(MaterialsOf(k)) <= MaxMaterials
  /\ search = None \/ search \in [chat : Chats \cup {None}, photo : SUBSET Uploads,
                                   docs : SUBSET Uploads]
  /\ turn = None \/ turn \in [chat : Chats \cup {None}, home : Chats, studies : BOOLEAN,
                               drawn : SUBSET Uploads, added : SUBSET Problems]
  /\ problems \in [Problems -> [chat : Chats \cup {None, "gone"}, n : Nat,
                                kind : {None, "graded", "short"}]]
  /\ attempts \in [Problems -> Seq(DoneWith \cup {"wrong"})] /\ seen \subseteq Problems
  /\ drawnIn \in [Uploads -> Chats \cup {None}] /\ shared \subseteq Uploads
  /\ cuts \in Nat /\ restarts \in Nat

\* A row's files are there, whatever was cut short: files are written before their
\* row and removed after it.  A file without a row is what a step cut short left
\* behind, or what an extraction that runs has parked.
FilesMatchRows ==
  /\ \A u \in Stored : /\ <<u, "file">> \in disk
                       /\ rows[u] = "document" => <<u, "text">> \in disk
  /\ \A f \in disk : IF f[2] = "incoming" THEN f[1] \in reading \/ restarts > 0
                     ELSE f[1] \in Stored \/ cuts > 0

\* Deleting chats, courses and materials takes nothing along that a course or another
\* chat still uses, except a document that two chats were given, or one that was
\* deleted while its message waited for a web search: those a message may lose.
NothingInUseIsDeleted ==
  /\ Materials \subseteq Stored
  /\ \A c \in Live : /\ images[c] \cup figures[c] \subseteq Stored
                     /\ docs[c] \subseteq Stored \cup shared

\* Every problem belongs to a session that is there, and every card to a problem of
\* its session; a turn numbers its problems from one, without a gap.
ProblemsHaveChats ==
  /\ \A p \in Problems : IsProblem(p) => chats[problems[p].chat] \in Courses
  /\ \A c \in Chats : \A p \in cards[c] : problems[p].chat = c
  /\ turn # None /\ turn.chat # None =>
       {problems[p].n : p \in turn.added} = 1..Cardinality(turn.added)

\* "Its key stays on the server until they get it right or ask to see it": a first
\* try is counted only as what it was.
KeyStaysHidden ==
  \A p \in seen : problems[p].kind = "graded" => Shown(attempts[p])

\* Practice problems, their cards and their keys agree with the sessions they are of.
PracticeIsSound == ProblemsHaveChats /\ KeyStaysHidden

\* Violated.  threads.delete: pictures run_python drew "belong only to its messages: their
\* rows go and their files on disk, so a deleted chat leaves no orphans".
DeletedChatsLeaveNoPictures ==
  \A u \in Stored : drawnIn[u] # None /\ chats[drawnIn[u]] = "gone" =>
    turn # None /\ u \in turn.drawn
=============================================================================

----------------------- MODULE ConversationTreeProofs -----------------------
(***************************************************************************)
(* What ConversationTree promises, for any number of chats, messages,      *)
(* jobs, file versions, handlers cut short and restarts:                   *)
(*                                                                         *)
(*   Sound       a chat stays a tree, and a reply that comes back finds    *)
(*               its chat: a reply keeps the tree well formed because its  *)
(*               question is there, and a chat that goes takes its jobs    *)
(*               with it;                                                  *)
(*   Whole       what a prompt tells and a summary stands for is one       *)
(*               branch: the least set of rows that has a message and      *)
(*               every parent it meets, which a step can only leave alone; *)
(*   Fresh       a turn that was alone on its branch sees the newest       *)
(*               version of the file, because nobody else writes there;    *)
(*   FewAreBare  a message is in a chat that shows none only if a handler  *)
(*               was cut short, so the migration has nothing to move.      *)
(***************************************************************************)
EXTENDS ConversationTree, FiniteSetTheorems, SequenceTheorems,
        WellFoundedInduction, TLAPS

\* The place a waiting send has chosen is in its chat, while that lasts; the
\* chat's id is not given to another.
SearchesHavePlaces ==
  \A s \in searches :
    /\ s.chat <= used.chat
    /\ s.chat \in DOMAIN chats => s.parent = None \/ s.parent \in Rows(s.chat)

\* The turn that runs is in the line.
RunnerIsFirst == running => line # <<>>

Sound ==
  TypeOK /\ TreeWellFormed /\ RepliesHaveChats /\ SearchesHavePlaces /\ RunnerIsFirst

-----------------------------------------------------------------------------
(* Sets of ids *)

\* A set of natural numbers has a least element.
LEMMA Least == ASSUME NEW S \in SUBSET Nat, S # {} PROVE \E m \in S : \A k \in S : m <= k
<1>1. \E m \in S : \A k \in S : ~ (<<k, m>> \in OpToRel(<, Nat))
  BY NatLessThanWellFounded, WFMin
<1>2. PICK m \in S : \A k \in S : ~ (<<k, m>> \in OpToRel(<, Nat))
  BY <1>1
<1>3. ASSUME NEW k \in S PROVE m <= k
  <2>1. ~ (k < m)
    BY <1>2 DEF OpToRel
  <2> QED
    BY <2>1
<1> QED
  BY <1>3

\* A bounded one has a greatest.
LEMMA Greatest ==
  ASSUME NEW n \in Nat, NEW S \in SUBSET (0..n), S # {}
  PROVE  \E m \in S : \A k \in S : k <= m
<1> DEFINE below == {n - k : k \in S}
<1>1. below \in SUBSET Nat /\ below # {}
  <2>1. \A k \in S : n - k \in Nat
    OBVIOUS
  <2> QED
    BY <2>1
<1>2. PICK l \in below : \A k \in below : l <= k
  BY <1>1, Least
<1>3. PICK m \in S : l = n - m
  BY <1>2
<1>4. ASSUME NEW k \in S PROVE k <= m
  <2>1. n - m <= n - k
    BY <1>2, <1>3
  <2> QED
    BY <2>1
<1> QED
  BY <1>4

\* FirstId is the least id of a set that has one.
LEMMA FirstIdIs ==
  ASSUME NEW S \in SUBSET Nat, S # {}
  PROVE  FirstId(S) \in S /\ \A k \in S : FirstId(S) <= k
BY Least DEF FirstId

\* LastId is the greatest id of a bounded set that has one.
LEMMA LastIdIs ==
  ASSUME NEW n \in Nat, NEW S \in SUBSET (0..n), S # {}
  PROVE  LastId(S) \in S /\ \A k \in S : k <= LastId(S)
BY Greatest DEF LastId

\* The version a branch shows is one of its versions, or none.
LEMMA NewestIs == ASSUME TypeOK, NEW path PROVE Newest(path) \in Nat
<1> DEFINE shown == {v \in DOMAIN files : files[v].message \in path}
<1>1. CASE shown = {}
  BY <1>1 DEF Newest, None
<1>2. CASE shown # {}
  <2>1. used.file \in Nat /\ shown \in SUBSET (0..used.file)
    BY DEF TypeOK
  <2>2. \E v \in shown : \A w \in shown : w <= v
    BY <1>2, <2>1, Greatest
  <2>3. Newest(path) \in shown
    BY <1>2, <2>2 DEF Newest
  <2> QED
    BY <2>1, <2>3
<1> QED
  BY <1>1, <1>2

-----------------------------------------------------------------------------
(* Paths *)

\* What lies on a path is a row of its chat.
LEMMA PathsAreRows ==
  /\ \A c : ActivePath(c) \subseteq Rows(c)
  /\ \A m, c : PathTo(m, c) \subseteq Rows(c)
BY DEF ActivePath, PathTo, Walk

\* Nothing but ids is ever sent to a model or summarised.
LEMMA HistoryIsTyped ==
  ASSUME TypeOK, NEW c, NEW path \in SUBSET Rows(c)
  PROVE  History(path) \in PromptType /\ Transcript(path) \in SUBSET Nat
<1>1. path \subseteq Nat /\ path \subseteq DOMAIN msgs
  BY DEF TypeOK, Rows
<1>2. Told(path) \in SUBSET Nat
  <2>1. \A b \in SummaryPoint(path) : msgs[b].summary \in SUBSET Nat
    BY <1>1 DEF SummaryPoint, TypeOK, MessageType
  <2> QED
    BY <2>1 DEF Told
<1>3. AfterSummary(path) \in SUBSET Nat
  BY <1>1 DEF AfterSummary
<1> QED
  BY <1>2, <1>3 DEF History, PromptType, Transcript, ToCompact

\* A message is only put below one of its own chat, or first in it.
LEMMA PlacesAreRows ==
  ASSUME TypeOK, TreeWellFormed, NEW c \in DOMAIN chats, NEW p \in Places(c)
  PROVE  p = None \/ p \in Rows(c)
BY PathsAreRows DEF Places, Tips, TreeWellFormed, Rows

-----------------------------------------------------------------------------
(* The tree of some chats and some rows *)

IsTree(ch, ms) ==
  /\ \A m \in DOMAIN ms :
       /\ ms[m].chat \in DOMAIN ch
       /\ ms[m].parent # None =>
            /\ ms[m].parent \in DOMAIN ms /\ ms[ms[m].parent].chat = ms[m].chat
            /\ ms[m].parent < m
       /\ ms[m].child # None =>
            /\ ms[m].child \in DOMAIN ms /\ ms[ms[m].child].chat = ms[m].chat
            /\ ms[ms[m].child].parent = m
  /\ \A c \in DOMAIN ch :
       ch[c] # None =>
         ch[c] \in DOMAIN ms /\ ms[ch[c]].chat = c /\ ms[ch[c]].parent = None

\* What TreeWellFormed says of the state it says of these two, and of the next.
LEMMA TreeIs ==
  /\ TreeWellFormed <=> IsTree(chats, msgs)
  /\ TreeWellFormed' <=> IsTree(chats', msgs')
<1>1. TreeWellFormed <=> IsTree(chats, msgs)
  BY DEF TreeWellFormed, IsTree, Rows
<1>2. TreeWellFormed' <=> IsTree(chats', msgs')
  BY DEF TreeWellFormed, IsTree, Rows
<1> QED
  BY <1>1, <1>2

-----------------------------------------------------------------------------
(* A new message *)

\* A row with a place: it shows nothing yet, and hangs in its own chat.
Hangs(row) ==
  /\ row \in MessageType /\ row.child = None
  /\ \/ row.parent = None
     \/ row.parent \in DOMAIN msgs /\ msgs[row.parent].chat = row.chat

\* Chats go on showing what they show, but the one the row is a first of.
Follow(row) ==
  /\ DOMAIN chats \subseteq DOMAIN chats' /\ row.chat \in DOMAIN chats'
  /\ \A d \in DOMAIN chats' :
       \/ d \in DOMAIN chats /\ chats'[d] = chats[d]
       \/ chats'[d] = None
       \/ d = row.chat /\ row.parent = None /\ chats'[d] = NewId

\* What is there stays in its place; the row is under the new id.
Grown(row) ==
  /\ DOMAIN msgs' = DOMAIN msgs \cup {NewId} /\ msgs'[NewId] = row
  /\ \A m \in DOMAIN msgs :
       /\ msgs'[m] \in MessageType
       /\ msgs'[m].chat = msgs[m].chat /\ msgs'[m].parent = msgs[m].parent
       /\ \/ msgs'[m].child = msgs[m].child
          \/ msgs'[m].child = NewId /\ m = row.parent

\* The new id is that of no row, and no NULL.
LEMMA NewIdIs ==
  ASSUME TypeOK
  PROVE  /\ NewId \in Nat /\ NewId = used.message + 1 /\ NewId # None
         /\ NewId \notin DOMAIN msgs
         /\ \A m \in DOMAIN msgs : m \in Nat /\ m < NewId /\ m # None
BY DEF TypeOK, NewId, None

\* What Inserted makes of the rows is the tree grown by one row.
LEMMA InsertedIs ==
  ASSUME TypeOK, NEW row, Hangs(row), NEW linked, msgs' = Inserted(NewId, row, linked)
  PROVE  Grown(row)
<1>1. DOMAIN msgs' = DOMAIN msgs \cup {NewId} /\ msgs'[NewId] = row
  BY DEF Inserted
<1>2. ASSUME NEW m \in DOMAIN msgs
      PROVE  /\ msgs'[m] \in MessageType
             /\ msgs'[m].chat = msgs[m].chat /\ msgs'[m].parent = msgs[m].parent
             /\ \/ msgs'[m].child = msgs[m].child
                \/ msgs'[m].child = NewId /\ m = row.parent
  <2>1. msgs[m] \in MessageType
    BY DEF TypeOK
  <2>2. msgs'[m] = IF linked /\ m = row.parent
                   THEN [msgs[m] EXCEPT !.child = NewId] ELSE msgs[m]
    BY <1>1, NewIdIs DEF Inserted
  <2>3. CASE linked /\ m = row.parent
    <3>1. msgs'[m] = [msgs[m] EXCEPT !.child = NewId]
      BY <2>2, <2>3
    <3> QED
      BY <2>1, <2>3, <3>1, NewIdIs DEF MessageType
  <2>4. CASE ~ (linked /\ m = row.parent)
    BY <2>1, <2>2, <2>4
  <2> QED
    BY <2>3, <2>4
<1> QED
  BY <1>1, <1>2 DEF Grown

\* A row hung into a tree leaves it one.
LEMMA GrownIsTree ==
  ASSUME TypeOK, TreeWellFormed, NEW row, Hangs(row), Follow(row), Grown(row)
  PROVE  TreeWellFormed'
<1>1. IsTree(chats, msgs)
  BY TreeIs
<1>2. ASSUME NEW m \in DOMAIN msgs'
      PROVE  /\ msgs'[m].chat \in DOMAIN chats'
             /\ msgs'[m].parent # None =>
                  /\ msgs'[m].parent \in DOMAIN msgs'
                  /\ msgs'[msgs'[m].parent].chat = msgs'[m].chat
                  /\ msgs'[m].parent < m
  <2>1. CASE m = NewId
    BY <2>1, NewIdIs DEF Grown, Follow, Hangs
  <2>2. CASE m \in DOMAIN msgs
    BY <2>2, <1>1 DEF Grown, Follow, IsTree
  <2> QED
    BY <2>1, <2>2 DEF Grown
<1>3. ASSUME NEW m \in DOMAIN msgs', msgs'[m].child # None
      PROVE  /\ msgs'[m].child \in DOMAIN msgs'
             /\ msgs'[msgs'[m].child].chat = msgs'[m].chat
             /\ msgs'[msgs'[m].child].parent = m
  <2>1. m \in DOMAIN msgs
    BY <1>3 DEF Grown, Hangs
  <2>2. CASE msgs'[m].child = msgs[m].child
    BY <2>1, <2>2, <1>1, <1>3 DEF Grown, IsTree
  <2>3. CASE msgs'[m].child = NewId /\ m = row.parent
    BY <2>1, <2>3, NewIdIs DEF Grown, Hangs
  <2> QED
    BY <2>1, <2>2, <2>3 DEF Grown
<1>4. ASSUME NEW c \in DOMAIN chats', chats'[c] # None
      PROVE  /\ chats'[c] \in DOMAIN msgs' /\ msgs'[chats'[c]].chat = c
             /\ msgs'[chats'[c]].parent = None
  <2>1. CASE c \in DOMAIN chats /\ chats'[c] = chats[c]
    BY <2>1, <1>1, <1>4 DEF Grown, IsTree
  <2>2. CASE c = row.chat /\ row.parent = None /\ chats'[c] = NewId
    BY <2>2 DEF Grown
  <2> QED
    BY <2>1, <2>2, <1>4 DEF Follow
<1>5. IsTree(chats', msgs')
  BY <1>2, <1>3, <1>4 DEF IsTree
<1> QED
  BY <1>5, TreeIs

\* A place for a message, in a chat that is there or about to be.
Placed(c, parent) ==
  \/ /\ c \in DOMAIN chats
     /\ \/ parent = None
        \/ parent \in DOMAIN msgs /\ msgs[parent].chat = c
  \/ c = used.chat + 1 /\ parent = None

\* The first message of a send, or of one cut short before the pointer moved.
LEMMA PersistKeeps ==
  ASSUME TypeOK, TreeWellFormed, NEW c, NEW parent, NEW linked,
         Placed(c, parent), Persist(c, parent, linked)
  PROVE  /\ TreeWellFormed'
         /\ Grown(Message(c, "user", TRUE, parent, NoPrompt))
         /\ DOMAIN chats' = DOMAIN chats \cup {c} /\ DOMAIN chats' \subseteq 1..used'.chat
         /\ \A d \in DOMAIN chats' : chats'[d] \in Nat
         /\ used' \in [chat : Nat, message : Nat, file : Nat]
         /\ used'.message = NewId /\ used'.file = used.file
         /\ used'.chat = used.chat \/ (used'.chat = used.chat + 1 /\ c = used.chat + 1)
<1> DEFINE row == Message(c, "user", TRUE, parent, NoPrompt)
<1>1. /\ c \in Nat /\ parent \in Nat /\ NewId \in Nat
      /\ used \in [chat : Nat, message : Nat, file : Nat]
  BY NewIdIs DEF Placed, TypeOK, None
<1>2. /\ row \in MessageType /\ row.chat = c /\ row.parent = parent /\ row.child = None
  BY <1>1 DEF Message, MessageType, NoPrompt, PromptType, None
<1>3. /\ DOMAIN chats' = DOMAIN chats \cup {c}
      /\ \A d \in DOMAIN chats' :
           \/ d \in DOMAIN chats /\ chats'[d] = chats[d]
           \/ chats'[d] = None
           \/ d = c /\ parent = None /\ chats'[d] = NewId
  BY DEF Persist
<1>4. /\ msgs' = Inserted(NewId, row, linked)
      /\ used' = [used EXCEPT !.chat = IF c > @ THEN c ELSE @, !.message = NewId]
  BY DEF Persist
<1>5. /\ used' \in [chat : Nat, message : Nat, file : Nat]
      /\ used'.message = NewId /\ used'.file = used.file
      /\ used'.chat = IF c > used.chat THEN c ELSE used.chat
  BY <1>1, <1>4
<1>6. c \in DOMAIN chats => c <= used.chat
  BY DEF TypeOK
<1>7. DOMAIN chats' \subseteq 1..used'.chat
  <2>1. DOMAIN chats \subseteq 1..used.chat /\ (c \in DOMAIN chats \/ c = used.chat + 1)
    BY DEF TypeOK, Placed
  <2> QED
    BY <1>1, <1>3, <1>5, <1>6, <2>1
<1>8. \A d \in DOMAIN chats' : chats'[d] \in Nat
  BY <1>1, <1>3 DEF TypeOK, None
<1>9. used'.chat = used.chat \/ (used'.chat = used.chat + 1 /\ c = used.chat + 1)
  BY <1>1, <1>5, <1>6 DEF Placed
<1>10. Hangs(row)
  BY <1>2 DEF Hangs, Placed
<1>11. Follow(row)
  BY <1>2, <1>3 DEF Follow
<1> HIDE DEF row
<1>12. Grown(row)
  BY <1>4, <1>10, InsertedIs
<1>13. TreeWellFormed'
  BY <1>10, <1>11, <1>12, GrownIsTree
<1> QED
  BY <1>3, <1>5, <1>7, <1>8, <1>9, <1>12, <1>13 DEF row

\* The rows after it have their types.
LEMMA GrownIsTyped ==
  ASSUME TypeOK, NEW row \in MessageType, Grown(row), used'.message = NewId
  PROVE  /\ DOMAIN msgs' \subseteq 1..used'.message
         /\ \A m \in DOMAIN msgs' : msgs'[m] \in MessageType
<1>1. DOMAIN msgs' \subseteq 1..used'.message
  <2>1. \A m \in DOMAIN msgs : m \in 1..used.message
    BY DEF TypeOK
  <2>2. used.message \in Nat
    BY DEF TypeOK
  <2> QED
    BY <2>1, <2>2, NewIdIs DEF Grown
<1> QED
  BY <1>1 DEF Grown

-----------------------------------------------------------------------------
(* The line and the searches *)

\* A turn that would store its reply finds its chat and its question.
Finds(t, ch, ms) ==
  t.kind = "reply" /\ t.chat # None =>
    /\ t.chat \in DOMAIN ch
    /\ t.message \in DOMAIN ms /\ ms[t.message].chat = t.chat

\* A search has a chat that was there, and its place while the chat is.
HasPlace(s, ch, ms, n) ==
  /\ s.chat <= n
  /\ s.chat \in DOMAIN ch =>
       \/ s.parent = None
       \/ s.parent \in DOMAIN ms /\ ms[s.parent].chat = s.chat

\* RepliesHaveChats is about one turn at a time, now and after the step.
LEMMA LineIs ==
  /\ RepliesHaveChats <=> \A i \in 1..Len(line) : Finds(line[i], chats, msgs)
  /\ RepliesHaveChats' <=> \A i \in 1..Len(line') : Finds(line'[i], chats', msgs')
<1>1. RepliesHaveChats <=> \A i \in 1..Len(line) : Finds(line[i], chats, msgs)
  BY DEF RepliesHaveChats, Finds, Rows
<1>2. RepliesHaveChats' <=> \A i \in 1..Len(line') : Finds(line'[i], chats', msgs')
  BY DEF RepliesHaveChats, Finds, Rows
<1> QED
  BY <1>1, <1>2

\* So is SearchesHavePlaces, about one waiting send.
LEMMA SearchesAre ==
  /\ SearchesHavePlaces <=> \A s \in searches : HasPlace(s, chats, msgs, used.chat)
  /\ SearchesHavePlaces' <=> \A s \in searches' : HasPlace(s, chats', msgs', used'.chat)
<1>1. SearchesHavePlaces <=> \A s \in searches : HasPlace(s, chats, msgs, used.chat)
  BY DEF SearchesHavePlaces, HasPlace, Rows
<1>2. SearchesHavePlaces' <=> \A s \in searches' : HasPlace(s, chats', msgs', used'.chat)
  BY DEF SearchesHavePlaces, HasPlace, Rows
<1> QED
  BY <1>1, <1>2

\* Neither loses anything when the tree grows.
LEMMA GrownKeeps ==
  ASSUME TypeOK, NEW row, Grown(row), NEW c, c = row.chat,
         DOMAIN chats' = DOMAIN chats \cup {c}, used' \in [chat : Nat, message : Nat, file : Nat],
         used'.chat = used.chat \/ used'.chat = used.chat + 1,
         c \in DOMAIN chats \/ c = used.chat + 1
  PROVE  /\ \A t : Finds(t, chats, msgs) => Finds(t, chats', msgs')
         /\ \A s \in searches :
              HasPlace(s, chats, msgs, used.chat) => HasPlace(s, chats', msgs', used'.chat)
<1>1. \A t : Finds(t, chats, msgs) => Finds(t, chats', msgs')
  BY DEF Finds, Grown
<1>2. ASSUME NEW s \in searches, HasPlace(s, chats, msgs, used.chat)
      PROVE  HasPlace(s, chats', msgs', used'.chat)
  <2>1. used.chat \in Nat /\ s.chat \in Nat
    BY DEF TypeOK
  <2>2. s.chat <= used'.chat
    BY <1>2, <2>1 DEF HasPlace
  <2>3. s.chat \in DOMAIN chats' => s.chat \in DOMAIN chats
    BY <1>2, <2>1 DEF HasPlace
  <2> QED
    BY <1>2, <2>2, <2>3 DEF HasPlace, Grown
<1> QED
  BY <1>1, <1>2

\* A line made of turns of the line is one, and each of them still finds what
\* it needs while the tree stands.
LEMMA SublineKeeps ==
  ASSUME TypeOK, RepliesHaveChats, NEW l \in Seq(TurnType),
         \A i \in 1..Len(l) : \E j \in 1..Len(line) : l[i] = line[j]
  PROVE  \A i \in 1..Len(l) : Finds(l[i], chats, msgs)
BY LineIs

\* The line without its i-th: those before it, and those after it one earlier.
Skips(l, k, i) ==
  /\ Len(l) = Len(k) - 1
  /\ \A j \in 1..Len(l) : l[j] = k[IF j < i THEN j ELSE j + 1]

\* Drop leaves the line without one of its turns.
LEMMA RemovedIs ==
  ASSUME TypeOK, NEW i \in 1..Len(line)
  PROVE  RemoveAt(line, i) \in Seq(TurnType) /\ Skips(RemoveAt(line, i), line, i)
<1> DEFINE a == SubSeq(line, 1, i - 1)
           b == SubSeq(line, i + 1, Len(line))
<1>1. line \in Seq(TurnType) /\ Len(line) \in Nat /\ i \in Nat
  BY DEF TypeOK
<1>2. /\ a \in Seq(TurnType) /\ Len(a) = i - 1
      /\ \A k \in 1..Len(a) : a[k] = line[k]
  <2>1. \A k \in 1..(i - 1) : k \in 1..Len(line)
    BY <1>1
  <2>2. /\ a \in Seq(TurnType) /\ Len(a) = IF 1 <= i - 1 THEN (i - 1) - 1 + 1 ELSE 0
        /\ \A k \in 1..((i - 1) - 1 + 1) : a[k] = line[1 + k - 1]
    BY <1>1, <2>1, SubSeqProperties
  <2> QED
    BY <1>1, <2>2
<1>3. /\ b \in Seq(TurnType) /\ Len(b) = Len(line) - i
      /\ \A k \in 1..Len(b) : b[k] = line[i + k]
  <2>1. \A k \in (i + 1)..Len(line) : k \in 1..Len(line)
    BY <1>1
  <2>2. /\ b \in Seq(TurnType)
        /\ Len(b) = IF i + 1 <= Len(line) THEN Len(line) - (i + 1) + 1 ELSE 0
        /\ \A k \in 1..(Len(line) - (i + 1) + 1) : b[k] = line[i + 1 + k - 1]
    BY <1>1, <2>1, SubSeqProperties
  <2> QED
    BY <1>1, <2>2
<1>4. RemoveAt(line, i) = a \o b
  BY DEF RemoveAt
<1> HIDE DEF a, b
<1>5. /\ a \o b \in Seq(TurnType) /\ Len(a \o b) = Len(a) + Len(b)
      /\ \A k \in 1..(Len(a) + Len(b)) :
           (a \o b)[k] = IF k <= Len(a) THEN a[k] ELSE b[k - Len(a)]
  BY <1>2, <1>3, ConcatProperties
<1>6. ASSUME NEW k \in 1..Len(a \o b)
      PROVE  (a \o b)[k] = line[IF k < i THEN k ELSE k + 1]
  <2>1. CASE k < i
    <3>1. k \in 1..Len(a) /\ k <= Len(a)
      BY <1>1, <1>2, <1>3, <1>5, <2>1
    <3> QED
      BY <3>1, <1>2, <1>3, <1>5, <2>1
  <2>2. CASE ~ (k < i)
    <3>1. k - Len(a) \in 1..Len(b) /\ i + (k - Len(a)) = k + 1 /\ ~ (k <= Len(a))
      BY <1>1, <1>2, <1>3, <1>5, <2>2
    <3>2. (a \o b)[k] = b[k - Len(a)]
      BY <1>5, <3>1
    <3> QED
      BY <2>2, <3>1, <3>2, <1>3
  <2> QED
    BY <2>1, <2>2
<1>7. Len(a \o b) = Len(line) - 1
  BY <1>1, <1>2, <1>3, <1>5
<1>8. Skips(a \o b, line, i)
  BY <1>6, <1>7, Zenon DEF Skips
<1> QED
  BY <1>4, <1>5, <1>8

\* What is left are turns of the line.
LEMMA WithoutOne ==
  ASSUME TypeOK, NEW i \in 1..Len(line)
  PROVE  /\ RemoveAt(line, i) \in Seq(TurnType)
         /\ Len(RemoveAt(line, i)) = Len(line) - 1
         /\ \A k \in 1..Len(RemoveAt(line, i)) :
              \E j \in 1..Len(line) : RemoveAt(line, i)[k] = line[j]
<1> DEFINE l == RemoveAt(line, i)
<1>1. l \in Seq(TurnType) /\ Len(l) = Len(line) - 1 /\ Len(line) \in Nat
  BY RemovedIs DEF Skips, TypeOK
<1>2. \A k \in 1..Len(l) : l[k] = line[k] \/ l[k] = line[k + 1]
  BY RemovedIs DEF Skips
<1> HIDE DEF l
<1>3. \A k \in 1..Len(l) : \E j \in 1..Len(line) : l[k] = line[j]
  <2>1. \A k \in 1..Len(l) : k \in 1..Len(line) /\ k + 1 \in 1..Len(line)
    BY <1>1
  <2> QED
    BY <1>2, <2>1
<1> QED
  BY <1>1, <1>3 DEF l

\* The turns that outlive their chat are turns of the line, the one that runs
\* with its chat forgotten; none of the others is of that chat.
LEMMA CutLooseKeeps ==
  ASSUME TypeOK, RepliesHaveChats, RunnerIsFirst, NEW c, CutLoose(c)
  PROVE  /\ line' \in Seq(TurnType)
         /\ running => line' # <<>>
         /\ \A i \in 1..Len(line') :
              /\ Finds(line'[i], chats, msgs)
              /\ line'[i].kind = "reply" /\ line'[i].chat # None => line'[i].chat # c
<1> DEFINE left == Cardinality(Kept(c))
<1>1. left \in Nat /\ (running => left # 0)
  <2>1. Kept(c) \subseteq 1..Len(line) /\ Len(line) \in Nat
    BY DEF Kept, TypeOK
  <2>2. IsFiniteSet(1..Len(line))
    BY <2>1, FS_Interval
  <2>3. IsFiniteSet(Kept(c))
    BY <2>1, <2>2, FS_Subset
  <2>4. running => Kept(c) # {}
    BY <2>1 DEF Kept, RunnerIsFirst, TypeOK
  <2> QED
    BY <2>3, <2>4, FS_CardinalityType, FS_EmptySet
<1>2. PICK at \in [1..left -> Kept(c)] : line' = [i \in 1..left |-> Loose(c, line[at[i]])]
  BY DEF CutLoose
<1>3. ASSUME NEW i \in 1..left
      PROVE  /\ line'[i] \in TurnType
             /\ Finds(line'[i], chats, msgs)
             /\ line'[i].kind = "reply" /\ line'[i].chat # None => line'[i].chat # c
  <2>1. line'[i] = Loose(c, line[at[i]]) /\ at[i] \in 1..Len(line)
    BY <1>2 DEF Kept
  <2>2. line[at[i]] \in TurnType /\ Finds(line[at[i]], chats, msgs)
    BY <2>1, LineIs DEF TypeOK
  <2>3. CASE Of(c, line[at[i]])
    <3>1. line[at[i]].kind = "reply" /\ line'[i] = [line[at[i]] EXCEPT !.chat = None]
      BY <2>1, <2>3 DEF Of, Loose
    <3>2. line'[i] \in TurnType /\ line'[i].chat = None
      BY <2>2, <3>1 DEF TurnType, None
    <3> QED
      BY <3>2 DEF Finds
  <2>4. CASE ~ Of(c, line[at[i]])
    BY <2>1, <2>2, <2>4 DEF Of, Loose
  <2> QED
    BY <2>3, <2>4
<1> HIDE DEF left
<1>4. line' \in Seq(TurnType) /\ Len(line') = left
  <2>1. line' \in [1..left -> TurnType]
    BY <1>2, <1>3
  <2> QED
    BY <1>1, <2>1
<1> QED
  BY <1>1, <1>3, <1>4

-----------------------------------------------------------------------------
(* The steps *)

\* A message with its place is written; the turn that answers it joins the
\* line, or the handler is cut short before that.
LEMMA WrittenKeeps ==
  ASSUME Sound, NEW c, NEW parent, NEW linked,
         Placed(c, parent), Persist(c, parent, linked),
         \/ line' = line
         \/ \E t \in TurnType : /\ t.kind = "reply" /\ t.chat = c /\ t.message = NewId
                                /\ line' = Append(line, t),
         searches' \subseteq searches, cuts' \in Nat,
         UNCHANGED <<files, running, summaries, restarts>>
  PROVE  Sound'
<1> DEFINE row == Message(c, "user", TRUE, parent, NoPrompt)
<1>1. TypeOK /\ TreeWellFormed /\ RepliesHaveChats /\ SearchesHavePlaces /\ RunnerIsFirst
  BY DEF Sound
<1>2. /\ TreeWellFormed' /\ Grown(row)
      /\ DOMAIN chats' = DOMAIN chats \cup {c} /\ DOMAIN chats' \subseteq 1..used'.chat
      /\ \A d \in DOMAIN chats' : chats'[d] \in Nat
      /\ used' \in [chat : Nat, message : Nat, file : Nat]
      /\ used'.message = NewId /\ used'.file = used.file
      /\ used'.chat = used.chat \/ (used'.chat = used.chat + 1 /\ c = used.chat + 1)
  BY <1>1, PersistKeeps
<1>3. row.chat = c /\ row \in MessageType
  <2>1. c \in Nat /\ parent \in Nat
    BY <1>1, NewIdIs DEF Placed, TypeOK, None
  <2> QED
    BY <2>1 DEF Message, MessageType, NoPrompt, PromptType, None
<1> HIDE DEF row
<1>4. c \in DOMAIN chats \/ c = used.chat + 1
  BY DEF Placed
<1>5. /\ \A t : Finds(t, chats, msgs) => Finds(t, chats', msgs')
      /\ \A s \in searches :
           HasPlace(s, chats, msgs, used.chat) => HasPlace(s, chats', msgs', used'.chat)
  BY <1>1, <1>2, <1>3, <1>4, GrownKeeps
<1>6. /\ DOMAIN msgs' \subseteq 1..used'.message
      /\ \A m \in DOMAIN msgs' : msgs'[m] \in MessageType
  BY <1>1, <1>2, <1>3, GrownIsTyped
<1>7. line' \in Seq(TurnType) /\ \A i \in 1..Len(line') : Finds(line'[i], chats', msgs')
  <2>1. line \in Seq(TurnType) /\ \A i \in 1..Len(line) : Finds(line[i], chats', msgs')
    BY <1>1, <1>5, LineIs DEF TypeOK
  <2>2. CASE line' = line
    BY <2>1, <2>2
  <2>3. CASE \E t \in TurnType : /\ t.kind = "reply" /\ t.chat = c /\ t.message = NewId
                                 /\ line' = Append(line, t)
    <3>1. PICK t \in TurnType : /\ t.kind = "reply" /\ t.chat = c /\ t.message = NewId
                                /\ line' = Append(line, t)
      BY <2>3
    <3>2. Finds(t, chats', msgs')
      BY <3>1, <1>2, <1>3 DEF Finds, Grown
    <3> QED
      BY <2>1, <3>1, <3>2
  <2> QED
    BY <2>2, <2>3
<1>8. TypeOK'
  BY <1>1, <1>2, <1>6, <1>7 DEF TypeOK
<1>9. RepliesHaveChats'
  BY <1>7, LineIs
<1>10. SearchesHavePlaces'
  BY <1>1, <1>5, SearchesAre
<1>11. RunnerIsFirst'
  BY <1>1 DEF RunnerIsFirst, TypeOK
<1> QED
  BY <1>2, <1>8, <1>9, <1>10, <1>11 DEF Sound

\* A place the handlers offer is a place in the chat.
LEMMA PlacesArePlaced ==
  ASSUME Sound, NEW c \in DOMAIN chats, NEW parent \in Places(c)
  PROVE  Placed(c, parent)
BY PlacesAreRows DEF Sound, Placed, Rows

\* A send, with its turn.
LEMMA SendKeeps ==
  ASSUME Sound, NEW c, NEW parent, Placed(c, parent), Send(c, parent)
  PROVE  Sound'
<1> DEFINE prior == PathTo(parent, c)
           t == Turn(c, History(prior), TRUE, Newest(prior), QuietOn(prior))
<1>1. TypeOK
  BY DEF Sound
<1>2. History(prior) \in PromptType /\ Newest(prior) \in Nat
  BY <1>1, PathsAreRows, HistoryIsTyped, NewestIs
<1>3. QuietOn(prior) \in BOOLEAN
  BY DEF QuietOn
<1>4. c \in Nat /\ NewId \in Nat
  BY <1>1, NewIdIs DEF Placed, TypeOK
<1>5. t \in TurnType /\ t.kind = "reply" /\ t.chat = c /\ t.message = NewId
  <2> HIDE DEF prior
  <2> QED
    BY <1>2, <1>3, <1>4 DEF Turn, TurnType
<1>6. /\ Persist(c, parent, TRUE) /\ line' = Append(line, t)
      /\ UNCHANGED <<files, running, searches, summaries, cuts, restarts>>
  BY DEF Send
<1>7. cuts' \in Nat /\ searches' \subseteq searches
  BY <1>1, <1>6 DEF TypeOK
<1> HIDE DEF t
<1> QED
  BY <1>5, <1>6, <1>7, WrittenKeeps

\* A send cut short: the rows it wrote stay, and no turn follows.
LEMMA SendCutKeeps == ASSUME Sound, SendCut PROVE Sound'
<1>1. /\ TypeOK /\ TreeWellFormed /\ RepliesHaveChats /\ SearchesHavePlaces
      /\ RunnerIsFirst /\ cuts' \in Nat
      /\ UNCHANGED <<files, line, running, searches, summaries, restarts>>
  BY DEF Sound, SendCut, TypeOK
<1>2. ASSUME NEW c, NEW parent, Placed(c, parent), Persist(c, parent, FALSE) PROVE Sound'
  BY <1>1, <1>2, WrittenKeeps
<1>3. CASE \E c \in DOMAIN chats : \E parent \in Places(c) : Persist(c, parent, FALSE)
  BY <1>2, <1>3, PlacesArePlaced
<1>4. CASE Persist(used.chat + 1, None, FALSE)
  BY <1>2, <1>4 DEF Placed
<1>5. CASE /\ used' = [used EXCEPT !.chat = @ + 1]
           /\ chats' = [d \in DOMAIN chats \cup {used'.chat} |->
                          IF d \in DOMAIN chats THEN chats[d] ELSE None]
           /\ UNCHANGED msgs
  <2>1. /\ used' \in [chat : Nat, message : Nat, file : Nat] /\ used'.chat = used.chat + 1
        /\ used'.message = used.message /\ used'.file = used.file
    BY <1>1, <1>5 DEF TypeOK
  <2>2. /\ DOMAIN chats' = DOMAIN chats \cup {used.chat + 1} /\ used.chat \in Nat
        /\ used.chat + 1 \notin DOMAIN chats
        /\ \A d \in DOMAIN chats : chats'[d] = chats[d] /\ d \in 1..used.chat
        /\ chats'[used.chat + 1] = None
    BY <1>1, <1>5, <2>1 DEF TypeOK
  <2>3. TypeOK'
    <3>1. DOMAIN chats' \subseteq 1..used'.chat /\ \A d \in DOMAIN chats' : chats'[d] \in Nat
      BY <1>1, <2>1, <2>2 DEF TypeOK, None
    <3> QED
      BY <1>1, <1>5, <2>1, <3>1 DEF TypeOK
  <2>4. TreeWellFormed'
    BY <1>1, <1>5, <2>2, TreeIs DEF IsTree
  <2>5. RepliesHaveChats'
    BY <1>1, <1>5, <2>2, LineIs DEF Finds
  <2>6. SearchesHavePlaces'
    <3>1. ASSUME NEW s \in searches PROVE HasPlace(s, chats', msgs', used'.chat)
      <4>1. HasPlace(s, chats, msgs, used.chat) /\ s.chat \in Nat
        BY <1>1, SearchesAre DEF TypeOK
      <4> QED
        BY <1>5, <2>1, <2>2, <4>1 DEF HasPlace
    <3> QED
      BY <1>1, <3>1, SearchesAre
  <2>7. RunnerIsFirst'
    BY <1>1 DEF RunnerIsFirst
  <2> QED
    BY <2>3, <2>4, <2>5, <2>6, <2>7 DEF Sound
<1> QED
  BY <1>3, <1>4, <1>5 DEF SendCut

\* The place a search starts with is in its chat.
LEMMA BeginSearchKeeps == ASSUME Sound, BeginSearch PROVE Sound'
<1>1. TypeOK /\ TreeWellFormed /\ RepliesHaveChats /\ SearchesHavePlaces /\ RunnerIsFirst
  BY DEF Sound
<1>2. PICK c \in DOMAIN chats : \E parent \in Places(c) :
        searches' = searches \cup
          {[chat |-> c, parent |-> parent, prompt |-> History(PathTo(parent, c))]}
  BY DEF BeginSearch
<1>3. PICK parent \in Places(c) :
        searches' = searches \cup
          {[chat |-> c, parent |-> parent, prompt |-> History(PathTo(parent, c))]}
  BY <1>2
<1>4. UNCHANGED <<chats, msgs, files, used, line, running, summaries, cuts, restarts>>
  BY DEF BeginSearch
<1> DEFINE s == [chat |-> c, parent |-> parent, prompt |-> History(PathTo(parent, c))]
<1>5. Placed(c, parent) /\ c \in Nat /\ c <= used.chat /\ parent \in Nat
  <2>1. Placed(c, parent) /\ c \in 1..used.chat
    BY <1>1, PlacesArePlaced DEF TypeOK
  <2> QED
    BY <1>1, <2>1 DEF Placed, TypeOK, None
<1>6. s \in [chat : Nat, parent : Nat, prompt : PromptType]
  <2>1. History(PathTo(parent, c)) \in PromptType
    BY <1>1, PathsAreRows, HistoryIsTyped
  <2> QED
    BY <1>5, <2>1
<1>7. HasPlace(s, chats, msgs, used.chat)
  <2>1. c # used.chat + 1
    BY <1>1, <1>5 DEF TypeOK
  <2> QED
    BY <1>5, <2>1 DEF HasPlace, Placed
<1> HIDE DEF s
<1>8. TypeOK'
  BY <1>1, <1>3, <1>4, <1>6 DEF TypeOK, s
<1>9. TreeWellFormed' /\ RepliesHaveChats' /\ RunnerIsFirst'
  BY <1>1, <1>4, TreeIs, LineIs DEF RunnerIsFirst
<1>10. SearchesHavePlaces'
  BY <1>1, <1>3, <1>4, <1>7, SearchesAre DEF s
<1> QED
  BY <1>8, <1>9, <1>10 DEF Sound

\* The message comes to its place only while the chat is there.
LEMMA EndSearchKeeps == ASSUME Sound, NEW s \in searches, Land(s) \/ Abandon(s) PROVE Sound'
<1>1. TypeOK /\ TreeWellFormed /\ RepliesHaveChats /\ SearchesHavePlaces /\ RunnerIsFirst
  BY DEF Sound
<1>2. CASE Land(s)
  <2> DEFINE t == Turn(s.chat, s.prompt, FALSE, None, FALSE)
  <2>1. /\ s.chat \in DOMAIN chats /\ Persist(s.chat, s.parent, TRUE)
        /\ line' = Append(line, t) /\ searches' \subseteq searches
        /\ UNCHANGED <<files, running, summaries, cuts, restarts>>
    BY <1>2 DEF Land
  <2>2. Placed(s.chat, s.parent)
    BY <1>1, <2>1, SearchesAre DEF HasPlace, Placed
  <2>3. s.chat \in Nat /\ s.prompt \in PromptType /\ NewId \in Nat /\ cuts' \in Nat
    BY <1>1, <2>1, NewIdIs DEF TypeOK
  <2>4. t \in TurnType /\ t.kind = "reply" /\ t.chat = s.chat /\ t.message = NewId
    BY <2>3 DEF Turn, TurnType, None
  <2> HIDE DEF t
  <2> QED
    BY <2>1, <2>2, <2>3, <2>4, WrittenKeeps
<1>3. CASE Abandon(s)
  <2>1. /\ searches' \subseteq searches
        /\ UNCHANGED <<chats, msgs, files, used, line, running, summaries, cuts, restarts>>
    BY <1>3 DEF Abandon
  <2>2. TypeOK'
    BY <1>1, <2>1 DEF TypeOK
  <2>3. TreeWellFormed' /\ RepliesHaveChats' /\ RunnerIsFirst'
    BY <1>1, <2>1, TreeIs, LineIs DEF RunnerIsFirst
  <2>4. SearchesHavePlaces'
    BY <1>1, <2>1, SearchesAre
  <2> QED
    BY <2>2, <2>3, <2>4 DEF Sound
<1> QED
  BY <1>2, <1>3

\* Nothing is written when a turn starts.
LEMMA StartKeeps == ASSUME Sound, Start PROVE Sound'
<1>1. /\ TypeOK /\ TreeWellFormed /\ RepliesHaveChats /\ SearchesHavePlaces
      /\ line # <<>> /\ running' = TRUE
      /\ UNCHANGED <<chats, msgs, files, used, line, searches, summaries, cuts, restarts>>
  BY DEF Sound, Start
<1>2. TypeOK'
  BY <1>1 DEF TypeOK
<1>3. TreeWellFormed' /\ RepliesHaveChats' /\ SearchesHavePlaces' /\ RunnerIsFirst'
  BY <1>1, TreeIs, LineIs, SearchesAre DEF RunnerIsFirst
<1> QED
  BY <1>2, <1>3 DEF Sound

\* A turn that leaves takes no row along.
LEMMA DropKeeps == ASSUME Sound, Drop PROVE Sound'
<1>1. TypeOK /\ TreeWellFormed /\ RepliesHaveChats /\ SearchesHavePlaces /\ RunnerIsFirst
  BY DEF Sound
<1>2. PICK i \in 1..Len(line) :
        /\ line' = RemoveAt(line, i) /\ running' = (running /\ i # 1)
        /\ UNCHANGED <<chats, msgs, files, used, searches, summaries, cuts, restarts>>
  BY DEF Drop
<1>3. /\ line' \in Seq(TurnType) /\ Len(line') = Len(line) - 1
      /\ \A k \in 1..Len(line') : \E j \in 1..Len(line) : line'[k] = line[j]
  BY <1>1, <1>2, WithoutOne
<1>4. TypeOK'
  BY <1>1, <1>2, <1>3 DEF TypeOK
<1>5. RepliesHaveChats'
  BY <1>1, <1>2, <1>3, SublineKeeps, LineIs
<1>6. RunnerIsFirst'
  <2>1. CASE running'
    <3>1. i # 1 /\ i \in 1..Len(line)
      BY <1>2, <2>1, Zenon
    <3>2. Len(line) \in Nat
      BY <1>1 DEF TypeOK
    <3>3. Len(line') # 0
      BY <1>3, <3>1, <3>2
    <3> QED
      BY <1>3, <3>3 DEF RunnerIsFirst
  <2> QED
    BY <2>1 DEF RunnerIsFirst
<1>7. TreeWellFormed' /\ SearchesHavePlaces'
  BY <1>1, <1>2, TreeIs, SearchesAre
<1> QED
  BY <1>4, <1>5, <1>6, <1>7 DEF Sound

\* A version belongs to a turn that runs, and the row of its message stays.
LEMMA WriteFileKeeps == ASSUME Sound, WriteFile PROVE Sound'
<1>1. TypeOK /\ TreeWellFormed /\ RepliesHaveChats /\ SearchesHavePlaces /\ RunnerIsFirst
  BY DEF Sound
<1> DEFINE v == used.file + 1
           m == line[1].message
<1>2. /\ running /\ line[1].kind = "reply" /\ m \in DOMAIN msgs
      /\ used' = [used EXCEPT !.file = v] /\ line' = [line EXCEPT ![1].view = v]
      /\ files' = [w \in DOMAIN files \cup {v} |->
                     IF w = v THEN [chat |-> msgs[m].chat, message |-> m] ELSE files[w]]
      /\ UNCHANGED <<chats, msgs, running, searches, summaries, cuts, restarts>>
  BY DEF WriteFile, Wrote
<1>3. 1 \in 1..Len(line) /\ line[1] \in TurnType /\ m \in Nat /\ v \in Nat
  <2>1. 1 \in 1..Len(line) /\ line[1] \in TurnType
    BY <1>1, <1>2 DEF RunnerIsFirst, TypeOK
  <2> QED
    BY <1>1, <1>2, <2>1 DEF TurnType, TypeOK
<1>4. [line[1] EXCEPT !.view = v] \in TurnType
  BY <1>2, <1>3 DEF TurnType
<1>5. /\ Len(line') = Len(line) /\ line' \in Seq(TurnType)
      /\ \A i \in 1..Len(line) :
           line'[i] = IF i = 1 THEN [line[1] EXCEPT !.view = v] ELSE line[i]
  BY <1>1, <1>2, <1>3, <1>4 DEF TypeOK
<1>6. \A i \in 1..Len(line) :
        line'[i].kind = line[i].kind /\ line'[i].chat = line[i].chat
          /\ line'[i].message = line[i].message
  BY <1>2, <1>3, <1>5 DEF TurnType
<1>7. /\ used' \in [chat : Nat, message : Nat, file : Nat] /\ used'.file = v
      /\ used'.chat = used.chat /\ used'.message = used.message
  BY <1>1, <1>2, <1>3 DEF TypeOK
<1>8. DOMAIN files' \subseteq 1..v /\ \A w \in DOMAIN files' : files'[w] \in [chat : Nat, message : Nat]
  <2>1. /\ DOMAIN files \subseteq 1..used.file /\ used.file \in Nat
        /\ \A w \in DOMAIN files : files[w] \in [chat : Nat, message : Nat]
    BY <1>1 DEF TypeOK
  <2>2. msgs[m].chat \in Nat
    BY <1>1, <1>2 DEF TypeOK, MessageType
  <2>3. DOMAIN files' = DOMAIN files \cup {v}
    BY <1>2
  <2>4. \A w \in DOMAIN files' :
          files'[w] = IF w = v THEN [chat |-> msgs[m].chat, message |-> m] ELSE files[w]
    BY <1>2
  <2> HIDE DEF m
  <2> QED
    BY <1>3, <2>1, <2>2, <2>3, <2>4
<1> HIDE DEF v, m
<1>9. TypeOK'
  BY <1>1, <1>2, <1>5, <1>7, <1>8 DEF TypeOK
<1>10. TreeWellFormed' /\ SearchesHavePlaces'
  BY <1>1, <1>2, <1>7, TreeIs, SearchesAre
<1>11. RepliesHaveChats'
  BY <1>1, <1>2, <1>5, <1>6, LineIs DEF Finds
<1>12. RunnerIsFirst'
  BY <1>3, <1>5 DEF RunnerIsFirst
<1> QED
  BY <1>9, <1>10, <1>11, <1>12 DEF Sound

\* A reply finds its question, which is why it may hang below it.
LEMMA ReplyKeeps ==
  ASSUME Sound, NEW text \in BOOLEAN, NEW linked, Reply(text, linked), cuts' \in Nat
  PROVE  Sound'
<1>1. TypeOK /\ TreeWellFormed /\ RepliesHaveChats /\ SearchesHavePlaces /\ RunnerIsFirst
  BY DEF Sound
<1> DEFINE row == Message(line[1].chat, "assistant", text, line[1].message, line[1].prompt)
<1>2. /\ running /\ line[1].kind = "reply" /\ line[1].chat # None
      /\ msgs' = Inserted(NewId, row, linked) /\ used' = [used EXCEPT !.message = NewId]
      /\ line' = Tail(line) /\ running' = FALSE
      /\ UNCHANGED <<chats, files, searches, summaries, restarts>>
  BY DEF Reply
<1>3. 1 \in 1..Len(line) /\ line[1] \in TurnType
  BY <1>1, <1>2 DEF RunnerIsFirst, TypeOK
<1>4. /\ line[1].chat \in DOMAIN chats /\ line[1].message \in DOMAIN msgs
      /\ msgs[line[1].message].chat = line[1].chat
  BY <1>1, <1>2, <1>3, LineIs DEF Finds
<1>5. /\ row \in MessageType /\ row.chat = line[1].chat /\ row.parent = line[1].message
      /\ row.child = None
  <2>1. line[1].chat \in Nat /\ line[1].message \in Nat /\ line[1].prompt \in PromptType
    BY <1>2, <1>3 DEF TurnType
  <2> QED
    BY <2>1 DEF Message, MessageType, None
<1>6. Hangs(row) /\ Follow(row)
  BY <1>2, <1>4, <1>5 DEF Hangs, Follow
<1> HIDE DEF row
<1>7. Grown(row)
  BY <1>1, <1>2, <1>6, InsertedIs
<1>8. TreeWellFormed'
  BY <1>1, <1>6, <1>7, GrownIsTree
<1>9. /\ used' \in [chat : Nat, message : Nat, file : Nat] /\ used'.message = NewId
      /\ used'.chat = used.chat /\ used'.file = used.file
  BY <1>1, <1>2, NewIdIs DEF TypeOK
<1>10. /\ \A t : Finds(t, chats, msgs) => Finds(t, chats', msgs')
       /\ \A s \in searches :
            HasPlace(s, chats, msgs, used.chat) => HasPlace(s, chats', msgs', used'.chat)
  <2>1. DOMAIN chats' = DOMAIN chats \cup {row.chat}
    BY <1>2, <1>4, <1>5
  <2> QED
    BY <1>1, <1>4, <1>5, <1>7, <1>9, <2>1, GrownKeeps
<1>11. line' \in Seq(TurnType) /\ \A i \in 1..Len(line') : line'[i] = line[i + 1] /\ i + 1 \in 1..Len(line)
  BY <1>1, <1>2, <1>3 DEF TypeOK
<1>12. TypeOK'
  <2>1. /\ DOMAIN msgs' \subseteq 1..used'.message
        /\ \A m \in DOMAIN msgs' : msgs'[m] \in MessageType
    BY <1>1, <1>5, <1>7, <1>9, GrownIsTyped
  <2> QED
    BY <1>1, <1>2, <1>9, <1>11, <2>1 DEF TypeOK
<1>13. RepliesHaveChats'
  <2>1. \A i \in 1..Len(line) : Finds(line[i], chats', msgs')
    BY <1>1, <1>10, LineIs
  <2> QED
    BY <1>11, <2>1, LineIs
<1>14. SearchesHavePlaces' /\ RunnerIsFirst'
  BY <1>1, <1>2, <1>10, SearchesAre DEF RunnerIsFirst
<1> QED
  BY <1>8, <1>12, <1>13, <1>14 DEF Sound

\* What refers to chats and rows is not disturbed when only columns change.
LEMMA ColumnsKeep ==
  ASSUME TypeOK, RepliesHaveChats, SearchesHavePlaces,
         DOMAIN chats' = DOMAIN chats, DOMAIN msgs' = DOMAIN msgs,
         \A m \in DOMAIN msgs : msgs'[m].chat = msgs[m].chat, UNCHANGED <<used, searches>>
  PROVE  /\ SearchesHavePlaces'
         /\ \A i \in 1..Len(line) : Finds(line[i], chats', msgs')
<1>1. SearchesHavePlaces'
  BY SearchesAre DEF HasPlace
<1>2. \A i \in 1..Len(line) : Finds(line[i], chats', msgs')
  BY LineIs DEF Finds
<1> QED
  BY <1>1, <1>2

\* A version that is shown is a child, or a first message, of its own chat.
LEMMA SwitchKeeps == ASSUME Sound, Switch PROVE Sound'
<1>1. TypeOK /\ TreeWellFormed /\ RepliesHaveChats /\ SearchesHavePlaces /\ RunnerIsFirst
  BY DEF Sound
<1>2. PICK c \in DOMAIN chats : \E m \in Rows(c) :
        /\ IF msgs[m].parent = None
           THEN chats' = [chats EXCEPT ![c] = m] /\ UNCHANGED msgs
           ELSE msgs' = [msgs EXCEPT ![msgs[m].parent].child = m] /\ UNCHANGED chats
        /\ UNCHANGED <<files, used, line, running, searches, summaries, cuts, restarts>>
  BY DEF Switch
<1>3. PICK m \in DOMAIN msgs :
        /\ msgs[m].chat = c
        /\ IF msgs[m].parent = None
           THEN chats' = [chats EXCEPT ![c] = m] /\ UNCHANGED msgs
           ELSE msgs' = [msgs EXCEPT ![msgs[m].parent].child = m] /\ UNCHANGED chats
        /\ UNCHANGED <<files, used, line, running, searches, summaries, cuts, restarts>>
  BY <1>2 DEF Rows
<1>4. m \in Nat /\ m # None /\ IsTree(chats, msgs)
  BY <1>1, NewIdIs, TreeIs
<1>5. CASE msgs[m].parent = None
  <2>1. /\ DOMAIN chats' = DOMAIN chats /\ UNCHANGED msgs
        /\ \A d \in DOMAIN chats : chats'[d] = IF d = c THEN m ELSE chats[d]
    BY <1>3, <1>5
  <2>2. TypeOK'
    BY <1>1, <1>3, <1>4, <2>1 DEF TypeOK
  <2>3. TreeWellFormed'
    BY <1>3, <1>4, <1>5, <2>1, TreeIs DEF IsTree
  <2>4. SearchesHavePlaces' /\ RepliesHaveChats'
    BY <1>1, <1>3, <2>1, ColumnsKeep, LineIs
  <2>5. RunnerIsFirst'
    BY <1>1, <1>3 DEF RunnerIsFirst
  <2> QED
    BY <2>2, <2>3, <2>4, <2>5 DEF Sound
<1>6. CASE msgs[m].parent # None
  <2> DEFINE p == msgs[m].parent
  <2>1. /\ p \in DOMAIN msgs /\ msgs[p].chat = c
        /\ msgs' = [msgs EXCEPT ![p].child = m] /\ UNCHANGED chats
    BY <1>3, <1>4, <1>6 DEF IsTree
  <2>2. /\ DOMAIN msgs' = DOMAIN msgs
        /\ \A k \in DOMAIN msgs :
             msgs'[k] = IF k = p THEN [msgs[p] EXCEPT !.child = m] ELSE msgs[k]
    BY <2>1
  <2>3. \A k \in DOMAIN msgs :
          /\ msgs'[k] \in MessageType
          /\ msgs'[k].chat = msgs[k].chat /\ msgs'[k].parent = msgs[k].parent
          /\ msgs'[k].child = IF k = p THEN m ELSE msgs[k].child
    <3>1. \A k \in DOMAIN msgs : msgs[k] \in MessageType
      BY <1>1 DEF TypeOK
    <3> HIDE DEF p
    <3> QED
      BY <1>4, <2>1, <2>2, <3>1 DEF MessageType
  <2>4. TypeOK'
    BY <1>1, <1>3, <2>1, <2>2, <2>3 DEF TypeOK
  <2>5. TreeWellFormed'
    <3>1. IsTree(chats, msgs')
      BY <1>3, <1>4, <2>2, <2>3 DEF IsTree
    <3> QED
      BY <2>1, <3>1, TreeIs
  <2>6. SearchesHavePlaces' /\ RepliesHaveChats'
    BY <1>1, <1>3, <2>1, <2>2, <2>3, ColumnsKeep, LineIs
  <2>7. RunnerIsFirst'
    BY <1>1, <1>3 DEF RunnerIsFirst
  <2> QED
    BY <2>4, <2>5, <2>6, <2>7 DEF Sound
<1> QED
  BY <1>5, <1>6

\* A compaction joins the line and touches no row.
LEMMA CompactKeeps == ASSUME Sound, Compact PROVE Sound'
<1>1. TypeOK /\ TreeWellFormed /\ RepliesHaveChats /\ SearchesHavePlaces /\ RunnerIsFirst
  BY DEF Sound
<1>2. PICK c \in DOMAIN chats : \E b \in ToCompact(ActivePath(c)) :
        line' = Append(line, [kind |-> "compaction", boundary |-> b,
                              of |-> Transcript(ActivePath(c))])
  BY DEF Compact
<1>3. PICK b \in ToCompact(ActivePath(c)) :
        line' = Append(line, [kind |-> "compaction", boundary |-> b,
                              of |-> Transcript(ActivePath(c))])
  BY <1>2
<1>4. UNCHANGED <<chats, msgs, files, used, running, searches, summaries, cuts, restarts>>
  BY DEF Compact
<1> DEFINE t == [kind |-> "compaction", boundary |-> b, of |-> Transcript(ActivePath(c))]
<1>5. t \in TurnType /\ t.kind = "compaction"
  <2>1. ActivePath(c) \subseteq Rows(c) /\ Rows(c) \subseteq DOMAIN msgs
    BY PathsAreRows DEF Rows
  <2>2. b \in Nat
    BY <1>1, <2>1, NewIdIs DEF ToCompact, AfterSummary
  <2>3. Transcript(ActivePath(c)) \in SUBSET Nat
    BY <1>1, <2>1, HistoryIsTyped
  <2> QED
    BY <2>2, <2>3 DEF TurnType
<1> HIDE DEF t
<1>6. /\ line' \in Seq(TurnType) /\ line' # <<>>
      /\ \A i \in 1..Len(line') : (i \in 1..Len(line) /\ line'[i] = line[i]) \/ line'[i] = t
  BY <1>1, <1>3, <1>5 DEF TypeOK, t
<1>7. TypeOK'
  BY <1>1, <1>4, <1>6 DEF TypeOK
<1>8. RepliesHaveChats'
  BY <1>1, <1>4, <1>5, <1>6, LineIs DEF Finds
<1>9. TreeWellFormed' /\ SearchesHavePlaces' /\ RunnerIsFirst'
  BY <1>1, <1>4, <1>6, TreeIs, SearchesAre DEF RunnerIsFirst
<1> QED
  BY <1>7, <1>8, <1>9 DEF Sound

\* Its job leaves the line; its summary waits for the handler.
LEMMA SummariseKeeps == ASSUME Sound, Summarise PROVE Sound'
<1>1. TypeOK /\ TreeWellFormed /\ RepliesHaveChats /\ SearchesHavePlaces /\ RunnerIsFirst
  BY DEF Sound
<1>2. /\ running /\ line[1].kind = "compaction"
      /\ summaries' = summaries \cup {[boundary |-> line[1].boundary, of |-> line[1].of]}
      /\ line' = Tail(line) /\ running' = FALSE
      /\ UNCHANGED <<chats, msgs, files, used, searches, cuts, restarts>>
  BY DEF Summarise
<1>3. 1 \in 1..Len(line) /\ line[1] \in TurnType
  BY <1>1, <1>2 DEF RunnerIsFirst, TypeOK
<1>4. line[1].boundary \in Nat /\ line[1].of \in SUBSET Nat
  BY <1>2, <1>3 DEF TurnType
<1>5. /\ line' \in Seq(TurnType)
      /\ \A i \in 1..Len(line') : line'[i] = line[i + 1] /\ i + 1 \in 1..Len(line)
  BY <1>1, <1>2, <1>3 DEF TypeOK
<1>6. TypeOK'
  <2>1. [boundary |-> line[1].boundary, of |-> line[1].of] \in [boundary : Nat, of : SUBSET Nat]
    BY <1>4
  <2>2. summaries' \subseteq [boundary : Nat, of : SUBSET Nat]
    <3>1. summaries \subseteq [boundary : Nat, of : SUBSET Nat]
      BY <1>1 DEF TypeOK
    <3> QED
      BY <1>2, <2>1, <3>1
  <2>3. UNCHANGED <<chats, msgs, files, used, searches, cuts, restarts>> /\ running' \in BOOLEAN
    BY <1>2
  <2> QED
    BY <1>1, <1>5, <2>2, <2>3 DEF TypeOK
<1>7. RepliesHaveChats'
  BY <1>1, <1>2, <1>5, LineIs
<1>8. TreeWellFormed' /\ SearchesHavePlaces' /\ RunnerIsFirst'
  BY <1>1, <1>2, TreeIs, SearchesAre DEF RunnerIsFirst
<1> QED
  BY <1>6, <1>7, <1>8 DEF Sound

\* A summary changes no place in the tree.
LEMMA StoreSummaryKeeps == ASSUME Sound, StoreSummary PROVE Sound'
<1>1. TypeOK /\ TreeWellFormed /\ RepliesHaveChats /\ SearchesHavePlaces /\ RunnerIsFirst
  BY DEF Sound
<1>2. PICK s \in summaries :
        /\ summaries' = summaries \ {s}
        /\ msgs' = [m \in DOMAIN msgs |->
                      IF m = s.boundary THEN [msgs[m] EXCEPT !.summary = s.of] ELSE msgs[m]]
        /\ UNCHANGED <<chats, files, used, line, running, searches, cuts, restarts>>
  BY DEF StoreSummary
<1>3. /\ DOMAIN msgs' = DOMAIN msgs
      /\ \A m \in DOMAIN msgs :
           /\ msgs'[m] \in MessageType
           /\ msgs'[m].chat = msgs[m].chat /\ msgs'[m].parent = msgs[m].parent
           /\ msgs'[m].child = msgs[m].child
  <2>1. s.of \in SUBSET Nat /\ \A m \in DOMAIN msgs : msgs[m] \in MessageType
    BY <1>1 DEF TypeOK
  <2> QED
    BY <1>2, <2>1 DEF MessageType
<1>4. TypeOK'
  BY <1>1, <1>2, <1>3 DEF TypeOK
<1>5. TreeWellFormed'
  BY <1>1, <1>2, <1>3, TreeIs DEF IsTree
<1>6. SearchesHavePlaces' /\ RepliesHaveChats'
  BY <1>1, <1>2, <1>3, ColumnsKeep, LineIs
<1>7. RunnerIsFirst'
  BY <1>1, <1>2 DEF RunnerIsFirst
<1> QED
  BY <1>4, <1>5, <1>6, <1>7 DEF Sound

\* A chat goes with its rows and its queued turns; the one that runs forgets it.
LEMMA DeleteKeeps == ASSUME Sound, Delete PROVE Sound'
<1>1. TypeOK /\ TreeWellFormed /\ RepliesHaveChats /\ SearchesHavePlaces /\ RunnerIsFirst
  BY DEF Sound
<1>2. PICK c \in DOMAIN chats :
        /\ CutLoose(c)
        /\ chats' = [d \in DOMAIN chats \ {c} |-> chats[d]]
        /\ msgs' = [m \in DOMAIN msgs \ Rows(c) |-> msgs[m]]
        /\ files' = [v \in {w \in DOMAIN files : files[w].chat # c} |-> files[v]]
        /\ UNCHANGED <<used, running, searches, summaries, cuts, restarts>>
  BY DEF Delete
<1>3. /\ DOMAIN chats' = DOMAIN chats \ {c} /\ \A d \in DOMAIN chats' : chats'[d] = chats[d]
      /\ \A m : m \in DOMAIN msgs' <=> (m \in DOMAIN msgs /\ msgs[m].chat # c)
      /\ \A m \in DOMAIN msgs' : msgs'[m] = msgs[m]
      /\ DOMAIN files' \subseteq DOMAIN files /\ \A v \in DOMAIN files' : files'[v] = files[v]
  BY <1>2 DEF Rows
<1>4. /\ line' \in Seq(TurnType) /\ (running => line' # <<>>)
      /\ \A i \in 1..Len(line') :
           /\ Finds(line'[i], chats, msgs)
           /\ line'[i].kind = "reply" /\ line'[i].chat # None => line'[i].chat # c
  BY <1>1, <1>2, CutLooseKeeps
<1>5. TypeOK'
  BY <1>1, <1>2, <1>3, <1>4 DEF TypeOK
<1>6. TreeWellFormed'
  BY <1>1, <1>3, TreeIs DEF IsTree
<1>7. RepliesHaveChats'
  BY <1>3, <1>4, LineIs DEF Finds
<1>8. SearchesHavePlaces'
  BY <1>1, <1>2, <1>3, SearchesAre DEF HasPlace
<1>9. RunnerIsFirst'
  BY <1>2, <1>4 DEF RunnerIsFirst
<1> QED
  BY <1>5, <1>6, <1>7, <1>8, <1>9 DEF Sound

\* A deletion that fails has cut the turns loose, and the rows stay.
LEMMA DeleteCutKeeps == ASSUME Sound, DeleteCut PROVE Sound'
<1>1. TypeOK /\ TreeWellFormed /\ RepliesHaveChats /\ SearchesHavePlaces /\ RunnerIsFirst
  BY DEF Sound
<1>2. PICK c \in DOMAIN chats : CutLoose(c)
  BY DEF DeleteCut
<1>3. /\ UNCHANGED <<chats, msgs, files, used, running, searches, summaries, restarts>>
      /\ cuts' \in Nat
  BY <1>1 DEF DeleteCut, TypeOK
<1>4. /\ line' \in Seq(TurnType) /\ (running => line' # <<>>)
      /\ \A i \in 1..Len(line') : Finds(line'[i], chats, msgs)
  BY <1>1, <1>2, CutLooseKeeps
<1>5. TypeOK'
  BY <1>1, <1>3, <1>4 DEF TypeOK
<1>6. TreeWellFormed' /\ RepliesHaveChats' /\ SearchesHavePlaces' /\ RunnerIsFirst'
  BY <1>1, <1>3, <1>4, TreeIs, LineIs, SearchesAre DEF RunnerIsFirst
<1> QED
  BY <1>5, <1>6 DEF Sound

\* The migration hangs each message of a chat it takes below the one before it
\* and shows the one after it; these two choices agree.
LEMMA RestartKeeps == ASSUME Sound, Restart PROVE Sound'
<1>1. TypeOK /\ TreeWellFormed /\ IsTree(chats, msgs)
  BY TreeIs DEF Sound
<1>2. /\ chats' = [c \in DOMAIN chats |-> IF c \in Untreed THEN FirstId(Rows(c)) ELSE chats[c]]
      /\ msgs' = [m \in DOMAIN msgs |-> Migrated(m)]
      /\ line' = <<>> /\ running' = FALSE /\ searches' = {} /\ summaries' = {}
      /\ restarts' = restarts + 1 /\ UNCHANGED <<files, used, cuts>>
  BY DEF Restart
<1> DEFINE Before(m) == {k \in Rows(msgs[m].chat) : k < m}
           After(m) == {k \in Rows(msgs[m].chat) : k > m}
<1>3. /\ used.message \in Nat /\ \A m \in DOMAIN msgs : m \in Nat /\ m # None /\ m <= used.message
      /\ \A c : \A k \in Rows(c) : k \in DOMAIN msgs /\ msgs[k].chat = c
      /\ \A m \in DOMAIN msgs : m \in Rows(msgs[m].chat)
  BY <1>1 DEF TypeOK, None, Rows
<1>4. ASSUME NEW m \in DOMAIN msgs, Before(m) # {}
      PROVE  LastId(Before(m)) \in Before(m) /\ \A k \in Before(m) : k <= LastId(Before(m))
  <2>1. Before(m) \in SUBSET (0..used.message)
    BY <1>3
  <2> HIDE DEF Before
  <2> QED
    BY <1>3, <1>4, <2>1, LastIdIs
<1>5. ASSUME NEW m \in DOMAIN msgs, After(m) # {}
      PROVE  FirstId(After(m)) \in After(m) /\ \A k \in After(m) : FirstId(After(m)) <= k
  <2>1. After(m) \in SUBSET Nat
    BY <1>3
  <2> HIDE DEF After
  <2> QED
    BY <1>5, <2>1, FirstIdIs
<1>6. ASSUME NEW c, Rows(c) # {}
      PROVE  FirstId(Rows(c)) \in Rows(c) /\ \A k \in Rows(c) : FirstId(Rows(c)) <= k
  <2>1. Rows(c) \in SUBSET Nat
    BY <1>3
  <2> QED
    BY <1>6, <2>1, FirstIdIs
<1>7. ASSUME NEW m \in DOMAIN msgs
      PROVE  /\ msgs'[m].chat = msgs[m].chat
             /\ msgs[m].chat \notin Untreed => msgs'[m] = msgs[m]
             /\ msgs[m].chat \in Untreed => /\ msgs'[m].parent = LastId(Before(m))
                                            /\ msgs'[m].child = FirstId(After(m))
             /\ msgs'[m] \in MessageType
  <2>1. msgs[m] \in MessageType /\ msgs'[m] = Migrated(m)
    BY <1>1, <1>2 DEF TypeOK
  <2>2. LastId(Before(m)) \in Nat
    <3>1. CASE Before(m) = {}
      BY <3>1 DEF LastId, None
    <3>2. CASE Before(m) # {}
      BY <1>3, <1>4, <3>2
    <3> QED
      BY <3>1, <3>2
  <2>3. FirstId(After(m)) \in Nat
    <3>1. CASE After(m) = {}
      BY <3>1 DEF FirstId, None
    <3>2. CASE After(m) # {}
      BY <1>3, <1>5, <3>2
    <3> QED
      BY <3>1, <3>2
  <2>4. CASE msgs[m].chat \notin Untreed
    BY <2>1, <2>4 DEF Migrated
  <2>5. CASE msgs[m].chat \in Untreed
    <3>1. msgs'[m] = [msgs[m] EXCEPT !.parent = LastId(Before(m)), !.child = FirstId(After(m))]
      BY <2>1, <2>5 DEF Migrated
    <3> HIDE DEF Before, After
    <3> QED
      BY <2>1, <2>2, <2>3, <2>5, <3>1 DEF MessageType
  <2> QED
    BY <2>4, <2>5
<1>8. DOMAIN msgs' = DOMAIN msgs /\ DOMAIN chats' = DOMAIN chats
  BY <1>2
<1>9. ASSUME NEW m \in DOMAIN msgs
      PROVE  /\ msgs'[m].chat \in DOMAIN chats'
             /\ msgs'[m].parent # None =>
                  /\ msgs'[m].parent \in DOMAIN msgs'
                  /\ msgs'[msgs'[m].parent].chat = msgs'[m].chat
                  /\ msgs'[m].parent < m
  <2>1. CASE msgs[m].chat \notin Untreed
    <3>1. msgs'[m] = msgs[m] /\ msgs[m].chat \in DOMAIN chats
      BY <2>1, <1>1, <1>7 DEF IsTree
    <3>2. msgs[m].parent # None =>
            /\ msgs[m].parent \in DOMAIN msgs /\ msgs[msgs[m].parent].chat = msgs[m].chat
            /\ msgs[m].parent < m /\ msgs'[msgs[m].parent] = msgs[msgs[m].parent]
      BY <2>1, <1>1, <1>7 DEF IsTree
    <3> QED
      BY <1>8, <3>1, <3>2
  <2>2. CASE msgs[m].chat \in Untreed
    <3>1. msgs'[m].parent # None => Before(m) # {}
      BY <2>2, <1>7 DEF LastId
    <3>2. msgs'[m].parent # None => msgs'[m].parent \in Before(m)
      BY <2>2, <3>1, <1>4, <1>7
    <3>3. ASSUME NEW k \in Before(m)
          PROVE  k \in DOMAIN msgs' /\ msgs'[k].chat = msgs'[m].chat /\ k < m
      <4>1. k \in DOMAIN msgs /\ msgs[k].chat = msgs[m].chat /\ k < m
        BY <1>3
      <4> QED
        BY <1>7, <1>8, <4>1
    <3>4. msgs'[m].chat \in DOMAIN chats'
      BY <1>1, <1>7, <1>8 DEF IsTree
    <3> HIDE DEF Before
    <3> QED
      BY <3>2, <3>3, <3>4
  <2> QED
    BY <2>1, <2>2
<1>10. ASSUME NEW m \in DOMAIN msgs, msgs'[m].child # None
       PROVE  /\ msgs'[m].child \in DOMAIN msgs'
              /\ msgs'[msgs'[m].child].chat = msgs'[m].chat
              /\ msgs'[msgs'[m].child].parent = m
  <2>1. CASE msgs[m].chat \notin Untreed
    <3>1. msgs'[m] = msgs[m] /\ msgs[m].child # None
      BY <2>1, <1>7, <1>10
    <3>2. /\ msgs[m].child \in DOMAIN msgs /\ msgs[msgs[m].child].chat = msgs[m].chat
          /\ msgs[msgs[m].child].parent = m
      BY <1>1, <3>1 DEF IsTree
    <3>3. msgs'[msgs[m].child] = msgs[msgs[m].child]
      BY <2>1, <1>7, <3>2
    <3> QED
      BY <1>8, <3>1, <3>2, <3>3
  <2>2. CASE msgs[m].chat \in Untreed
    <3> DEFINE k == FirstId(After(m))
    <3>1. After(m) # {} /\ msgs'[m].child = k
      BY <2>2, <1>7, <1>10 DEF FirstId
    <3>2. k \in After(m) /\ \A i \in After(m) : k <= i
      BY <3>1, <1>5
    <3>3. /\ k \in DOMAIN msgs /\ msgs[k].chat = msgs[m].chat /\ m < k
          /\ m \in Before(k)
      BY <3>2, <1>3
    <3>4. LastId(Before(k)) \in Before(k) /\ \A i \in Before(k) : i <= LastId(Before(k))
      BY <3>3, <1>4
    <3>5. LastId(Before(k)) = m
      <4>1. LastId(Before(k)) \in Nat /\ m \in Nat /\ k \in Nat
        BY <3>3, <3>4, <1>3
      <4>2. m <= LastId(Before(k)) /\ LastId(Before(k)) < k
        BY <3>3, <3>4
      <4>3. ~ (m < LastId(Before(k)))
        <5>1. m < LastId(Before(k)) => LastId(Before(k)) \in After(m)
          BY <3>3, <3>4, <4>1
        <5> HIDE DEF k, Before, After
        <5> QED
          BY <3>2, <4>1, <4>2, <5>1
      <4> HIDE DEF k, Before, After
      <4> QED
        BY <4>1, <4>2, <4>3
    <3>6. msgs'[k].chat = msgs'[m].chat /\ msgs'[k].parent = m
      BY <2>2, <3>3, <3>5, <1>7
    <3> QED
      BY <3>1, <3>3, <3>6, <1>8
  <2> QED
    BY <2>1, <2>2
<1>11. ASSUME NEW c \in DOMAIN chats, chats'[c] # None
       PROVE  /\ chats'[c] \in DOMAIN msgs' /\ msgs'[chats'[c]].chat = c
              /\ msgs'[chats'[c]].parent = None
  <2>1. CASE c \notin Untreed
    <3>1. chats'[c] = chats[c]
      BY <2>1, <1>2
    <3>2. chats[c] \in DOMAIN msgs /\ msgs[chats[c]].chat = c /\ msgs[chats[c]].parent = None
      BY <3>1, <1>1, <1>11 DEF IsTree
    <3>3. msgs'[chats[c]] = msgs[chats[c]]
      BY <2>1, <3>2, <1>7
    <3> QED
      BY <1>8, <3>1, <3>2, <3>3
  <2>2. CASE c \in Untreed
    <3> DEFINE k == FirstId(Rows(c))
    <3>1. chats'[c] = k /\ Rows(c) # {}
      BY <2>2, <1>2, <1>11 DEF FirstId
    <3>2. k \in Rows(c) /\ \A i \in Rows(c) : k <= i
      BY <3>1, <1>6
    <3>3. k \in DOMAIN msgs /\ msgs[k].chat = c /\ k \in Nat
      BY <3>2, <1>3
    <3>4. Before(k) = {}
      <4>1. \A i \in Rows(c) : i \in Nat
        BY <1>3
      <4> HIDE DEF k
      <4> QED
        BY <3>2, <3>3, <4>1
    <3>5. msgs'[k].parent = None /\ msgs'[k].chat = c
      BY <2>2, <3>3, <3>4, <1>7 DEF LastId
    <3> QED
      BY <3>1, <3>3, <3>5, <1>8
  <2> QED
    BY <2>1, <2>2
<1>12. ASSUME NEW c \in DOMAIN chats PROVE chats'[c] \in Nat
  <2>1. c \notin Untreed => chats'[c] \in Nat
    BY <1>1, <1>2 DEF TypeOK
  <2>2. c \in Untreed => chats'[c] \in Nat
    <3>1. CASE Rows(c) = {}
      BY <1>2, <3>1 DEF FirstId, None
    <3>2. CASE Rows(c) # {}
      BY <1>2, <1>3, <1>6, <3>2
    <3> QED
      BY <3>1, <3>2
  <2> QED
    BY <2>1, <2>2
<1> HIDE DEF Before, After
<1>13. TypeOK'
  <2>1. line' \in Seq(TurnType)
    BY <1>2
  <2>2. \A m \in DOMAIN msgs' : msgs'[m] \in MessageType
    BY <1>7, <1>8
  <2>3. restarts' \in Nat /\ running' \in BOOLEAN
    <3>1. restarts \in Nat
      BY <1>1 DEF TypeOK
    <3>2. restarts' \in Nat
      BY <1>2, <3>1
    <3>3. running' = FALSE
      BY DEF Restart
    <3> QED
      BY <3>2, <3>3
  <2>4. UNCHANGED <<files, used, cuts>> /\ searches' = {} /\ summaries' = {}
    BY <1>2
  <2> QED
    BY <1>1, <1>8, <1>12, <2>1, <2>2, <2>3, <2>4 DEF TypeOK
<1>14. TreeWellFormed'
  <2>1. IsTree(chats', msgs')
    BY <1>8, <1>9, <1>10, <1>11 DEF IsTree
  <2> QED
    BY <2>1, TreeIs
<1>15. RepliesHaveChats' /\ SearchesHavePlaces' /\ RunnerIsFirst'
  BY <1>2 DEF RepliesHaveChats, SearchesHavePlaces, RunnerIsFirst
<1> QED
  BY <1>13, <1>14, <1>15 DEF Sound

\* The invariant holds of an empty database.
LEMMA InitIsSound == ASSUME Init PROVE Sound
<1>1. TypeOK
  <2>1. DOMAIN chats = {} /\ DOMAIN msgs = {} /\ DOMAIN files = {}
    BY DEF Init
  <2>2. line \in Seq(TurnType)
    BY DEF Init
  <2>3. used \in [chat : Nat, message : Nat, file : Nat]
    BY DEF Init
  <2> QED
    BY <2>1, <2>2, <2>3 DEF Init, TypeOK
<1>2. TreeWellFormed /\ RepliesHaveChats /\ SearchesHavePlaces /\ RunnerIsFirst
  BY DEF Init, TreeWellFormed, RepliesHaveChats, SearchesHavePlaces, RunnerIsFirst
<1> QED
  BY <1>1, <1>2 DEF Sound

\* Every step keeps the invariant.
LEMMA StepIsSound == ASSUME Sound, [Next]_vars PROVE Sound'
<1>1. CASE SendInChat
  BY <1>1, PlacesArePlaced, SendKeeps DEF SendInChat
<1>2. CASE SendNew
  BY <1>2, SendKeeps DEF SendNew, Placed
<1>3. CASE SendCut
  BY <1>3, SendCutKeeps
<1>4. CASE BeginSearch
  BY <1>4, BeginSearchKeeps
<1>5. CASE EndSearch
  BY <1>5, EndSearchKeeps DEF EndSearch
<1>6. CASE Start
  BY <1>6, StartKeeps
<1>7. CASE Drop
  BY <1>7, DropKeeps
<1>8. CASE WriteFile
  BY <1>8, WriteFileKeeps
<1>9. CASE Answer
  <2>1. PICK text \in BOOLEAN : Reply(text, TRUE) /\ UNCHANGED cuts
    BY <1>9 DEF Answer
  <2>2. cuts' \in Nat
    BY <2>1 DEF Sound, TypeOK
  <2> QED
    BY <2>1, <2>2, ReplyKeeps
<1>10. CASE AnswerCut
  <2>1. PICK text \in BOOLEAN : Reply(text, FALSE)
    BY <1>10 DEF AnswerCut
  <2>2. cuts' \in Nat
    BY <1>10 DEF AnswerCut, Sound, TypeOK
  <2> QED
    BY <2>1, <2>2, ReplyKeeps
<1>11. CASE Switch
  BY <1>11, SwitchKeeps
<1>12. CASE Compact
  BY <1>12, CompactKeeps
<1>13. CASE Summarise
  BY <1>13, SummariseKeeps
<1>14. CASE StoreSummary
  BY <1>14, StoreSummaryKeeps
<1>15. CASE Delete
  BY <1>15, DeleteKeeps
<1>16. CASE DeleteCut
  BY <1>16, DeleteCutKeeps
<1>17. CASE Restart
  BY <1>17, RestartKeeps
<1>18. CASE UNCHANGED vars
  <2>1. TypeOK'
    BY <1>18 DEF vars, Sound, TypeOK
  <2>2. TreeWellFormed' /\ RepliesHaveChats' /\ SearchesHavePlaces' /\ RunnerIsFirst'
    BY <1>18, TreeIs, LineIs, SearchesAre DEF vars, Sound, RunnerIsFirst
  <2> QED
    BY <2>1, <2>2 DEF Sound
<1> QED
  BY <1>1, <1>2, <1>3, <1>4, <1>5, <1>6, <1>7, <1>8, <1>9, <1>10, <1>11, <1>12,
     <1>13, <1>14, <1>15, <1>16, <1>17, <1>18 DEF Next

-----------------------------------------------------------------------------
(* What follows *)

\* The tree, the line and the searches are sound in every state.
LEMMA AlwaysSound == Spec => []Sound
<1>1. Init => Sound
  BY InitIsSound
<1>2. Sound /\ [Next]_vars => Sound'
  BY StepIsSound
<1> QED
  BY <1>1, <1>2, PTL DEF Spec

\* Every column keeps its type, and no id is given out twice.
THEOREM ChatsTyped == Spec => []TypeOK
<1>1. Sound => TypeOK
  BY DEF Sound
<1> QED
  BY <1>1, AlwaysSound, PTL

\* However sends, edits, replies, compactions, deletions and restarts fall
\* between each other, and wherever a handler is cut short, a parent is an
\* older message of the same chat, what a message shows is a child of its own,
\* and a chat shows one of its first messages.
THEOREM ChatsStayTrees == Spec => []TreeWellFormed
<1>1. Sound => TreeWellFormed
  BY DEF Sound
<1> QED
  BY <1>1, AlwaysSound, PTL

\* A reply that comes back finds its chat and the message it answers, also
\* when the chat was deleted while it ran: then it is not stored at all.
THEOREM RepliesFindTheirChat == Spec => []RepliesHaveChats
<1>1. Sound => RepliesHaveChats
  BY DEF Sound
<1> QED
  BY <1>1, AlwaysSound, PTL

\* Chats are trees, and what is still to be stored has its place in one.
THEOREM ChatsAndReplies == Spec => []ChatsAreTrees
  BY ChatsStayTrees, RepliesFindTheirChat, PTL DEF ChatsAreTrees

-----------------------------------------------------------------------------
(* Walks *)

\* A set that holds 0 and the successor of each of its numbers holds them all.
LEMMA ByNumber ==
  ASSUME NEW S, 0 \in S, \A n \in Nat : n \in S => n + 1 \in S
  PROVE  Nat \subseteq S
<1> DEFINE missing == {n \in Nat : n \notin S}
<1>1. SUFFICES ASSUME missing # {} PROVE FALSE
  OBVIOUS
<1>2. PICK m \in missing : \A k \in missing : ~ (<<k, m>> \in OpToRel(<, Nat))
  BY <1>1, NatLessThanWellFounded, WFMin
<1>3. m \in Nat /\ m \notin S /\ m # 0
  BY <1>2
<1>4. m - 1 \in Nat /\ m - 1 + 1 = m
  BY <1>3
<1>5. m - 1 \in missing
  BY <1>3, <1>4
<1>6. <<m - 1, m>> \in OpToRel(<, Nat)
  BY <1>3, <1>4 DEF OpToRel
<1> QED
  BY <1>2, <1>5, <1>6

\* Walk has no other rows than those every closed set with its start must
\* have, and has all of these.
LEMMA WalkIs ==
  ASSUME NEW start, NEW next, NEW rows, IsFiniteSet(rows)
  PROVE  /\ Walk(start, next, rows) \subseteq rows
         /\ start \in rows => start \in Walk(start, next, rows)
         /\ \A k \in Walk(start, next, rows) :
              next[k] \in rows => next[k] \in Walk(start, next, rows)
         /\ \A S : /\ start \in rows => start \in S
                   /\ \A k \in S : next[k] \in rows => next[k] \in S
                   => Walk(start, next, rows) \subseteq S
<1> DEFINE met[n \in Nat] ==
             IF n = 0 THEN {start} \cap rows
             ELSE LET S == met[n - 1] IN S \cup ({next[k] : k \in S} \cap rows)
           Chain(n, p) == /\ p \in [0..n -> rows] /\ p[0] = start
                          /\ \A i \in 0..n : i # 0 => p[i] = next[p[i - 1]]
           R(n) == {m \in rows : \E j \in 0..n : \E p : Chain(j, p) /\ p[j] = m}
           F == [n \in Nat |-> R(n)]
<1>1. ASSUME NEW n \in Nat
      PROVE  F[n] = IF n = 0 THEN {start} \cap rows
                    ELSE F[n - 1] \cup ({next[k] : k \in F[n - 1]} \cap rows)
  <2>1. CASE n = 0
    <3>1. ASSUME NEW m \in R(0) PROVE m \in {start} \cap rows
      <4>1. m \in rows /\ \E p : Chain(0, p) /\ p[0] = m
        OBVIOUS
      <4> QED
        BY <4>1
    <3>2. ASSUME start \in rows PROVE start \in R(0)
      <4> DEFINE p == [i \in 0..0 |-> start]
      <4>1. Chain(0, p) /\ p[0] = start
        BY <3>2
      <4>2. 0 \in 0..0
        OBVIOUS
      <4> HIDE DEF Chain, p
      <4> QED
        BY <3>2, <4>1, <4>2
    <3>3. R(0) = {start} \cap rows
      BY <3>1, <3>2
    <3> HIDE DEF R
    <3> QED
      BY <2>1, <3>3
  <2>2. CASE n # 0
    <3>1. n - 1 \in Nat /\ 0..(n - 1) \subseteq 0..n /\ n \in 0..n
      BY <2>2
    <3>2. R(n - 1) \subseteq R(n)
      BY <3>1
    <3>3. ASSUME NEW k \in R(n - 1), next[k] \in rows PROVE next[k] \in R(n)
      <4>1. PICK j \in 0..(n - 1) : \E p : Chain(j, p) /\ p[j] = k
        OBVIOUS
      <4>2. PICK p : Chain(j, p) /\ p[j] = k
        BY <4>1
      <4> DEFINE q == [i \in 0..(j + 1) |-> IF i = j + 1 THEN next[k] ELSE p[i]]
      <4>3. j \in Nat /\ j + 1 \in 0..n
        BY <3>1, <4>1
      <4>4. q \in [0..(j + 1) -> rows] /\ q[0] = start /\ q[j + 1] = next[k]
        BY <3>3, <4>2, <4>3
      <4>5. ASSUME NEW i \in 0..(j + 1), i # 0 PROVE q[i] = next[q[i - 1]]
        <5>1. CASE i = j + 1
          BY <4>2, <4>3, <5>1
        <5>2. CASE i # j + 1
          <6>1. i \in 0..j /\ i - 1 \in 0..(j + 1) /\ i - 1 # j + 1
            BY <4>3, <4>5, <5>2
          <6> QED
            BY <4>2, <4>5, <5>2, <6>1
        <5> QED
          BY <5>1, <5>2
      <4> HIDE DEF q
      <4>6. Chain(j + 1, q) /\ q[j + 1] = next[k]
        BY <4>4, <4>5
      <4> HIDE DEF Chain
      <4> QED
        BY <3>3, <4>3, <4>6
    <3>4. ASSUME NEW m \in R(n), m \notin R(n - 1)
          PROVE  m \in rows /\ \E k \in R(n - 1) : m = next[k]
      <4>1. PICK j \in 0..n : \E p : Chain(j, p) /\ p[j] = m
        OBVIOUS
      <4>2. PICK p : Chain(j, p) /\ p[j] = m
        BY <4>1
      <4>3. m \in rows
        OBVIOUS
      <4>4. j = n
        <5>1. j \in 0..(n - 1) => m \in R(n - 1)
          BY <4>2, <4>3
        <5> HIDE DEF R, Chain
        <5> QED
          BY <3>1, <3>4, <5>1
      <4> DEFINE q == [i \in 0..(n - 1) |-> p[i]]
                 k == p[n - 1]
      <4>5. Chain(n - 1, q) /\ q[n - 1] = k /\ k \in rows
        <5>1. p \in [0..n -> rows] /\ n - 1 \in 0..n /\ n - 1 \in 0..(n - 1) /\ 0 \in 0..(n - 1)
          BY <3>1, <4>2, <4>4
        <5>2. q \in [0..(n - 1) -> rows] /\ q[n - 1] = k /\ k \in rows /\ q[0] = p[0]
          BY <3>1, <5>1
        <5>3. ASSUME NEW i \in 0..(n - 1), i # 0 PROVE q[i] = next[q[i - 1]]
          <6>1. i \in 0..n /\ i - 1 \in 0..(n - 1)
            BY <3>1, <5>3
          <6>2. p[i] = next[p[i - 1]]
            BY <4>2, <4>4, <5>3, <6>1
          <6> QED
            BY <6>1, <6>2
        <5> HIDE DEF q, k
        <5> QED
          BY <4>2, <4>4, <5>2, <5>3
      <4>6. m = next[k]
        BY <2>2, <4>2, <4>4
      <4>7. k \in R(n - 1)
        <5> HIDE DEF q, k, Chain
        <5> QED
          BY <3>1, <4>5
      <4> QED
        BY <4>3, <4>6, <4>7
    <3>5. R(n) = R(n - 1) \cup ({next[k] : k \in R(n - 1)} \cap rows)
      <4>1. R(n) \subseteq rows
        OBVIOUS
      <4> HIDE DEF R
      <4> QED
        BY <3>2, <3>3, <3>4, <4>1
    <3>6. F[n] = R(n) /\ F[n - 1] = R(n - 1)
      <4> HIDE DEF R
      <4> QED
        BY <3>1
    <3> HIDE DEF R, F
    <3> QED
      BY <2>2, <3>5, <3>6
  <2> QED
    BY <2>1, <2>2
<1>2. met = [n \in Nat |-> IF n = 0 THEN {start} \cap rows
                           ELSE LET S == met[n - 1] IN S \cup ({next[k] : k \in S} \cap rows)]
  <2> DEFINE G(f) == [n \in Nat |-> IF n = 0 THEN {start} \cap rows
                                    ELSE f[n - 1] \cup ({next[k] : k \in f[n - 1]} \cap rows)]
  <2>1. F = G(F)
    <3>1. F = [n \in Nat |-> F[n]]
      <4> HIDE DEF R
      <4> QED
        OBVIOUS
    <3> HIDE DEF F
    <3> QED
      BY <1>1, <3>1
  <2>2. met = CHOOSE f : f = G(f)
    BY DEF met
  <2> HIDE DEF F, met
  <2>3. met = G(met)
    <3> HIDE DEF G
    <3> QED
      BY <2>1, <2>2
  <2> QED
    BY <2>3
<1> HIDE DEF F, R, Chain
<1>3. ASSUME NEW n \in Nat
      PROVE  met[n + 1] = met[n] \cup ({next[k] : k \in met[n]} \cap rows)
  <2>1. n + 1 \in Nat /\ n + 1 # 0 /\ (n + 1) - 1 = n
    OBVIOUS
  <2> HIDE DEF met
  <2> QED
    BY <1>2, <2>1
<1>4. met[0] = {start} \cap rows
  <2> HIDE DEF met
  <2> QED
    BY <1>2
<1> DEFINE all == met[Cardinality(rows)]
<1>5. Walk(start, next, rows) = {m \in rows : m \in all}
  BY DEF Walk
<1> HIDE DEF met
<1> DEFINE Full(S) == \A k \in S : next[k] \in rows => next[k] \in S
           Big(n) == /\ met[n] \subseteq rows
                     /\ Full(met[n]) \/ Cardinality(met[n]) > n
           big == {n \in Nat : Big(n)}
<1>6. Big(0)
  <2>1. CASE start \in rows
    <3>1. met[0] = {start}
      BY <1>4, <2>1
    <3>2. Cardinality(met[0]) = 1
      BY <3>1, FS_Singleton
    <3> QED
      BY <2>1, <3>1, <3>2
  <2>2. CASE start \notin rows
    BY <1>4, <2>2
  <2> QED
    BY <2>1, <2>2
<1>7. ASSUME NEW n \in Nat, Big(n) PROVE Big(n + 1)
  <2>1. met[n + 1] \subseteq rows /\ met[n] \subseteq met[n + 1] /\ n + 1 \in Nat
    <3>1. met[n] \subseteq rows
      BY <1>7
    <3> QED
      BY <1>3, <3>1
  <2>2. CASE Full(met[n])
    <3>1. {next[k] : k \in met[n]} \cap rows \subseteq met[n]
      BY <2>2
    <3>2. met[n + 1] = met[n]
      <4> HIDE DEF Full
      <4> QED
        BY <1>3, <3>1
    <3> QED
      BY <2>1, <2>2, <3>2
  <2>3. CASE ~ Full(met[n])
    <3>1. PICK k \in met[n] : next[k] \in rows /\ next[k] \notin met[n]
      BY <2>3
    <3>2. next[k] \in met[n + 1]
      BY <1>3, <3>1
    <3>3. IsFiniteSet(met[n + 1])
      BY <2>1, FS_Subset
    <3>4. /\ Cardinality(met[n]) \in Nat /\ Cardinality(met[n + 1]) \in Nat
          /\ Cardinality(met[n]) < Cardinality(met[n + 1])
      <4>1. met[n] # met[n + 1] /\ IsFiniteSet(met[n])
        BY <2>1, <3>1, <3>2, <3>3, FS_Subset
      <4>2. Cardinality(met[n]) <= Cardinality(met[n + 1])
        BY <2>1, <3>3, FS_Subset
      <4>3. Cardinality(met[n]) # Cardinality(met[n + 1])
        BY <2>1, <3>3, <4>1, FS_Subset
      <4>4. Cardinality(met[n]) \in Nat /\ Cardinality(met[n + 1]) \in Nat
        BY <3>3, <4>1, FS_CardinalityType
      <4> QED
        BY <4>2, <4>3, <4>4
    <3>5. Cardinality(met[n]) > n
      BY <1>7, <2>3
    <3> QED
      BY <2>1, <3>4, <3>5
  <2> QED
    BY <2>2, <2>3
<1>8. Nat \subseteq big
  <2> HIDE DEF Big
  <2>1. 0 \in big /\ \A n \in Nat : n \in big => n + 1 \in big
    BY <1>6, <1>7
  <2> HIDE DEF big
  <2> QED
    BY <2>1, ByNumber
<1>9. Cardinality(rows) \in Nat
  BY FS_CardinalityType
<1>10. all \subseteq rows /\ Full(all)
  <2>1. all \subseteq rows /\ (Full(all) \/ Cardinality(all) > Cardinality(rows))
    <3>1. Big(Cardinality(rows))
      <4> HIDE DEF Big
      <4> QED
        BY <1>8, <1>9
    <3> HIDE DEF Full
    <3> QED
      BY <3>1
  <2>2. IsFiniteSet(all) /\ Cardinality(all) <= Cardinality(rows)
    BY <2>1, FS_Subset
  <2>3. Cardinality(all) \in Nat
    BY <2>2, FS_CardinalityType
  <2> HIDE DEF all, Full
  <2> QED
    BY <1>9, <2>1, <2>2, <2>3
<1>11. start \in rows => start \in all
  <2> DEFINE with == {n \in Nat : start \in rows => start \in met[n]}
  <2>1. 0 \in with /\ \A n \in Nat : n \in with => n + 1 \in with
    BY <1>3, <1>4
  <2>2. Nat \subseteq with
    <3> HIDE DEF with
    <3> QED
      BY <2>1, ByNumber
  <2> QED
    BY <1>9, <2>2
<1>12. ASSUME NEW S, start \in rows => start \in S,
              \A k \in S : next[k] \in rows => next[k] \in S
       PROVE  all \subseteq S
  <2> DEFINE within == {n \in Nat : met[n] \subseteq S}
  <2>1. 0 \in within /\ \A n \in Nat : n \in within => n + 1 \in within
    BY <1>3, <1>4, <1>12
  <2>2. Nat \subseteq within
    <3> HIDE DEF within
    <3> QED
      BY <2>1, ByNumber
  <2> QED
    BY <1>9, <2>2
<1>13. Walk(start, next, rows) = all
  BY <1>5, <1>10
<1> HIDE DEF all
<1> QED
  BY <1>10, <1>11, <1>12, <1>13

-----------------------------------------------------------------------------
(* Branches *)

\* S has the parent of each of its messages.
Closed(ms, S) == \A k \in S : ms[k].parent \in DOMAIN ms => ms[k].parent \in S

\* The message m of the rows ms and all above it; none when m is no row.
Branch(ms, m) ==
  {k \in DOMAIN ms : \A S \in SUBSET DOMAIN ms :
                       (m \in DOMAIN ms => m \in S) /\ Closed(ms, S) => k \in S}

\* A message of a branch has its parent there, which is older and of its chat.
Hung(ms) ==
  \A m \in DOMAIN ms :
    m \in Nat /\ (ms[m].parent \in DOMAIN ms =>
                    ms[m].parent < m /\ ms[ms[m].parent].chat = ms[m].chat)

\* A branch has m and every parent it meets, and is the least set that does.
LEMMA BranchLeast ==
  ASSUME NEW ms, NEW m
  PROVE  /\ Branch(ms, m) \subseteq DOMAIN ms
         /\ m \in DOMAIN ms => m \in Branch(ms, m)
         /\ Closed(ms, Branch(ms, m))
         /\ \A S \in SUBSET DOMAIN ms :
              (m \in DOMAIN ms => m \in S) /\ Closed(ms, S) => Branch(ms, m) \subseteq S
<1>1. Branch(ms, m) \subseteq DOMAIN ms /\ (m \in DOMAIN ms => m \in Branch(ms, m))
  BY DEF Branch
<1>2. \A S \in SUBSET DOMAIN ms :
        (m \in DOMAIN ms => m \in S) /\ Closed(ms, S) => Branch(ms, m) \subseteq S
  BY DEF Branch
<1>3. ASSUME NEW k \in Branch(ms, m), ms[k].parent \in DOMAIN ms
      PROVE  ms[k].parent \in Branch(ms, m)
  <2>1. ASSUME NEW S \in SUBSET DOMAIN ms, m \in DOMAIN ms => m \in S, Closed(ms, S)
        PROVE  ms[k].parent \in S
    <3>1. k \in S
      BY <1>2, <2>1
    <3> QED
      BY <1>3, <2>1, <3>1 DEF Closed
  <2> QED
    BY <1>3, <2>1 DEF Branch
<1> QED
  BY <1>1, <1>2, <1>3 DEF Closed

\* What is no row has nothing above it.
LEMMA NoBranch == ASSUME NEW ms, NEW m, m \notin DOMAIN ms PROVE Branch(ms, m) = {}
<1>1. {} \in SUBSET DOMAIN ms /\ Closed(ms, {})
  BY DEF Closed
<1> QED
  BY <1>1, BranchLeast

\* What lies on the branch of m lies in its chat, and m is its newest.
LEMMA BranchAbove ==
  ASSUME NEW ms, Hung(ms), NEW m \in DOMAIN ms, NEW k \in Branch(ms, m)
  PROVE  k \in DOMAIN ms /\ k <= m /\ ms[k].chat = ms[m].chat
<1> DEFINE S == {i \in DOMAIN ms : i <= m /\ ms[i].chat = ms[m].chat}
<1>1. m \in S /\ S \in SUBSET DOMAIN ms
  BY DEF Hung
<1>2. Closed(ms, S)
  <2>1. ASSUME NEW i \in S, ms[i].parent \in DOMAIN ms PROVE ms[i].parent \in S
    BY <2>1 DEF Hung
  <2> QED
    BY <2>1 DEF Closed
<1> HIDE DEF S
<1>3. k \in S
  BY <1>1, <1>2, BranchLeast
<1> QED
  BY <1>3 DEF S

\* The branch of a message is the message and the branch of its parent.
LEMMA BranchGrows ==
  ASSUME NEW ms, NEW m \in DOMAIN ms
  PROVE  Branch(ms, m) = {m} \cup Branch(ms, ms[m].parent)
<1> DEFINE p == ms[m].parent
<1>1. {m} \cup Branch(ms, p) \in SUBSET DOMAIN ms
  BY BranchLeast
<1>2. Closed(ms, {m} \cup Branch(ms, p))
  <2>1. ASSUME NEW k \in {m} \cup Branch(ms, p), ms[k].parent \in DOMAIN ms
        PROVE  ms[k].parent \in Branch(ms, p)
    <3>1. CASE k = m
      BY <2>1, <3>1, BranchLeast
    <3>2. CASE k \in Branch(ms, p)
      BY <2>1, <3>2, BranchLeast DEF Closed
    <3> QED
      BY <3>1, <3>2
  <2> QED
    BY <2>1 DEF Closed
<1>3. Branch(ms, m) \subseteq {m} \cup Branch(ms, p)
  BY <1>1, <1>2, BranchLeast
<1>4. Branch(ms, p) \subseteq Branch(ms, m)
  <2>1. p \in DOMAIN ms => p \in Branch(ms, m)
    BY BranchLeast DEF Closed
  <2>2. Branch(ms, m) \in SUBSET DOMAIN ms /\ Closed(ms, Branch(ms, m))
    BY BranchLeast
  <2> QED
    BY <2>1, <2>2, BranchLeast
<1> QED
  BY <1>3, <1>4, BranchLeast

\* A branch is one line: above any of its messages are just its older ones.
LEMMA BranchIsLine ==
  ASSUME NEW ms, Hung(ms), NEW m \in DOMAIN ms, NEW k \in Branch(ms, m)
  PROVE  Branch(ms, k) = {i \in Branch(ms, m) : i <= k}
<1> DEFINE B == Branch(ms, m)
           S == {y \in B : \A i \in B : i <= y => i \in Branch(ms, y)}
<1>0. B \in SUBSET DOMAIN ms /\ Closed(ms, B) /\ m \in B
  BY BranchLeast
<1>1. k \in DOMAIN ms
  BY <1>0
<1>2. Branch(ms, k) \subseteq B
  <2> HIDE DEF B
  <2> QED
    BY <1>0, BranchLeast DEF B
<1>3. \A i \in Branch(ms, k) : i <= k
  BY <1>1, BranchAbove
<1>4. m \in S /\ S \in SUBSET DOMAIN ms
  BY <1>0
<1>5. ASSUME NEW y \in S, ms[y].parent \in DOMAIN ms PROVE ms[y].parent \in S
  <2> DEFINE p == ms[y].parent
  <2>1. y \in DOMAIN ms /\ y \in B
    BY <1>0
  <2>2. p \in B /\ p < y /\ p \in Nat /\ y \in Nat
    BY <1>0, <1>5, <2>1 DEF Closed, Hung
  <2>3. ASSUME NEW i \in B, i <= p PROVE i \in Branch(ms, p)
    <3>1. i \in Nat
      BY <1>0 DEF Hung
    <3>2. i <= y /\ i # y
      BY <2>2, <2>3, <3>1
    <3>3. i \in Branch(ms, y)
      BY <3>2
    <3> HIDE DEF p
    <3> QED
      BY <2>1, <3>2, <3>3, BranchGrows DEF p
  <2> HIDE DEF B, p
  <2>4. p \in {z \in B : \A i \in B : i <= z => i \in Branch(ms, z)}
    BY <2>2, <2>3
  <2> QED
    BY <2>4 DEF p
<1>6. k \in S
  <2> HIDE DEF S
  <2>1. Closed(ms, S)
    BY <1>5 DEF Closed
  <2> QED
    BY <1>4, <2>1, BranchLeast
<1> HIDE DEF B
<1> QED
  BY <1>2, <1>3, <1>6 DEF B

\* A branch whose messages keep their places stays what it is.
LEMMA BranchStays ==
  ASSUME NEW ms, NEW mt, NEW m, m \in DOMAIN ms <=> m \in DOMAIN mt,
         \A k \in Branch(ms, m) :
           /\ k \in DOMAIN mt /\ mt[k].parent = ms[k].parent
           /\ ms[k].parent \in DOMAIN mt => ms[k].parent \in DOMAIN ms
  PROVE  Branch(mt, m) = Branch(ms, m)
<1> DEFINE B == Branch(ms, m)
<1>1. B \in SUBSET DOMAIN mt /\ (m \in DOMAIN mt => m \in B)
  BY BranchLeast
<1>2. Closed(mt, B)
  BY BranchLeast DEF Closed
<1>3. Branch(mt, m) \subseteq B
  <2> HIDE DEF B
  <2> QED
    BY <1>1, <1>2, BranchLeast
<1>4. B \subseteq Branch(mt, m)
  <2> DEFINE T == B \cap Branch(mt, m)
  <2>1. T \in SUBSET DOMAIN ms /\ (m \in DOMAIN ms => m \in T)
    BY BranchLeast
  <2>2. ASSUME NEW k \in T, ms[k].parent \in DOMAIN ms PROVE ms[k].parent \in T
    <3>1. ms[k].parent \in B
      BY <2>2, BranchLeast DEF Closed
    <3>2. mt[k].parent = ms[k].parent /\ mt[k].parent \in DOMAIN mt
      BY <1>1, <3>1
    <3>3. mt[k].parent \in Branch(mt, m)
      BY <3>2, BranchLeast DEF Closed
    <3> QED
      BY <3>1, <3>2, <3>3
  <2> HIDE DEF T
  <2>3. Closed(ms, T)
    BY <2>2 DEF Closed
  <2>4. Branch(ms, m) \subseteq T
    BY <2>1, <2>3, BranchLeast
  <2> QED
    BY <2>4 DEF T
<1> HIDE DEF B
<1> QED
  BY <1>3, <1>4 DEF B

\* The rows of a sound tree hang from older ones of their chat.
LEMMA TreeIsHung == ASSUME TypeOK, TreeWellFormed PROVE Hung(msgs)
BY NewIdIs DEF Hung, TreeWellFormed, Rows

\* There are finitely many rows.
LEMMA RowsAreFinite == ASSUME TypeOK, NEW c PROVE IsFiniteSet(Rows(c)) /\ IsFiniteSet(DOMAIN msgs)
<1>1. IsFiniteSet(1..used.message)
  <2>1. used.message \in Nat
    BY DEF TypeOK
  <2> QED
    BY <2>1, FS_Interval
<1>2. Rows(c) \subseteq DOMAIN msgs /\ DOMAIN msgs \subseteq 1..used.message
  BY DEF Rows, TypeOK
<1> QED
  BY <1>1, <1>2, FS_Subset

\* What the code walks from m upwards is the branch of m.
LEMMA PathIs ==
  ASSUME TypeOK, TreeWellFormed, NEW c, NEW m, m \in Rows(c) \/ m = None
  PROVE  PathTo(m, c) = Branch(msgs, m)
<1> DEFINE up == Column("parent")
           W == PathTo(m, c)
           B == Branch(msgs, m)
<1>1. /\ W \subseteq Rows(c) /\ (m \in Rows(c) => m \in W)
      /\ \A k \in W : up[k] \in Rows(c) => up[k] \in W
      /\ \A S : /\ m \in Rows(c) => m \in S
                /\ \A k \in S : up[k] \in Rows(c) => up[k] \in S
                => W \subseteq S
  <2> HIDE DEF up
  <2> QED
    BY RowsAreFinite, WalkIs DEF PathTo, up
<1>2. \A k \in DOMAIN msgs : up[k] = msgs[k].parent
  BY DEF Column
<1> HIDE DEF up
<1>3. /\ Rows(c) \subseteq DOMAIN msgs /\ Hung(msgs)
      /\ \A k \in DOMAIN msgs : k \in Rows(c) <=> msgs[k].chat = c
      /\ m \in Rows(c) <=> m \in DOMAIN msgs
  BY TreeIsHung, NewIdIs DEF Rows
<1>4. \A k \in Rows(c) : msgs[k].parent \in DOMAIN msgs => msgs[k].parent \in Rows(c)
  BY <1>3 DEF Hung
<1>5. B \subseteq W
  <2>1. W \in SUBSET DOMAIN msgs /\ (m \in DOMAIN msgs => m \in W)
    BY <1>1, <1>3
  <2>2. Closed(msgs, W)
    BY <1>1, <1>2, <1>3, <1>4 DEF Closed
  <2> HIDE DEF W
  <2> QED
    BY <2>1, <2>2, BranchLeast
<1>6. W \subseteq B
  <2>1. B \subseteq DOMAIN msgs /\ (m \in DOMAIN msgs => m \in B) /\ Closed(msgs, B)
    BY BranchLeast
  <2>2. \A k \in B : up[k] \in Rows(c) => up[k] \in B
    BY <1>2, <1>3, <2>1 DEF Closed
  <2> HIDE DEF B, W
  <2> QED
    BY <1>1, <1>3, <2>1, <2>2
<1> QED
  BY <1>5, <1>6

\* The path on screen is one line: above any of its messages are its older ones.
LEMMA ScreenIsLine ==
  ASSUME TypeOK, TreeWellFormed, NEW c \in DOMAIN chats, NEW b \in ActivePath(c)
  PROVE  Branch(msgs, b) = {x \in ActivePath(c) : x <= b}
<1> DEFINE down == Column("child")
           W == ActivePath(c)
           r == chats[c]
           B(k) == Branch(msgs, k)
<1>1. /\ W \subseteq Rows(c) /\ (r \in Rows(c) => r \in W)
      /\ \A k \in W : down[k] \in Rows(c) => down[k] \in W
      /\ \A S : /\ r \in Rows(c) => r \in S
                /\ \A k \in S : down[k] \in Rows(c) => down[k] \in S
                => W \subseteq S
  <2> HIDE DEF down
  <2> QED
    BY RowsAreFinite, WalkIs DEF ActivePath, down
<1>2. \A k \in DOMAIN msgs : down[k] = msgs[k].child
  BY DEF Column
<1> HIDE DEF down
<1>3. Rows(c) \subseteq DOMAIN msgs /\ Hung(msgs) /\ \A k \in Rows(c) : k \in Nat /\ msgs[k].chat = c
  BY TreeIsHung, NewIdIs DEF Rows
<1>4. /\ r \in Rows(c) => msgs[r].parent \notin DOMAIN msgs
      /\ \A k \in Rows(c) : down[k] \in Rows(c) =>
           msgs[down[k]].parent = k /\ B(down[k]) = {down[k]} \cup B(k)
  <2>1. r \in Rows(c) => msgs[r].parent \notin DOMAIN msgs
    <3>1. r # None => msgs[r].parent = None
      BY DEF TreeWellFormed
    <3>2. None \notin DOMAIN msgs
      BY NewIdIs
    <3> QED
      BY <1>3, <3>1, <3>2
  <2>2. ASSUME NEW k \in Rows(c), down[k] \in Rows(c) PROVE msgs[down[k]].parent = k
    BY <1>2, <1>3, <2>2, NewIdIs DEF TreeWellFormed
  <2>3. ASSUME NEW k \in Rows(c), down[k] \in Rows(c) PROVE B(down[k]) = {down[k]} \cup B(k)
    BY <1>3, <2>2, <2>3, BranchGrows
  <2> QED
    BY <2>1, <2>2, <2>3
<1>5. r \in Rows(c) => B(r) = {r}
  BY <1>3, <1>4, BranchGrows, NoBranch
<1>6. \A S \in SUBSET W : /\ r \in Rows(c) => r \in S
                          /\ \A k \in S : down[k] \in Rows(c) => down[k] \in S
                          => W = S
  BY <1>1
<1>7. \A k \in W : k \in Rows(c) /\ k \in B(k) /\ B(k) \subseteq DOMAIN msgs
  BY <1>1, <1>3, BranchLeast
<1> HIDE DEF W, r, B
<1>8. \A k \in W : B(k) \subseteq W /\ (r \in Rows(c) => r \in B(k))
  <2> DEFINE S == {k \in W : B(k) \subseteq W /\ (r \in Rows(c) => r \in B(k))}
  <2>1. r \in Rows(c) => r \in S
    BY <1>1, <1>5
  <2>2. ASSUME NEW k \in S, down[k] \in Rows(c) PROVE down[k] \in S
    <3>1. down[k] \in W /\ B(down[k]) = {down[k]} \cup B(k)
      BY <1>1, <1>4, <1>7, <2>2
    <3> QED
      BY <2>2, <3>1
  <2>3. W = S
    BY <1>6, <2>1, <2>2
  <2> QED
    BY <2>3
\* Between two messages of the path, one is above the other.
<1>9. \A k \in W : \A x \in B(k) : x # k => down[x] \in B(k)
  <2> DEFINE S == {k \in W : \A x \in B(k) : x # k => down[x] \in B(k)}
  <2>1. r \in Rows(c) => r \in S
    BY <1>1, <1>5
  <2>2. ASSUME NEW k \in S, down[k] \in Rows(c) PROVE down[k] \in S
    <3>1. down[k] \in W /\ B(down[k]) = {down[k]} \cup B(k)
      BY <1>1, <1>4, <1>7, <2>2
    <3> QED
      BY <2>2, <3>1
  <2>3. W = S
    BY <1>6, <2>1, <2>2
  <2> QED
    BY <2>3
<1>10. \A x \in W : x \in B(b) \/ b \in B(x)
  <2> DEFINE S == {x \in W : x \in B(b) \/ b \in B(x)}
  <2>0. b \in W
    BY DEF W
  <2>1. r \in Rows(c) => r \in S
    BY <1>1, <1>8, <2>0
  <2>2. ASSUME NEW k \in S, down[k] \in Rows(c) PROVE down[k] \in S
    <3>1. down[k] \in W /\ B(down[k]) = {down[k]} \cup B(k) /\ k \in B(k)
      BY <1>1, <1>4, <1>7, <2>2
    <3>2. k \in B(b) => k = b \/ down[k] \in B(b)
      BY <1>9, <2>0
    <3> QED
      BY <2>2, <3>1, <3>2
  <2>3. W = S
    BY <1>6, <2>1, <2>2
  <2> QED
    BY <2>3
<1>11. b \in W /\ \A x \in W : \A k \in B(x) : k <= x
  BY <1>3, <1>7, BranchAbove DEF B, W
<1>12. ASSUME NEW x \in W, x <= b PROVE x \in B(b)
  <2>1. x \in Nat /\ b \in Nat
    BY <1>3, <1>7, <1>11
  <2>2. b \in B(x) => b = x
    BY <1>11, <1>12, <2>1
  <2> QED
    BY <1>7, <1>10, <1>11, <2>2
<1>13. B(b) = {x \in W : x <= b}
  BY <1>8, <1>11, <1>12
<1> QED
  BY <1>13 DEF B, W

\* A prompt tells the branch of m: every message of it that has a text, and
\* none that is not on it, those a summary stands for before the others.
Covers(prompt, ms, m) ==
  /\ prompt.told \cup prompt.verbatim \subseteq Branch(ms, m)
  /\ {k \in Branch(ms, m) : ms[k].text} \subseteq prompt.told \cup prompt.verbatim
  /\ \A i \in prompt.told, j \in prompt.verbatim : i < j

\* What is stored with a message is about its branch, or there is nothing yet:
\* a chat that shows no message has only first ones.
Tells(m, ch, ms) ==
  /\ ms[m].summary # {} => ms[m].summary = Branch(ms, m)
  /\ ms[m].role = "assistant" =>
       ms[m].parent \in DOMAIN ms /\ Covers(ms[m].from, ms, ms[ms[m].parent].parent)
  /\ ch[ms[m].chat] = None =>
       ms[m].parent = None /\ ms[m].role = "user" /\ ms[m].summary = {}

RowsTell == \A m \in DOMAIN msgs : Tells(m, chats, msgs)

\* A line of messages splits into what summaries stand for and what follows.
LEMMA ToldIs ==
  ASSUME TypeOK, RowsTell, NEW path \in SUBSET DOMAIN msgs,
         \A b \in path : Branch(msgs, b) = {x \in path : x <= b}
  PROVE  /\ Told(path) \cup AfterSummary(path) = path
         /\ \A i \in Told(path), j \in AfterSummary(path) : i < j
<1>1. \A x \in path : x \in Nat
  BY NewIdIs
<1>2. CASE SummaryPoint(path) = {}
  <2>1. Told(path) = {} /\ AfterSummary(path) = path
    BY <1>2 DEF Told, AfterSummary
  <2> QED
    BY <2>1
<1>3. CASE SummaryPoint(path) # {}
  <2>1. PICK b \in SummaryPoint(path) : TRUE
    BY <1>3
  <2>2. b \in path /\ msgs[b].summary # {} /\ \A a \in path : msgs[a].summary # {} => a <= b
    BY <2>1 DEF SummaryPoint
  <2>3. SummaryPoint(path) = {b}
    <3>1. ASSUME NEW a \in SummaryPoint(path) PROVE a = b
      <4>1. a \in path /\ msgs[a].summary # {} /\ b <= a
        BY <2>2 DEF SummaryPoint
      <4>2. a <= b /\ a \in Nat /\ b \in Nat
        BY <1>1, <2>2, <4>1
      <4> QED
        BY <4>1, <4>2
    <3> QED
      BY <2>1, <3>1
  <2>4. Told(path) = {x \in path : x <= b}
    <3>1. Told(path) = msgs[b].summary
      BY <2>3 DEF Told
    <3>2. msgs[b].summary = Branch(msgs, b)
      BY <2>2 DEF RowsTell, Tells
    <3> QED
      BY <2>2, <3>1, <3>2
  <2>5. AfterSummary(path) = {x \in path : x > b}
    BY <2>3 DEF AfterSummary
  <2>6. Told(path) \cup AfterSummary(path) = path
    <3>1. \A x \in path : x <= b \/ x > b
      BY <1>1, <2>2
    <3> QED
      BY <2>4, <2>5, <3>1
  <2>7. ASSUME NEW i \in Told(path), NEW j \in AfterSummary(path) PROVE i < j
    <3>1. i \in Nat /\ j \in Nat /\ b \in Nat /\ i <= b /\ j > b
      BY <1>1, <2>2, <2>4, <2>5
    <3> QED
      BY <3>1
  <2> QED
    BY <2>6, <2>7
<1> QED
  BY <1>2, <1>3

\* What a message is sent with tells the branch above its place.
LEMMA HistoryCovers ==
  ASSUME TypeOK, TreeWellFormed, RowsTell, NEW c, NEW p, p \in Rows(c) \/ p = None
  PROVE  Covers(History(PathTo(p, c)), msgs, p)
<1> DEFINE path == PathTo(p, c)
<1>1. path = Branch(msgs, p)
  BY PathIs
<1>2. path \in SUBSET DOMAIN msgs /\ \A b \in path : Branch(msgs, b) = {x \in path : x <= b}
  <2>1. CASE p \in DOMAIN msgs
    BY <1>1, <2>1, BranchLeast, BranchIsLine, TreeIsHung
  <2>2. CASE p \notin DOMAIN msgs
    BY <1>1, <2>2, NoBranch
  <2> QED
    BY <2>1, <2>2
<1> HIDE DEF path
<1>3. /\ Told(path) \cup AfterSummary(path) = path
      /\ \A i \in Told(path), j \in AfterSummary(path) : i < j
  BY <1>2, ToldIs
<1>4. /\ History(path).told = Told(path)
      /\ History(path).verbatim = {m \in AfterSummary(path) : msgs[m].text}
  BY DEF History
<1> QED
  BY <1>1, <1>3, <1>4 DEF Covers, path

\* What a summary is written from is the branch of the message it is for.
LEMMA TranscriptIs ==
  ASSUME TypeOK, TreeWellFormed, RowsTell, TreeAssumption, NEW c \in DOMAIN chats,
         NEW b \in ToCompact(ActivePath(c)), \A m \in ToCompact(ActivePath(c)) : m <= b
  PROVE  b \in Rows(c) /\ Transcript(ActivePath(c)) = Branch(msgs, b)
<1> DEFINE path == ActivePath(c)
           rows == AfterSummary(path)
           Later(m) == {k \in rows : k > m}
<1>1. path \subseteq Rows(c) /\ Rows(c) \subseteq DOMAIN msgs
  BY DEF ActivePath, Walk, Rows
<1>2. \A x \in path : Branch(msgs, x) = {i \in path : i <= x}
  BY ScreenIsLine
<1>3. /\ Told(path) \cup rows = path
      /\ \A i \in Told(path), j \in rows : i < j
  <2> HIDE DEF path
  <2> QED
    BY <1>1, <1>2, ToldIs
<1>4. ToCompact(path) = {m \in rows : Cardinality(Later(m)) >= KeepRecent}
  BY DEF ToCompact
<1>5. b \in rows /\ rows \subseteq path /\ b \in path
  BY <1>3, <1>4
<1>6. \A x \in path : x \in Nat
  BY <1>1, NewIdIs
<1>7. ASSUME NEW x \in rows, x <= b PROVE x \in ToCompact(path)
  <2>1. IsFiniteSet(rows)
    <3>1. IsFiniteSet(Rows(c))
      BY RowsAreFinite
    <3> QED
      BY <1>1, <1>5, <3>1, FS_Subset
  <2>2. Later(b) \subseteq Later(x) /\ IsFiniteSet(Later(x)) /\ IsFiniteSet(Later(b))
    <3>1. ASSUME NEW k \in rows, k > b PROVE k > x
      <4>1. k \in Nat /\ x \in Nat /\ b \in Nat
        BY <1>5, <1>6
      <4> QED
        BY <1>7, <3>1, <4>1
    <3>2. Later(b) \subseteq Later(x)
      <4> HIDE DEF rows
      <4> QED
        BY <3>1
    <3>3. Later(x) \subseteq rows /\ Later(b) \subseteq rows
      OBVIOUS
    <3> HIDE DEF rows, Later
    <3> QED
      BY <2>1, <3>2, <3>3, FS_Subset
  <2>3. Cardinality(Later(b)) >= KeepRecent
    BY <1>4
  <2> HIDE DEF Later, rows
  <2>4. /\ Cardinality(Later(b)) <= Cardinality(Later(x))
        /\ Cardinality(Later(b)) \in Nat /\ Cardinality(Later(x)) \in Nat
    BY <2>2, FS_Subset, FS_CardinalityType
  <2>5. KeepRecent \in Nat
    BY TreeAssumption DEF TreeAssumption
  <2>6. Cardinality(Later(x)) >= KeepRecent
    BY <2>3, <2>4, <2>5
  <2> QED
    BY <1>4, <2>6
<1>8. Told(path) \cup ToCompact(path) = {i \in path : i <= b}
  <2>1. \A i \in Told(path) : i \in path /\ i < b /\ i \in Nat /\ b \in Nat
    BY <1>3, <1>5, <1>6
  <2>2. \A i \in ToCompact(path) : i \in path /\ i <= b
    BY <1>4, <1>5
  <2>3. ASSUME NEW i \in path, i <= b PROVE i \in Told(path) \cup ToCompact(path)
    <3> HIDE DEF path, rows
    <3> QED
      BY <1>3, <1>7, <2>3
  <2> HIDE DEF path
  <2> QED
    BY <2>1, <2>2, <2>3
<1> QED
  BY <1>1, <1>2, <1>5, <1>8 DEF Transcript

-----------------------------------------------------------------------------
(* What is written about branches, and what is about to be *)

\* A summary that is written, or is to be, stands for the branch of its
\* message, when that is still there; its chat shows something.
Stands(s, ch, ms, n) ==
  /\ s.boundary <= n
  /\ s.boundary \in DOMAIN ms =>
       s.of = Branch(ms, s.boundary) /\ ch[ms[s.boundary].chat] # None

\* So with the prompt of a turn, and the branch above the message it answers.
Belongs(t, ch, ms, n) ==
  /\ t.kind = "compaction" => Stands(t, ch, ms, n)
  /\ t.kind = "reply" =>
       /\ t.message <= n
       /\ t.message \in DOMAIN ms =>
            /\ ch[ms[t.message].chat] # None
            /\ Covers(t.prompt, ms, ms[t.message].parent)

\* And with the prompt a waiting send has chosen.
Waits(s, ch, ms) ==
  s.chat \in DOMAIN ch =>
    Covers(s.prompt, ms, s.parent) /\ (s.parent # None => ch[s.chat] # None)

Whole ==
  /\ RowsTell
  /\ \A i \in 1..Len(line) : Belongs(line[i], chats, msgs, used.message)
  /\ \A s \in searches : Waits(s, chats, msgs)
  /\ \A s \in summaries : Stands(s, chats, msgs, used.message)

\* A message is what it was, but for what it shows and what sums it up.
SameWords(m) ==
  /\ msgs'[m].chat = msgs[m].chat /\ msgs'[m].role = msgs[m].role
  /\ msgs'[m].text = msgs[m].text /\ msgs'[m].parent = msgs[m].parent
  /\ msgs'[m].from = msgs[m].from

\* The rows that stay are the same, with their branches; others are new.
Onward ==
  /\ used.message <= used'.message
  /\ \A m \in DOMAIN msgs' : m \in DOMAIN msgs \/ m > used.message
  /\ \A m \in DOMAIN msgs \cap DOMAIN msgs' :
       SameWords(m) /\ Branch(msgs', m) = Branch(msgs, m)
  /\ \A c \in DOMAIN chats \cap DOMAIN chats' : chats[c] # None => chats'[c] # None

\* A parent does not go without its replies, so a branch stays whole.
LEMMA OnwardIs ==
  ASSUME Sound, Sound', used.message <= used'.message,
         \A m \in DOMAIN msgs' : m \in DOMAIN msgs \/ m > used.message,
         \A m \in DOMAIN msgs \cap DOMAIN msgs' :
           SameWords(m) /\ (msgs[m].parent \in DOMAIN msgs => msgs[m].parent \in DOMAIN msgs'),
         \A c \in DOMAIN chats \cap DOMAIN chats' : chats[c] # None => chats'[c] # None
  PROVE  Onward
<1> DEFINE both == DOMAIN msgs \cap DOMAIN msgs'
<1>1. ASSUME NEW m \in both PROVE Branch(msgs', m) = Branch(msgs, m)
  <2>1. both \in SUBSET DOMAIN msgs /\ Closed(msgs, both) /\ m \in both
    BY DEF Closed
  <2>2. Branch(msgs, m) \subseteq both
    <3> HIDE DEF both
    <3> QED
      BY <2>1, BranchLeast
  <2>3. ASSUME NEW k \in both, msgs[k].parent \in DOMAIN msgs' PROVE msgs[k].parent \in DOMAIN msgs
    <3>1. msgs[k].parent = None \/ msgs[k].parent \in DOMAIN msgs
      BY TreeIs DEF Sound, IsTree
    <3>2. None \notin DOMAIN msgs'
      BY DEF Sound, TypeOK, None
    <3> QED
      BY <2>3, <3>1, <3>2
  <2>4. \A k \in both : msgs'[k].parent = msgs[k].parent
    BY DEF SameWords
  <2>5. m \in DOMAIN msgs <=> m \in DOMAIN msgs'
    OBVIOUS
  <2>6. \A k \in both : k \in DOMAIN msgs'
    OBVIOUS
  <2> HIDE DEF both
  <2> QED
    BY <2>2, <2>3, <2>4, <2>5, <2>6, BranchStays
<1> QED
  BY <1>1 DEF Onward

\* What was about a branch is about it still.
LEMMA OnwardCovers ==
  ASSUME Sound, Sound', Onward, NEW prompt, NEW m, Covers(prompt, msgs, m),
         m = None \/ m \in DOMAIN msgs \cap DOMAIN msgs'
  PROVE  Covers(prompt, msgs', m)
<1>1. Branch(msgs', m) = Branch(msgs, m)
  <2>1. CASE m = None
    <3>1. m \notin DOMAIN msgs /\ m \notin DOMAIN msgs'
      BY <2>1 DEF Sound, TypeOK, None
    <3> QED
      BY <3>1, NoBranch
  <2>2. CASE m \in DOMAIN msgs \cap DOMAIN msgs'
    BY <2>2 DEF Onward
  <2> QED
    BY <2>1, <2>2
<1>2. \A k \in Branch(msgs, m) : msgs'[k].text = msgs[k].text
  <2>1. Branch(msgs, m) \subseteq DOMAIN msgs \cap DOMAIN msgs'
    BY <1>1, BranchLeast
  <2> QED
    BY <2>1 DEF Onward, SameWords
<1> QED
  BY <1>1, <1>2 DEF Covers

\* The parent of a message that stays is none, or stays.
LEMMA ParentStays ==
  ASSUME Sound, Onward, NEW m \in DOMAIN msgs \cap DOMAIN msgs'
  PROVE  msgs[m].parent = None \/ msgs[m].parent \in DOMAIN msgs \cap DOMAIN msgs'
<1>1. msgs[m].parent = None \/ msgs[m].parent \in DOMAIN msgs
  BY TreeIs DEF Sound, IsTree
<1>2. msgs[m].parent \in DOMAIN msgs => msgs[m].parent \in Branch(msgs, m)
  BY BranchLeast DEF Closed
<1>3. Branch(msgs, m) \subseteq DOMAIN msgs'
  BY BranchLeast DEF Onward
<1> QED
  BY <1>1, <1>2, <1>3

\* A chat that showed something shows something.
LEMMA StillShows ==
  ASSUME Sound, Sound', Onward, NEW m \in DOMAIN msgs \cap DOMAIN msgs'
  PROVE  /\ msgs'[m].chat = msgs[m].chat
         /\ chats[msgs[m].chat] # None => chats'[msgs[m].chat] # None
<1>1. msgs'[m].chat = msgs[m].chat
  BY DEF Onward, SameWords
<1>2. msgs[m].chat \in DOMAIN chats /\ msgs'[m].chat \in DOMAIN chats'
  BY TreeIs DEF Sound, IsTree
<1> QED
  BY <1>1, <1>2 DEF Onward

\* A summary that is to be stored stands for the same branch afterwards.
LEMMA OnwardStands ==
  ASSUME Sound, Sound', Onward, NEW s, s.boundary \in Nat,
         Stands(s, chats, msgs, used.message)
  PROVE  Stands(s, chats', msgs', used'.message)
<1>1. used.message \in Nat /\ used'.message \in Nat /\ used.message <= used'.message
  BY DEF Sound, TypeOK, Onward
<1>2. s.boundary <= used'.message
  BY <1>1 DEF Stands
<1>3. ASSUME s.boundary \in DOMAIN msgs'
      PROVE  s.of = Branch(msgs', s.boundary) /\ chats'[msgs'[s.boundary].chat] # None
  <2>1. s.boundary \in DOMAIN msgs \cap DOMAIN msgs'
    BY <1>1, <1>3 DEF Stands, Onward
  <2>2. s.of = Branch(msgs, s.boundary) /\ chats[msgs[s.boundary].chat] # None
    BY <2>1 DEF Stands
  <2> QED
    BY <2>1, <2>2, StillShows DEF Onward
<1> QED
  BY <1>2, <1>3 DEF Stands

\* A turn that waits or runs is told the same branch afterwards.
LEMMA OnwardBelongs ==
  ASSUME Sound, Sound', Onward, NEW t \in TurnType, Belongs(t, chats, msgs, used.message)
  PROVE  Belongs(t, chats', msgs', used'.message)
<1>1. used.message \in Nat /\ used'.message \in Nat /\ used.message <= used'.message
  BY DEF Sound, TypeOK, Onward
<1>2. ASSUME t.kind = "compaction" PROVE Stands(t, chats', msgs', used'.message)
  <2>1. t.boundary \in Nat
    BY <1>2 DEF TurnType
  <2> QED
    BY <1>2, <2>1, OnwardStands DEF Belongs
<1>3. ASSUME t.kind = "reply"
      PROVE  /\ t.message <= used'.message
             /\ t.message \in DOMAIN msgs' =>
                  /\ chats'[msgs'[t.message].chat] # None
                  /\ Covers(t.prompt, msgs', msgs'[t.message].parent)
  <2>1. t.message \in Nat
    BY <1>3 DEF TurnType
  <2>2. t.message <= used.message
    BY <1>3 DEF Belongs
  <2>3. ASSUME t.message \in DOMAIN msgs'
        PROVE  /\ chats'[msgs'[t.message].chat] # None
               /\ Covers(t.prompt, msgs', msgs'[t.message].parent)
    <3>1. t.message \in DOMAIN msgs \cap DOMAIN msgs'
      BY <1>1, <2>1, <2>2, <2>3 DEF Onward
    <3>2. chats[msgs[t.message].chat] # None /\ Covers(t.prompt, msgs, msgs[t.message].parent)
      BY <1>3, <3>1 DEF Belongs
    <3>3. Covers(t.prompt, msgs', msgs[t.message].parent)
      BY <3>1, <3>2, ParentStays, OnwardCovers
    <3>4. msgs'[t.message].parent = msgs[t.message].parent
      BY <3>1 DEF Onward, SameWords
    <3> QED
      BY <3>1, <3>2, <3>3, <3>4, StillShows
  <2> QED
    BY <1>1, <2>1, <2>2, <2>3
<1> QED
  BY <1>2, <1>3 DEF Belongs

\* So is a send that waits for its search.
LEMMA OnwardWaits ==
  ASSUME Sound, Sound', Onward, NEW s \in searches, s \in searches', Waits(s, chats, msgs),
         \A c \in DOMAIN chats' : c \in DOMAIN chats \/ c > used.chat
  PROVE  Waits(s, chats', msgs')
<1> SUFFICES ASSUME s.chat \in DOMAIN chats'
             PROVE  Covers(s.prompt, msgs', s.parent) /\ (s.parent # None => chats'[s.chat] # None)
  BY DEF Waits
<1>1. s.chat \in DOMAIN chats
  <2>1. s.chat <= used.chat /\ s.chat \in Nat /\ used.chat \in Nat
    BY DEF Sound, SearchesHavePlaces, TypeOK
  <2> QED
    BY <2>1
<1>2. s.parent = None \/ s.parent \in DOMAIN msgs \cap DOMAIN msgs'
  BY <1>1, SearchesAre DEF Sound, HasPlace
<1>3. Covers(s.prompt, msgs', s.parent)
  BY <1>1, <1>2, OnwardCovers DEF Waits
<1> QED
  BY <1>1, <1>3 DEF Waits, Onward

\* What a message says of its branch stays true of it.
LEMMA OnwardTells ==
  ASSUME Sound, Sound', Onward, NEW m \in DOMAIN msgs \cap DOMAIN msgs',
         Tells(m, chats, msgs), msgs'[m].summary = msgs[m].summary
  PROVE  Tells(m, chats', msgs')
<1>1. /\ SameWords(m) /\ Branch(msgs', m) = Branch(msgs, m)
      /\ msgs'[m].chat = msgs[m].chat
      /\ chats[msgs[m].chat] # None => chats'[msgs[m].chat] # None
  BY StillShows DEF Onward
<1>2. ASSUME msgs[m].role = "assistant"
      PROVE  /\ msgs[m].parent \in DOMAIN msgs'
             /\ Covers(msgs[m].from, msgs', msgs'[msgs[m].parent].parent)
  <2> DEFINE p == msgs[m].parent
  <2>1. p \in DOMAIN msgs /\ Covers(msgs[m].from, msgs, msgs[p].parent)
    BY <1>2 DEF Tells
  <2>2. p \in DOMAIN msgs \cap DOMAIN msgs'
    <3>1. None \notin DOMAIN msgs
      BY DEF Sound, TypeOK, None
    <3> QED
      BY <2>1, <3>1, ParentStays
  <2> HIDE DEF p
  <2>3. Covers(msgs[m].from, msgs', msgs[p].parent)
    BY <2>1, <2>2, ParentStays, OnwardCovers
  <2>4. msgs'[p].parent = msgs[p].parent
    BY <2>2 DEF Onward, SameWords
  <2> QED
    BY <2>2, <2>3, <2>4 DEF p
<1> QED
  BY <1>1, <1>2 DEF Tells, SameWords

\* A new row changes nothing of the others but what one of them shows.
LEMMA InsertedWords ==
  ASSUME TypeOK, NEW row, NEW linked, msgs' = Inserted(NewId, row, linked)
  PROVE  /\ \A m \in DOMAIN msgs : SameWords(m) /\ msgs'[m].summary = msgs[m].summary
         /\ DOMAIN msgs' = DOMAIN msgs \cup {NewId} /\ msgs'[NewId] = row
<1>1. ASSUME NEW m \in DOMAIN msgs
      PROVE  SameWords(m) /\ msgs'[m].summary = msgs[m].summary
  <2>1. msgs[m] \in MessageType
    BY DEF TypeOK
  <2>2. msgs'[m] = IF linked /\ m = row.parent
                   THEN [msgs[m] EXCEPT !.child = NewId] ELSE msgs[m]
    BY NewIdIs DEF Inserted
  <2>3. CASE linked /\ m = row.parent
    <3>1. msgs'[m] = [msgs[m] EXCEPT !.child = NewId]
      BY <2>2, <2>3
    <3> QED
      BY <2>1, <3>1 DEF MessageType, SameWords
  <2>4. CASE ~ (linked /\ m = row.parent)
    BY <2>2, <2>4 DEF SameWords
  <2> QED
    BY <2>3, <2>4
<1> QED
  BY <1>1 DEF Inserted

\* A tree that grew is the old one with a row more.
LEMMA GrownOnward ==
  ASSUME Sound, Sound', NEW row, NEW linked, msgs' = Inserted(NewId, row, linked),
         used'.message = NewId,
         \A c \in DOMAIN chats \cap DOMAIN chats' : chats[c] # None => chats'[c] # None
  PROVE  Onward
<1>1. TypeOK
  BY DEF Sound
<1>2. /\ \A m \in DOMAIN msgs : SameWords(m)
      /\ DOMAIN msgs' = DOMAIN msgs \cup {NewId}
  BY <1>1, InsertedWords
<1>3. NewId = used.message + 1 /\ used.message \in Nat
  BY <1>1, NewIdIs DEF TypeOK
<1>4. used.message <= used'.message /\ \A m \in DOMAIN msgs' : m \in DOMAIN msgs \/ m > used.message
  BY <1>2, <1>3
<1> QED
  BY <1>2, <1>4, OnwardIs

\* Between two steps of the database the rows do not change.
LEMMA IdleOnward ==
  ASSUME Sound, Sound', UNCHANGED <<chats, used>>, DOMAIN msgs' = DOMAIN msgs,
         \A m \in DOMAIN msgs : SameWords(m)
  PROVE  Onward
<1>1. used.message <= used'.message
  BY DEF Sound, TypeOK
<1> QED
  BY <1>1, OnwardIs

\* A line of old turns, and of new ones that belong, belongs.
LEMMA LineBelongs ==
  ASSUME Sound, Sound', Whole, Onward,
         \A i \in 1..Len(line') :
           \/ \E j \in 1..Len(line) : line'[i] = line[j]
           \/ Belongs(line'[i], chats, msgs, used.message)
           \/ Belongs(line'[i], chats', msgs', used'.message)
  PROVE  \A i \in 1..Len(line') : Belongs(line'[i], chats', msgs', used'.message)
<1>1. ASSUME NEW i \in 1..Len(line') PROVE Belongs(line'[i], chats', msgs', used'.message)
  <2>1. line'[i] \in TurnType
    BY DEF Sound, TypeOK
  <2>2. \A j \in 1..Len(line) : Belongs(line[j], chats, msgs, used.message)
    BY DEF Whole
  <2> QED
    BY <2>1, <2>2, OnwardBelongs
<1> QED
  BY <1>1

\* Summaries that are to be stored stand after the step.
LEMMA SummariesStand ==
  ASSUME Sound, Sound', Whole, Onward, NEW s \in summaries
  PROVE  Stands(s, chats', msgs', used'.message)
<1>1. s.boundary \in Nat
  BY DEF Sound, TypeOK
<1> QED
  BY <1>1, OnwardStands DEF Whole

\* Waiting sends wait for the same place after the step.
LEMMA SearchesWait ==
  ASSUME Sound, Sound', Whole, Onward, NEW s \in searches, s \in searches',
         \A c \in DOMAIN chats' : c \in DOMAIN chats \/ c > used.chat
  PROVE  Waits(s, chats', msgs')
BY OnwardWaits DEF Whole

\* A message and its place are written.
LEMMA PersistOnward ==
  ASSUME Sound, Sound', NEW c, NEW parent, NEW linked \in BOOLEAN,
         Placed(c, parent), Persist(c, parent, linked)
  PROVE  Onward
<1> DEFINE row == Message(c, "user", TRUE, parent, NoPrompt)
<1>1. TypeOK /\ TreeWellFormed
  BY DEF Sound
<1>2. msgs' = Inserted(NewId, row, linked) /\ used'.message = NewId
  BY <1>1, PersistKeeps DEF Persist
<1>3. \A d \in DOMAIN chats : chats[d] # None => chats'[d] # None
  BY <1>1, NewIdIs DEF Persist
<1> HIDE DEF row
<1> QED
  BY <1>2, <1>3, GrownOnward

\* A message written in its place, with the turn that answers it.
LEMMA WrittenWhole ==
  ASSUME Sound, Sound', Whole, NEW c, NEW parent, NEW linked \in BOOLEAN,
         Placed(c, parent), parent # None => chats[c] # None, Persist(c, parent, linked),
         \/ line' = line
         \/ linked /\ \E t \in TurnType :
              /\ t.kind = "reply" /\ t.message = NewId /\ Covers(t.prompt, msgs, parent)
              /\ line' = Append(line, t),
         searches' \subseteq searches, UNCHANGED summaries
  PROVE  Whole'
<1> DEFINE row == Message(c, "user", TRUE, parent, NoPrompt)
<1>1. TypeOK /\ TreeWellFormed /\ TypeOK'
  BY DEF Sound
<1>2. /\ msgs' = Inserted(NewId, row, linked) /\ used'.message = NewId
      /\ DOMAIN chats' = DOMAIN chats \cup {c}
  BY <1>1, PersistKeeps DEF Persist
<1>3. /\ row.chat = c /\ row.parent = parent /\ row.role = "user" /\ row.summary = {}
  BY DEF Message
<1>4. NewId # None /\ NewId \notin DOMAIN msgs /\ NewId = used.message + 1 /\ used.message \in Nat
  BY <1>1, NewIdIs DEF TypeOK
<1>5. /\ \A d \in DOMAIN chats : chats[d] # None => chats'[d] # None
      /\ parent = None /\ linked => chats'[c] # None
  BY <1>4 DEF Persist
<1> HIDE DEF row
<1>6. Onward
  BY PersistOnward
<1>7. /\ \A m \in DOMAIN msgs : SameWords(m) /\ msgs'[m].summary = msgs[m].summary
      /\ DOMAIN msgs' = DOMAIN msgs \cup {NewId} /\ msgs'[NewId] = row
  BY <1>1, <1>2, InsertedWords
<1>8. parent # None => c \in DOMAIN chats /\ parent \in DOMAIN msgs /\ chats'[c] # None
  BY <1>5 DEF Placed
<1>9. RowsTell'
  <2>1. ASSUME NEW m \in DOMAIN msgs PROVE Tells(m, chats', msgs')
    BY <1>6, <1>7, OnwardTells DEF Whole, RowsTell
  <2>2. Tells(NewId, chats', msgs')
    BY <1>3, <1>7, <1>8 DEF Tells
  <2> QED
    BY <1>7, <2>1, <2>2 DEF RowsTell
<1>10. \A i \in 1..Len(line') : Belongs(line'[i], chats', msgs', used'.message)
  <2>1. CASE line' = line
    BY <1>6, <2>1, LineBelongs
  <2>2. CASE linked /\ \E t \in TurnType :
              /\ t.kind = "reply" /\ t.message = NewId /\ Covers(t.prompt, msgs, parent)
              /\ line' = Append(line, t)
    <3>1. PICK t \in TurnType :
              /\ t.kind = "reply" /\ t.message = NewId /\ Covers(t.prompt, msgs, parent)
              /\ line' = Append(line, t)
      BY <2>2
    <3>2. Covers(t.prompt, msgs', parent)
      BY <1>6, <1>7, <1>8, <3>1, OnwardCovers
    <3>3. Belongs(t, chats', msgs', used'.message)
      <4>1. t.message <= used'.message
        BY <1>2, <1>4, <3>1
      <4>2. chats'[msgs'[NewId].chat] # None /\ msgs'[NewId].parent = parent
        BY <1>3, <1>5, <1>7, <1>8, <2>2
      <4> QED
        BY <3>1, <3>2, <4>1, <4>2 DEF Belongs
    <3>4. ASSUME NEW i \in 1..Len(line')
          PROVE  (\E j \in 1..Len(line) : line'[i] = line[j]) \/ line'[i] = t
      <4>1. line \in Seq(TurnType)
        BY <1>1 DEF TypeOK
      <4> QED
        BY <3>1, <4>1
    <3> QED
      BY <1>6, <3>3, <3>4, LineBelongs
  <2> QED
    BY <2>1, <2>2
<1>11. \A s \in searches' : Waits(s, chats', msgs')
  <2>1. \A d \in DOMAIN chats' : d \in DOMAIN chats \/ d > used.chat
    <3>1. c \in DOMAIN chats \/ c > used.chat
      <4>1. used.chat \in Nat
        BY <1>1 DEF TypeOK
      <4> QED
        BY <4>1 DEF Placed
    <3> QED
      BY <1>2, <3>1
  <2> QED
    BY <1>6, <2>1, SearchesWait
<1>12. \A s \in summaries' : Stands(s, chats', msgs', used'.message)
  BY <1>6, SummariesStand
<1> QED
  BY <1>9, <1>10, <1>11, <1>12 DEF Whole

\* A chat that shows nothing has no place but that of a first message.
LEMMA PlacesShow ==
  ASSUME Sound, Whole, NEW c \in DOMAIN chats, NEW parent \in Places(c), parent # None
  PROVE  chats[c] # None
<1>1. TypeOK /\ TreeWellFormed
  BY DEF Sound
<1>2. None \notin DOMAIN msgs /\ Rows(c) \subseteq DOMAIN msgs
  BY <1>1, NewIdIs DEF Rows
<1>3. ASSUME chats[c] = None, NEW m \in Rows(c) PROVE msgs[m].parent = None
  BY <1>3 DEF Rows, Whole, RowsTell, Tells
<1>4. ASSUME chats[c] = None PROVE Tips(c) = {None}
  <2>1. ActivePath(c) \subseteq Rows(c)
    BY PathsAreRows
  <2>2. ASSUME NEW m \in ActivePath(c) PROVE FALSE
    <3> DEFINE Full(S) ==
                 /\ None \in Rows(c) => None \in S
                 /\ \A k \in S : Column("child")[k] \in Rows(c) => Column("child")[k] \in S
    <3>1. IsFiniteSet(Rows(c)) /\ None \notin Rows(c)
      BY <1>1, <1>2, RowsAreFinite
    <3>2. \A S : Full(S) => ActivePath(c) \subseteq S
      BY <1>4, <3>1, WalkIs DEF ActivePath
    <3>3. ActivePath(c) \subseteq {}
      <4>1. Full({})
        BY <3>1
      <4> HIDE DEF Full
      <4> QED
        BY <3>2, <4>1
    <3> QED
      BY <2>2, <3>3
  <2> QED
    BY <2>2 DEF Tips
<1> QED
  BY <1>3, <1>4 DEF Places

\* A send chooses its history from the branch above its place.
LEMMA SendWhole ==
  ASSUME Sound, Sound', Whole, TreeAssumption, NEW c, NEW parent, Placed(c, parent),
         parent # None => chats[c] # None, Send(c, parent)
  PROVE  Whole'
<1> DEFINE prior == PathTo(parent, c)
           t == Turn(c, History(prior), TRUE, Newest(prior), QuietOn(prior))
<1>1. TypeOK /\ TreeWellFormed /\ RowsTell
  BY DEF Sound, Whole
<1>2. parent = None \/ parent \in Rows(c)
  BY DEF Placed, Rows
<1>3. /\ Persist(c, parent, TRUE) /\ line' = Append(line, t)
      /\ UNCHANGED <<files, running, searches, summaries, cuts, restarts>>
  BY DEF Send
<1>4. Covers(History(prior), msgs, parent)
  BY <1>1, <1>2, HistoryCovers
<1>5. t.kind = "reply" /\ t.message = NewId /\ t.prompt = History(prior)
  BY DEF Turn
<1>6. t \in TurnType
  <2>1. History(prior) \in PromptType /\ Newest(prior) \in Nat
    BY <1>1, PathsAreRows, HistoryIsTyped, NewestIs
  <2>2. QuietOn(prior) \in BOOLEAN
    BY DEF QuietOn
  <2>3. c \in Nat /\ NewId \in Nat
    <3>1. used.chat \in Nat /\ DOMAIN chats \subseteq 1..used.chat
      BY <1>1 DEF TypeOK
    <3> QED
      BY <1>1, <3>1, NewIdIs DEF Placed
  <2> HIDE DEF prior
  <2> QED
    BY <2>1, <2>2, <2>3 DEF Turn, TurnType
<1> HIDE DEF t, prior
<1> QED
  BY <1>3, <1>4, <1>5, <1>6, WrittenWhole

\* Steps that leave the rows alone.
LEMMA QuietWhole ==
  ASSUME Sound, Sound', Whole, UNCHANGED <<chats, msgs>>, used'.message = used.message,
         \A i \in 1..Len(line') :
           \/ \E j \in 1..Len(line) : line'[i] = line[j]
           \/ Belongs(line'[i], chats, msgs, used.message),
         \A s \in searches' : s \in searches \/ Waits(s, chats, msgs),
         \A s \in summaries' : s \in summaries \/ Stands(s, chats, msgs, used.message)
  PROVE  Whole'
<1>1. RowsTell'
  BY DEF Whole, RowsTell, Tells
<1>2. \A i \in 1..Len(line') : Belongs(line'[i], chats', msgs', used'.message)
  BY DEF Whole
<1>3. \A s \in searches' : Waits(s, chats', msgs')
  BY DEF Whole
<1>4. \A s \in summaries' : Stands(s, chats', msgs', used'.message)
  BY DEF Whole
<1> QED
  BY <1>1, <1>2, <1>3, <1>4 DEF Whole

\* A chat is written, with nothing in it.
LEMMA ChatOnward ==
  ASSUME Sound, Sound', used' = [used EXCEPT !.chat = @ + 1],
         chats' = [d \in DOMAIN chats \cup {used'.chat} |->
                     IF d \in DOMAIN chats THEN chats[d] ELSE None],
         UNCHANGED msgs
  PROVE  Onward
<1>1. used'.message = used.message /\ used.message \in Nat
  BY DEF Sound, TypeOK
<1>2. \A d \in DOMAIN chats : chats'[d] = chats[d]
  OBVIOUS
<1>3. used.message <= used'.message
  BY <1>1
<1> QED
  BY <1>2, <1>3, OnwardIs DEF SameWords

\* A message without a turn says nothing of its branch yet.
LEMMA SendCutWhole == ASSUME Sound, Sound', Whole, SendCut PROVE Whole'
<1>1. UNCHANGED <<files, line, running, searches, summaries, restarts>>
  BY DEF SendCut
<1>2. CASE \E c \in DOMAIN chats : \E parent \in Places(c) : Persist(c, parent, FALSE)
  BY <1>1, <1>2, PlacesArePlaced, PlacesShow, WrittenWhole
<1>3. CASE Persist(used.chat + 1, None, FALSE)
  BY <1>1, <1>3, WrittenWhole DEF Placed
<1>4. CASE /\ used' = [used EXCEPT !.chat = @ + 1]
           /\ chats' = [d \in DOMAIN chats \cup {used'.chat} |->
                          IF d \in DOMAIN chats THEN chats[d] ELSE None]
           /\ UNCHANGED msgs
  <2>3. \A d \in DOMAIN chats' : d \in DOMAIN chats \/ d > used.chat
    <3>1. used \in [chat : Nat, message : Nat, file : Nat]
      BY DEF Sound, TypeOK
    <3>2. used'.chat > used.chat
      BY <1>4, <3>1
    <3> QED
      BY <1>4, <3>2
  <2>5. Onward
    BY <1>4, ChatOnward
  <2>6. RowsTell'
    BY <1>4, <2>5, OnwardTells DEF Whole, RowsTell
  <2>7. \A i \in 1..Len(line') : Belongs(line'[i], chats', msgs', used'.message)
    BY <1>1, <2>5, LineBelongs
  <2>8. \A s \in searches' : Waits(s, chats', msgs')
    BY <1>1, <2>3, <2>5, SearchesWait
  <2>9. \A s \in summaries' : Stands(s, chats', msgs', used'.message)
    BY <1>1, <2>5, SummariesStand
  <2> QED
    BY <2>6, <2>7, <2>8, <2>9 DEF Whole
<1> QED
  BY <1>2, <1>3, <1>4 DEF SendCut

\* A search waits with the history of its place.
LEMMA BeginSearchWhole == ASSUME Sound, Sound', Whole, BeginSearch PROVE Whole'
<1>1. TypeOK /\ TreeWellFormed /\ RowsTell
  BY DEF Sound, Whole
<1>2. PICK c \in DOMAIN chats : \E parent \in Places(c) :
        searches' = searches \cup
          {[chat |-> c, parent |-> parent, prompt |-> History(PathTo(parent, c))]}
  BY DEF BeginSearch
<1>3. PICK parent \in Places(c) :
        searches' = searches \cup
          {[chat |-> c, parent |-> parent, prompt |-> History(PathTo(parent, c))]}
  BY <1>2
<1> DEFINE s == [chat |-> c, parent |-> parent, prompt |-> History(PathTo(parent, c))]
<1>4. UNCHANGED <<chats, msgs, files, used, line, running, summaries, cuts, restarts>>
  BY DEF BeginSearch
<1>5. Covers(History(PathTo(parent, c)), msgs, parent)
  BY <1>1, PlacesAreRows, HistoryCovers
<1>6. Waits(s, chats, msgs)
  BY <1>5, PlacesShow DEF Waits
<1> QED
  BY <1>3, <1>4, <1>6, QuietWhole

\* The branch above that place is still the one the history was taken from.
LEMMA EndSearchWhole ==
  ASSUME Sound, Sound', Whole, NEW s \in searches, Land(s) \/ Abandon(s) PROVE Whole'
<1>1. CASE Land(s)
  <2> DEFINE t == Turn(s.chat, s.prompt, FALSE, None, FALSE)
  <2>1. /\ s.chat \in DOMAIN chats /\ Persist(s.chat, s.parent, TRUE)
        /\ line' = Append(line, t) /\ searches' \subseteq searches
        /\ UNCHANGED <<files, running, summaries, cuts, restarts>>
    BY <1>1 DEF Land
  <2>2. Placed(s.chat, s.parent)
    BY <2>1, SearchesAre DEF Sound, HasPlace, Placed
  <2>3. Covers(s.prompt, msgs, s.parent) /\ (s.parent # None => chats[s.chat] # None)
    BY <2>1 DEF Whole, Waits
  <2>4. s.chat \in Nat /\ s.prompt \in PromptType /\ NewId \in Nat
    BY NewIdIs DEF Sound, TypeOK
  <2>5. t \in TurnType /\ t.kind = "reply" /\ t.message = NewId /\ t.prompt = s.prompt
    BY <2>4 DEF Turn, TurnType, None
  <2> HIDE DEF t
  <2> QED
    BY <2>1, <2>2, <2>3, <2>5, WrittenWhole
<1>2. CASE Abandon(s)
  <2>1. /\ searches' \subseteq searches
        /\ UNCHANGED <<chats, msgs, files, used, line, running, summaries, cuts, restarts>>
    BY <1>2 DEF Abandon
  <2> QED
    BY <2>1, QuietWhole
<1> QED
  BY <1>1, <1>2

\* A turn that leaves is told nothing more.
LEMMA DropWhole == ASSUME Sound, Sound', Whole, Drop PROVE Whole'
<1>1. PICK i \in 1..Len(line) :
        /\ line' = RemoveAt(line, i)
        /\ UNCHANGED <<chats, msgs, files, used, searches, summaries, cuts, restarts>>
  BY DEF Drop
<1>2. \A k \in 1..Len(line') : \E j \in 1..Len(line) : line'[k] = line[j]
  BY <1>1, WithoutOne DEF Sound
<1> QED
  BY <1>1, <1>2, QuietWhole

\* A file changes no branch.
LEMMA WriteFileWhole == ASSUME Sound, Sound', Whole, WriteFile PROVE Whole'
<1> DEFINE v == used.file + 1
<1>1. /\ running /\ line[1].kind = "reply" /\ used' = [used EXCEPT !.file = v]
      /\ line' = [line EXCEPT ![1].view = v]
      /\ UNCHANGED <<chats, msgs, running, searches, summaries, cuts, restarts>>
  BY DEF WriteFile, Wrote
<1>2. line \in Seq(TurnType) /\ 1 \in 1..Len(line) /\ line[1] \in TurnType
  BY <1>1 DEF Sound, RunnerIsFirst, TypeOK
<1>3. used'.message = used.message
  BY <1>1 DEF Sound, TypeOK
<1>4. /\ Len(line') = Len(line) /\ line'[1] = [line[1] EXCEPT !.view = v]
      /\ \A i \in 1..Len(line) : i # 1 => line'[i] = line[i]
  BY <1>1, <1>2
<1>5. Belongs(line'[1], chats, msgs, used.message)
  <2>1. /\ line'[1].kind = "reply" /\ line'[1].message = line[1].message
        /\ line'[1].prompt = line[1].prompt
    BY <1>1, <1>2, <1>4 DEF TurnType
  <2>2. Belongs(line[1], chats, msgs, used.message)
    BY <1>2 DEF Whole
  <2> QED
    BY <1>1, <2>1, <2>2 DEF Belongs
<1> QED
  BY <1>1, <1>3, <1>4, <1>5, QuietWhole

\* A reply is written below its question.
LEMMA ReplyOnward ==
  ASSUME Sound, Sound', NEW text, NEW linked, Reply(text, linked) PROVE Onward
<1> DEFINE row == Message(line[1].chat, "assistant", text, line[1].message, line[1].prompt)
<1>1. msgs' = Inserted(NewId, row, linked) /\ UNCHANGED chats
  BY DEF Reply
<1>2. used'.message = NewId
  BY DEF Reply, Sound, TypeOK
<1> HIDE DEF row
<1> QED
  BY <1>1, <1>2, GrownOnward

\* A reply carries the prompt its turn was told.
LEMMA ReplyWhole ==
  ASSUME Sound, Sound', Whole, NEW text \in BOOLEAN, NEW linked, Reply(text, linked)
  PROVE  Whole'
<1> DEFINE t == line[1]
           row == Message(t.chat, "assistant", text, t.message, t.prompt)
<1>1. TypeOK /\ TreeWellFormed
  BY DEF Sound
<1>2. /\ running /\ t.kind = "reply" /\ t.chat # None
      /\ msgs' = Inserted(NewId, row, linked) /\ used' = [used EXCEPT !.message = NewId]
      /\ line' = Tail(line)
      /\ UNCHANGED <<chats, files, searches, summaries, restarts>>
  BY DEF Reply
<1>3. line \in Seq(TurnType) /\ 1 \in 1..Len(line) /\ t \in TurnType
  BY <1>1, <1>2 DEF Sound, RunnerIsFirst, TypeOK
<1>4. t.message \in DOMAIN msgs /\ msgs[t.message].chat = t.chat
  BY <1>2, <1>3, LineIs DEF Sound, Finds
<1>5. chats[t.chat] # None /\ Covers(t.prompt, msgs, msgs[t.message].parent)
  BY <1>2, <1>3, <1>4 DEF Whole, Belongs
<1>6. /\ row.chat = t.chat /\ row.parent = t.message /\ row.role = "assistant"
      /\ row.summary = {} /\ row.from = t.prompt
  BY DEF Message
<1>7. used'.message = NewId /\ used'.chat = used.chat
  BY <1>1, <1>2 DEF TypeOK
<1> HIDE DEF t, row
<1>8. Onward
  BY ReplyOnward
<1>9. /\ \A m \in DOMAIN msgs : SameWords(m) /\ msgs'[m].summary = msgs[m].summary
      /\ DOMAIN msgs' = DOMAIN msgs \cup {NewId} /\ msgs'[NewId] = row
  BY <1>1, <1>2, InsertedWords
<1>10. RowsTell'
  <2>1. ASSUME NEW m \in DOMAIN msgs PROVE Tells(m, chats', msgs')
    BY <1>8, <1>9, OnwardTells DEF Whole, RowsTell
  <2>2. Covers(t.prompt, msgs', msgs'[t.message].parent)
    <3>1. msgs'[t.message].parent = msgs[t.message].parent
      BY <1>4, <1>9 DEF SameWords
    <3>2. msgs[t.message].parent = None \/ msgs[t.message].parent \in DOMAIN msgs \cap DOMAIN msgs'
      BY <1>4, <1>8, <1>9, ParentStays
    <3> QED
      BY <1>5, <1>8, <3>1, <3>2, OnwardCovers
  <2>3. Tells(NewId, chats', msgs')
    BY <1>2, <1>4, <1>5, <1>6, <1>9, <2>2 DEF Tells
  <2> QED
    BY <1>9, <2>1, <2>3 DEF RowsTell
<1>11. \A i \in 1..Len(line') : Belongs(line'[i], chats', msgs', used'.message)
  <2>1. \A i \in 1..Len(line') : line'[i] = line[i + 1] /\ i + 1 \in 1..Len(line)
    BY <1>2, <1>3
  <2> QED
    BY <1>8, <2>1, LineBelongs
<1>12. \A s \in searches' : Waits(s, chats', msgs')
  BY <1>2, <1>8, SearchesWait
<1>13. \A s \in summaries' : Stands(s, chats', msgs', used'.message)
  BY <1>2, <1>8, SummariesStand
<1> QED
  BY <1>10, <1>11, <1>12, <1>13 DEF Whole

\* Another version is shown.
LEMMA SwitchOnward ==
  ASSUME Sound, Sound', Switch
  PROVE  /\ Onward /\ DOMAIN chats' = DOMAIN chats /\ DOMAIN msgs' = DOMAIN msgs
         /\ \A k \in DOMAIN msgs : msgs'[k].summary = msgs[k].summary
<1>1. TypeOK /\ IsTree(chats, msgs)
  BY TreeIs DEF Sound
<1>2. PICK c \in DOMAIN chats, m \in DOMAIN msgs :
        /\ IF msgs[m].parent = None
           THEN chats' = [chats EXCEPT ![c] = m] /\ UNCHANGED msgs
           ELSE msgs' = [msgs EXCEPT ![msgs[m].parent].child = m] /\ UNCHANGED chats
        /\ UNCHANGED <<files, used, line, running, searches, summaries, cuts, restarts>>
  BY DEF Switch, Rows
<1>3. m # None
  BY <1>1, NewIdIs
<1>4. /\ DOMAIN chats' = DOMAIN chats
      /\ \A d \in DOMAIN chats : chats[d] # None => chats'[d] # None
  BY <1>2, <1>3
<1>5. /\ DOMAIN msgs' = DOMAIN msgs
      /\ \A k \in DOMAIN msgs : SameWords(k) /\ msgs'[k].summary = msgs[k].summary
  <2>1. CASE msgs[m].parent = None
    BY <1>2, <2>1 DEF SameWords
  <2>2. CASE msgs[m].parent # None
    <3> DEFINE p == msgs[m].parent
    <3>1. msgs' = [msgs EXCEPT ![p].child = m] /\ p \in DOMAIN msgs
      BY <1>1, <1>2, <2>2 DEF IsTree
    <3>2. \A k \in DOMAIN msgs : msgs[k] \in MessageType
      BY <1>1 DEF TypeOK
    <3>3. /\ DOMAIN msgs' = DOMAIN msgs
          /\ \A k \in DOMAIN msgs :
               msgs'[k] = IF k = p THEN [msgs[p] EXCEPT !.child = m] ELSE msgs[k]
      BY <3>1
    <3> HIDE DEF p
    <3> QED
      BY <3>1, <3>2, <3>3 DEF MessageType, SameWords
  <2> QED
    BY <2>1, <2>2
<1>6. used.message <= used'.message
  BY <1>1, <1>2 DEF TypeOK
<1>7. Onward
  BY <1>4, <1>5, <1>6, OnwardIs
<1> QED
  BY <1>4, <1>5, <1>7

\* To show another version moves no message to another branch.
LEMMA SwitchWhole == ASSUME Sound, Sound', Whole, Switch PROVE Whole'
<1>1. /\ Onward /\ DOMAIN chats' = DOMAIN chats /\ DOMAIN msgs' = DOMAIN msgs
      /\ \A k \in DOMAIN msgs : msgs'[k].summary = msgs[k].summary
  BY SwitchOnward
<1>2. UNCHANGED <<files, used, line, running, searches, summaries, cuts, restarts>>
  BY DEF Switch
<1>3. RowsTell'
  BY <1>1, OnwardTells DEF Whole, RowsTell
<1>4. \A i \in 1..Len(line') : Belongs(line'[i], chats', msgs', used'.message)
  BY <1>1, <1>2, LineBelongs
<1>5. \A s \in searches' : Waits(s, chats', msgs')
  BY <1>1, <1>2, SearchesWait
<1>6. \A s \in summaries' : Stands(s, chats', msgs', used'.message)
  BY <1>1, <1>2, SummariesStand
<1> QED
  BY <1>3, <1>4, <1>5, <1>6 DEF Whole

\* A compaction stands for what its transcript was taken from.
LEMMA CompactWhole == ASSUME Sound, Sound', Whole, TreeAssumption, Compact PROVE Whole'
<1>1. TypeOK /\ TreeWellFormed /\ RowsTell
  BY DEF Sound, Whole
<1>2. PICK c \in DOMAIN chats :
        \E b \in ToCompact(ActivePath(c)) :
          /\ \A m \in ToCompact(ActivePath(c)) : m <= b
          /\ line' = Append(line, [kind |-> "compaction", boundary |-> b,
                                   of |-> Transcript(ActivePath(c))])
  BY DEF Compact
<1>3. PICK b \in ToCompact(ActivePath(c)) :
        /\ \A m \in ToCompact(ActivePath(c)) : m <= b
        /\ line' = Append(line, [kind |-> "compaction", boundary |-> b,
                                 of |-> Transcript(ActivePath(c))])
  BY <1>2
<1>4. UNCHANGED <<chats, msgs, files, used, running, searches, summaries, cuts, restarts>>
  BY DEF Compact
<1> DEFINE t == [kind |-> "compaction", boundary |-> b, of |-> Transcript(ActivePath(c))]
<1>5. b \in Rows(c) /\ Transcript(ActivePath(c)) = Branch(msgs, b)
  BY <1>1, <1>3, TranscriptIs
<1>6. chats[c] # None
  <2>1. ActivePath(c) # {}
    BY <1>3 DEF ToCompact, AfterSummary
  <2> DEFINE Full(S) ==
               /\ chats[c] \in Rows(c) => chats[c] \in S
               /\ \A k \in S : Column("child")[k] \in Rows(c) => Column("child")[k] \in S
  <2>2. \A S : Full(S) => ActivePath(c) \subseteq S
    BY <1>1, RowsAreFinite, WalkIs DEF ActivePath
  <2>3. chats[c] = None => Full({})
    BY <1>1, NewIdIs DEF Rows
  <2> HIDE DEF Full
  <2> QED
    BY <2>1, <2>2, <2>3
<1>7. Belongs(t, chats, msgs, used.message)
  <2>1. b <= used.message /\ b \in DOMAIN msgs /\ msgs[b].chat = c
    BY <1>1, <1>5 DEF Rows, TypeOK
  <2> QED
    BY <1>5, <1>6, <2>1 DEF Belongs, Stands
<1> HIDE DEF t
<1>8. \A i \in 1..Len(line') : (\E j \in 1..Len(line) : line'[i] = line[j]) \/ line'[i] = t
  <2>1. line \in Seq(TurnType) /\ line' = Append(line, t)
    BY <1>1, <1>3 DEF TypeOK, t
  <2> QED
    BY <2>1
<1> QED
  BY <1>4, <1>7, <1>8, QuietWhole

\* Its summary does, too.
LEMMA SummariseWhole == ASSUME Sound, Sound', Whole, Summarise PROVE Whole'
<1> DEFINE s == [boundary |-> line[1].boundary, of |-> line[1].of]
<1>1. /\ running /\ line[1].kind = "compaction" /\ summaries' = summaries \cup {s}
      /\ line' = Tail(line)
      /\ UNCHANGED <<chats, msgs, files, used, searches, cuts, restarts>>
  BY DEF Summarise
<1>2. line \in Seq(TurnType) /\ 1 \in 1..Len(line)
  BY <1>1 DEF Sound, RunnerIsFirst, TypeOK
<1>3. Stands(s, chats, msgs, used.message)
  BY <1>1, <1>2 DEF Whole, Belongs, Stands
<1>4. \A i \in 1..Len(line') : line'[i] = line[i + 1] /\ i + 1 \in 1..Len(line)
  BY <1>1, <1>2
<1> QED
  BY <1>1, <1>3, <1>4, QuietWhole

\* A summary is stored.
LEMMA StoreOnward ==
  ASSUME Sound, Sound', StoreSummary PROVE Onward /\ DOMAIN msgs' = DOMAIN msgs
<1>1. PICK s \in summaries :
        /\ msgs' = [m \in DOMAIN msgs |->
                      IF m = s.boundary THEN [msgs[m] EXCEPT !.summary = s.of] ELSE msgs[m]]
        /\ UNCHANGED <<chats, files, used, line, running, searches, cuts, restarts>>
  BY DEF StoreSummary
<1>2. DOMAIN msgs' = DOMAIN msgs /\ \A m \in DOMAIN msgs : SameWords(m)
  <2>1. \A m \in DOMAIN msgs : msgs[m] \in MessageType
    BY DEF Sound, TypeOK
  <2> QED
    BY <1>1, <2>1 DEF MessageType, SameWords
<1> QED
  BY <1>1, <1>2, IdleOnward

\* A summary that is stored stands for the branch of its message still, or the
\* message is gone.
LEMMA StoreSummaryWhole == ASSUME Sound, Sound', Whole, StoreSummary PROVE Whole'
<1>1. PICK s \in summaries :
        /\ summaries' = summaries \ {s}
        /\ msgs' = [m \in DOMAIN msgs |->
                      IF m = s.boundary THEN [msgs[m] EXCEPT !.summary = s.of] ELSE msgs[m]]
        /\ UNCHANGED <<chats, files, used, line, running, searches, cuts, restarts>>
  BY DEF StoreSummary
<1>2. Stands(s, chats, msgs, used.message)
  BY DEF Whole
<1>3. Onward
  BY StoreOnward
<1>4. DOMAIN msgs' = DOMAIN msgs /\ \A m \in DOMAIN msgs : SameWords(m)
  BY <1>3, StoreOnward DEF Onward
<1>5. RowsTell'
  <2>1. ASSUME NEW m \in DOMAIN msgs, m # s.boundary PROVE Tells(m, chats', msgs')
    <3>1. msgs'[m].summary = msgs[m].summary
      BY <1>1, <2>1
    <3> QED
      BY <1>4, <1>3, <3>1, OnwardTells DEF Whole, RowsTell
  <2>2. ASSUME s.boundary \in DOMAIN msgs PROVE Tells(s.boundary, chats', msgs')
    <3> DEFINE b == s.boundary
               mt == [msgs EXCEPT ![b].summary = s.of]
    <3>1. /\ msgs'[b].summary = s.of /\ s.of = Branch(msgs, b)
          /\ chats[msgs[b].chat] # None
      <4>1. msgs[b] \in MessageType /\ msgs'[b] = [msgs[b] EXCEPT !.summary = s.of]
        BY <1>1, <2>2 DEF Sound, TypeOK
      <4> QED
        BY <1>2, <2>2, <4>1 DEF MessageType, Stands
    <3>2. Branch(msgs', b) = Branch(msgs, b) /\ SameWords(b) /\ chats'[msgs'[b].chat] # None
      BY <1>4, <1>3, <2>2, <3>1, StillShows DEF Onward
    <3>3. ASSUME msgs[b].role = "assistant"
          PROVE  /\ msgs[b].parent \in DOMAIN msgs'
                 /\ Covers(msgs[b].from, msgs', msgs'[msgs[b].parent].parent)
      <4> DEFINE p == msgs[b].parent
      <4>1. p \in DOMAIN msgs /\ Covers(msgs[b].from, msgs, msgs[p].parent)
        BY <2>2, <3>3 DEF Whole, RowsTell, Tells
      <4> HIDE DEF p, b
      <4>2. Covers(msgs[b].from, msgs', msgs[p].parent)
        BY <1>4, <1>3, <4>1, ParentStays, OnwardCovers
      <4>3. msgs'[p].parent = msgs[p].parent
        BY <1>4, <4>1 DEF SameWords
      <4> QED
        BY <1>4, <4>1, <4>2, <4>3 DEF p
    <3> HIDE DEF b
    <3>4. Tells(b, chats', msgs')
      BY <3>1, <3>2, <3>3 DEF Tells, SameWords
    <3> QED
      BY <3>4 DEF b
  <2> QED
    BY <1>4, <2>1, <2>2 DEF RowsTell
<1>6. \A i \in 1..Len(line') : Belongs(line'[i], chats', msgs', used'.message)
  BY <1>1, <1>3, LineBelongs
<1>7. \A x \in searches' : Waits(x, chats', msgs')
  BY <1>1, <1>3, SearchesWait
<1>8. \A x \in summaries' : Stands(x, chats', msgs', used'.message)
  BY <1>1, <1>3, SummariesStand
<1> QED
  BY <1>5, <1>6, <1>7, <1>8 DEF Whole

\* A turn cut loose is still about the same message.
LEMMA LooseBelongs ==
  ASSUME Sound, Whole, NEW c, CutLoose(c)
  PROVE  \A i \in 1..Len(line') : Belongs(line'[i], chats, msgs, used.message)
<1> DEFINE left == Cardinality(Kept(c))
<1>1. PICK at \in [1..left -> Kept(c)] : line' = [i \in 1..left |-> Loose(c, line[at[i]])]
  BY DEF CutLoose
<1>2. ASSUME NEW i \in 1..left PROVE Belongs(line'[i], chats, msgs, used.message)
  <2>1. line'[i] = Loose(c, line[at[i]]) /\ at[i] \in 1..Len(line)
    BY <1>1 DEF Kept
  <2>2. line[at[i]] \in TurnType /\ Belongs(line[at[i]], chats, msgs, used.message)
    BY <2>1 DEF Sound, TypeOK, Whole
  <2>3. CASE Of(c, line[at[i]])
    <3>1. line[at[i]].kind = "reply" /\ line'[i] = [line[at[i]] EXCEPT !.chat = None]
      BY <2>1, <2>3 DEF Of, Loose
    <3>2. /\ line'[i].kind = "reply" /\ line'[i].message = line[at[i]].message
          /\ line'[i].prompt = line[at[i]].prompt
      BY <2>2, <3>1 DEF TurnType
    <3> QED
      BY <2>2, <3>1, <3>2 DEF Belongs
  <2>4. CASE ~ Of(c, line[at[i]])
    BY <2>1, <2>2, <2>4 DEF Loose
  <2> QED
    BY <2>3, <2>4
<1>3. left \in Nat
  <2>1. Kept(c) \subseteq 1..Len(line) /\ Len(line) \in Nat
    BY DEF Kept, Sound, TypeOK
  <2>2. IsFiniteSet(1..Len(line))
    BY <2>1, FS_Interval
  <2>3. IsFiniteSet(Kept(c))
    BY <2>1, <2>2, FS_Subset
  <2> QED
    BY <2>3, FS_CardinalityType
<1> HIDE DEF left
<1>4. Len(line') = left
  BY <1>1, <1>3
<1> QED
  BY <1>2, <1>4

\* A chat goes with all its branches.
LEMMA DeleteOnward ==
  ASSUME Sound, Sound', NEW c \in DOMAIN chats,
         chats' = [d \in DOMAIN chats \ {c} |-> chats[d]],
         msgs' = [m \in DOMAIN msgs \ Rows(c) |-> msgs[m]], UNCHANGED used
  PROVE  /\ Onward
         /\ \A m \in DOMAIN msgs' : m \in DOMAIN msgs /\ msgs'[m] = msgs[m] /\ msgs[m].chat # c
<1>1. /\ \A m : m \in DOMAIN msgs' <=> (m \in DOMAIN msgs /\ msgs[m].chat # c)
      /\ \A m \in DOMAIN msgs' : msgs'[m] = msgs[m]
  BY DEF Rows
<1>2. \A m \in DOMAIN msgs \cap DOMAIN msgs' :
        SameWords(m) /\ (msgs[m].parent \in DOMAIN msgs => msgs[m].parent \in DOMAIN msgs')
  <2>1. IsTree(chats, msgs) /\ None \notin DOMAIN msgs
    BY TreeIs, NewIdIs DEF Sound
  <2> QED
    BY <1>1, <2>1 DEF IsTree, SameWords
<1>3. used.message <= used'.message
  BY DEF Sound, TypeOK
<1>4. Onward
  BY <1>1, <1>2, <1>3, OnwardIs
<1> QED
  BY <1>1, <1>4

\* A chat goes with its branches; those of other chats stay whole.
LEMMA DeleteWhole == ASSUME Sound, Sound', Whole, Delete PROVE Whole'
<1>1. PICK c \in DOMAIN chats :
        /\ CutLoose(c)
        /\ chats' = [d \in DOMAIN chats \ {c} |-> chats[d]]
        /\ msgs' = [m \in DOMAIN msgs \ Rows(c) |-> msgs[m]]
        /\ UNCHANGED <<used, running, searches, summaries, cuts, restarts>>
  BY DEF Delete
<1>2. /\ Onward
      /\ \A m \in DOMAIN msgs' : m \in DOMAIN msgs /\ msgs'[m] = msgs[m]
  BY <1>1, DeleteOnward
<1>3. RowsTell'
  BY <1>2, OnwardTells DEF Whole, RowsTell
<1>4. \A i \in 1..Len(line') : Belongs(line'[i], chats', msgs', used'.message)
  BY <1>1, <1>2, LooseBelongs, LineBelongs
<1>5. \A s \in searches' : Waits(s, chats', msgs')
  BY <1>1, <1>2, SearchesWait
<1>6. \A s \in summaries' : Stands(s, chats', msgs', used'.message)
  BY <1>1, <1>2, SummariesStand
<1> QED
  BY <1>3, <1>4, <1>5, <1>6 DEF Whole

\* A deletion that fails leaves every branch.
LEMMA DeleteCutWhole == ASSUME Sound, Sound', Whole, DeleteCut PROVE Whole'
<1>1. PICK c \in DOMAIN chats : CutLoose(c)
  BY DEF DeleteCut
<1>2. UNCHANGED <<chats, msgs, files, used, running, searches, summaries, restarts>>
  BY DEF DeleteCut
<1>3. \A i \in 1..Len(line') : Belongs(line'[i], chats, msgs, used.message)
  BY <1>1, LooseBelongs
<1> QED
  BY <1>2, <1>3, QuietWhole

\* The migration only touches chats that show nothing, and these have nothing
\* but first messages, no summaries and no replies.
LEMMA RestartWhole == ASSUME Sound, Sound', Whole, Restart PROVE Whole'
<1>1. TypeOK /\ IsTree(chats, msgs) /\ RowsTell /\ Hung(msgs)
  BY TreeIs, TreeIsHung DEF Sound, Whole
<1>2. /\ chats' = [c \in DOMAIN chats |-> IF c \in Untreed THEN FirstId(Rows(c)) ELSE chats[c]]
      /\ msgs' = [m \in DOMAIN msgs |-> Migrated(m)]
      /\ line' = <<>> /\ searches' = {} /\ summaries' = {}
  BY DEF Restart
<1>3. ASSUME NEW m \in DOMAIN msgs
      PROVE  /\ m \in DOMAIN msgs'
             /\ msgs'[m].chat = msgs[m].chat /\ msgs'[m].role = msgs[m].role
             /\ msgs'[m].summary = msgs[m].summary /\ msgs'[m].from = msgs[m].from
             /\ msgs[m].chat \notin Untreed => msgs'[m] = msgs[m]
  <2>1. msgs[m] \in MessageType /\ msgs'[m] = Migrated(m)
    BY <1>1, <1>2 DEF TypeOK
  <2>2. CASE msgs[m].chat \notin Untreed
    BY <1>2, <2>1, <2>2 DEF Migrated
  <2>3. CASE msgs[m].chat \in Untreed
    BY <1>2, <2>1, <2>3 DEF Migrated, MessageType
  <2> QED
    BY <2>2, <2>3
<1>4. ASSUME NEW m \in DOMAIN msgs PROVE chats'[msgs'[m].chat] # None
  <2> DEFINE c == msgs[m].chat
  <2>1. c \in DOMAIN chats /\ m \in Rows(c) /\ msgs'[m].chat = c
    BY <1>1, <1>3 DEF IsTree, Rows
  <2>2. CASE c \in Untreed
    <3>1. Rows(c) \in SUBSET Nat /\ Rows(c) \subseteq DOMAIN msgs /\ None \notin DOMAIN msgs
      BY <1>1, NewIdIs DEF Rows
    <3>2. FirstId(Rows(c)) \in Rows(c)
      BY <2>1, <3>1, FirstIdIs
    <3> QED
      BY <1>2, <2>1, <2>2, <3>1, <3>2
  <2>3. CASE c \notin Untreed
    BY <1>2, <2>1, <2>3 DEF Untreed
  <2> QED
    BY <2>2, <2>3
<1>5. ASSUME NEW m \in DOMAIN msgs, msgs[m].chat \notin Untreed
      PROVE  /\ Branch(msgs', m) = Branch(msgs, m)
             /\ \A k \in Branch(msgs, m) : msgs'[k] = msgs[k]
  <2>1. \A k \in Branch(msgs, m) : k \in DOMAIN msgs /\ msgs[k].chat = msgs[m].chat
    BY <1>1, BranchAbove
  <2>2. \A k \in Branch(msgs, m) : k \in DOMAIN msgs' /\ msgs'[k] = msgs[k]
    BY <1>3, <1>5, <2>1
  <2>3. DOMAIN msgs' = DOMAIN msgs
    BY <1>2
  <2> QED
    BY <2>2, <2>3, BranchStays
<1>6. ASSUME NEW m \in DOMAIN msgs PROVE Tells(m, chats', msgs')
  <2>1. Tells(m, chats, msgs)
    BY <1>1 DEF RowsTell
  <2>2. CASE msgs[m].chat \in Untreed
    <3>1. msgs[m].role = "user" /\ msgs[m].summary = {}
      BY <2>1, <2>2 DEF Tells, Untreed
    <3> QED
      BY <1>3, <1>4, <3>1 DEF Tells
  <2>3. CASE msgs[m].chat \notin Untreed
    <3>1. ASSUME msgs[m].role = "assistant"
          PROVE  /\ msgs[m].parent \in DOMAIN msgs'
                 /\ Covers(msgs[m].from, msgs', msgs'[msgs[m].parent].parent)
      <4> DEFINE p == msgs[m].parent
                 q == msgs[p].parent
      <4>1. p \in DOMAIN msgs /\ Covers(msgs[m].from, msgs, q)
        BY <2>1, <3>1 DEF Tells
      <4>2. msgs[p].chat = msgs[m].chat /\ msgs'[p] = msgs[p] /\ p \in DOMAIN msgs'
        BY <1>1, <1>3, <2>3, <4>1 DEF Hung
      <4>3. /\ Branch(msgs', q) = Branch(msgs, q)
            /\ \A k \in Branch(msgs, q) : msgs'[k] = msgs[k]
        <5>1. CASE q \in DOMAIN msgs
          <6>1. msgs[q].chat = msgs[m].chat
            BY <1>1, <4>1, <4>2, <5>1 DEF Hung
          <6> HIDE DEF q
          <6> QED
            BY <1>5, <2>3, <5>1, <6>1
        <5>2. CASE q \notin DOMAIN msgs
          <6> HIDE DEF q
          <6>1. DOMAIN msgs' = DOMAIN msgs
            BY <1>2
          <6> QED
            BY <5>2, <6>1, NoBranch
        <5> QED
          BY <5>1, <5>2
      <4> HIDE DEF q
      <4>4. Covers(msgs[m].from, msgs', q)
        <5> HIDE DEF p
        <5> QED
          BY <4>1, <4>3 DEF Covers
      <4> QED
        BY <4>2, <4>4 DEF q
    <3> QED
      BY <1>3, <1>4, <1>5, <2>1, <2>3, <3>1 DEF Tells
  <2> QED
    BY <2>2, <2>3
<1>7. RowsTell'
  <2>1. DOMAIN msgs' = DOMAIN msgs
    BY <1>2
  <2> QED
    BY <1>6, <2>1 DEF RowsTell
<1> QED
  BY <1>2, <1>7 DEF Whole

\* Every step leaves what is told and summed up to its own branch.
LEMMA StepIsWhole ==
  ASSUME Sound, Sound', Whole, TreeAssumption, [Next]_vars PROVE Whole'
<1>1. CASE SendInChat
  BY <1>1, PlacesArePlaced, PlacesShow, SendWhole DEF SendInChat
<1>2. CASE SendNew
  BY <1>2, SendWhole DEF SendNew, Placed
<1>3. CASE SendCut
  BY <1>3, SendCutWhole
<1>4. CASE BeginSearch
  BY <1>4, BeginSearchWhole
<1>5. CASE EndSearch
  BY <1>5, EndSearchWhole DEF EndSearch
<1>6. CASE Start
  BY <1>6, QuietWhole DEF Start
<1>7. CASE Drop
  BY <1>7, DropWhole
<1>8. CASE WriteFile
  BY <1>8, WriteFileWhole
<1>9. CASE Answer
  BY <1>9, ReplyWhole DEF Answer
<1>10. CASE AnswerCut
  BY <1>10, ReplyWhole DEF AnswerCut
<1>11. CASE Switch
  BY <1>11, SwitchWhole
<1>12. CASE Compact
  BY <1>12, CompactWhole
<1>13. CASE Summarise
  BY <1>13, SummariseWhole
<1>14. CASE StoreSummary
  BY <1>14, StoreSummaryWhole
<1>15. CASE Delete
  BY <1>15, DeleteWhole
<1>16. CASE DeleteCut
  BY <1>16, DeleteCutWhole
<1>17. CASE Restart
  BY <1>17, RestartWhole
<1>18. CASE UNCHANGED vars
  BY <1>18, QuietWhole DEF vars
<1> QED
  BY <1>1, <1>2, <1>3, <1>4, <1>5, <1>6, <1>7, <1>8, <1>9, <1>10, <1>11, <1>12,
     <1>13, <1>14, <1>15, <1>16, <1>17, <1>18 DEF Next

\* So it is in every state.
LEMMA AlwaysWhole == Spec => []Whole
<1>1. Init => Whole
  BY DEF Init, Whole, RowsTell
<1>2. Sound /\ Sound' /\ Whole /\ [Next]_vars => Whole'
  BY TreeAssumption, StepIsWhole
<1> QED
  BY <1>1, <1>2, AlwaysSound, PTL DEF Spec

\* What a sound state with rows that tell says of prompts and summaries.
LEMMA WholeTellsThePath == ASSUME Sound, Whole PROVE PromptIsThePath
<1>1. TypeOK /\ TreeWellFormed /\ IsTree(chats, msgs)
  BY TreeIs DEF Sound
<1>2. ASSUME NEW m \in DOMAIN msgs
      PROVE  /\ PathTo(m, msgs[m].chat) = Branch(msgs, m)
             /\ PathTo(msgs[m].parent, msgs[m].chat) = Branch(msgs, msgs[m].parent)
  <2>1. m \in Rows(msgs[m].chat)
    BY DEF Rows
  <2>2. msgs[m].parent = None \/ msgs[m].parent \in Rows(msgs[m].chat)
    BY <1>1 DEF TreeWellFormed
  <2> QED
    BY <1>1, <2>1, <2>2, PathIs
<1>3. SummaryCoversPrefix
  BY <1>2 DEF SummaryCoversPrefix, Whole, RowsTell, Tells
<1>4. ASSUME NEW m \in DOMAIN msgs, NEW prompt, Covers(prompt, msgs, msgs[m].parent)
      PROVE  WrittenFrom(prompt, m)
  BY <1>2, <1>4 DEF WrittenFrom, Covers
<1>5. ASSUME NEW r \in DOMAIN msgs, msgs[r].role = "assistant"
      PROVE  WrittenFrom(msgs[r].from, msgs[r].parent)
  BY <1>4, <1>5 DEF Whole, RowsTell, Tells
<1>6. ASSUME NEW i \in 1..Len(line), line[i].kind = "reply", line[i].message \in DOMAIN msgs
      PROVE  WrittenFrom(line[i].prompt, line[i].message)
  BY <1>4, <1>6 DEF Whole, Belongs
<1>7. PromptMatchesPath
  BY <1>5, <1>6 DEF PromptMatchesPath
<1> QED
  BY <1>3, <1>7 DEF PromptIsThePath

-----------------------------------------------------------------------------
(* Where paths stop *)

\* The dead ends and the dead chats are finitely many; one more of either for
\* each handler cut short keeps their bound.
LEMMA DeadAreFew ==
  ASSUME Sound, Sound', PathsReachLeaves, NEW A, NEW B, NEW x,
         DeadEnds' \subseteq DeadEnds \cup A, DeadChats' \subseteq DeadChats \cup B,
         \/ A = {} /\ B = {} /\ cuts' >= cuts
         \/ cuts' = cuts + 1 /\ ((A = {x} /\ B = {}) \/ (A = {} /\ B = {x}))
  PROVE  PathsReachLeaves'
<1>1. IsFiniteSet(DeadEnds) /\ IsFiniteSet(DeadChats)
  <2>1. TypeOK /\ used.message \in Nat /\ used.chat \in Nat
    BY DEF Sound, TypeOK
  <2>2. IsFiniteSet(1..used.message) /\ IsFiniteSet(1..used.chat)
    <3>1. \A n \in Nat : IsFiniteSet(1..n)
      BY FS_Interval
    <3> QED
      BY <2>1, <3>1
  <2>3. DeadEnds \subseteq 1..used.message /\ DeadChats \subseteq 1..used.chat
    BY <2>1 DEF TypeOK, DeadEnds, DeadChats
  <2> QED
    BY <2>2, <2>3, FS_Subset
<1>2. /\ Cardinality(DeadEnds) \in Nat /\ Cardinality(DeadChats) \in Nat
      /\ cuts \in Nat /\ cuts' \in Nat
      /\ Cardinality(DeadEnds) + Cardinality(DeadChats) <= cuts
  BY <1>1, FS_CardinalityType DEF PathsReachLeaves, Sound, TypeOK
\* A set that grew by one element at most.
<1>3. ASSUME NEW S, NEW T, IsFiniteSet(S), T \subseteq S \cup {x}
      PROVE  IsFiniteSet(T) /\ Cardinality(T) \in Nat /\ Cardinality(T) <= Cardinality(S) + 1
  <2>1. /\ IsFiniteSet(S \cup {x})
        /\ Cardinality(S \cup {x}) = IF x \in S THEN Cardinality(S) ELSE Cardinality(S) + 1
    BY <1>3, FS_AddElement
  <2>2. IsFiniteSet(T) /\ Cardinality(T) <= Cardinality(S \cup {x})
    BY <1>3, <2>1, FS_Subset
  <2>3. Cardinality(T) \in Nat /\ Cardinality(S) \in Nat
    BY <1>3, <2>2, FS_CardinalityType
  <2> QED
    BY <2>1, <2>2, <2>3
<1>4. ASSUME NEW S, NEW T, IsFiniteSet(S), T \subseteq S \cup {}
      PROVE  Cardinality(T) \in Nat /\ Cardinality(T) <= Cardinality(S)
  <2>1. T \subseteq S
    BY <1>4
  <2>2. IsFiniteSet(T) /\ Cardinality(T) <= Cardinality(S)
    BY <1>4, <2>1, FS_Subset
  <2> QED
    BY <2>2, FS_CardinalityType
<1>5. Cardinality(DeadEnds') + Cardinality(DeadChats') <= cuts'
  <2>1. CASE A = {} /\ B = {} /\ cuts' >= cuts
    <3>1. /\ Cardinality(DeadEnds') \in Nat /\ Cardinality(DeadEnds') <= Cardinality(DeadEnds)
          /\ Cardinality(DeadChats') \in Nat /\ Cardinality(DeadChats') <= Cardinality(DeadChats)
      BY <1>1, <1>4, <2>1
    <3> QED
      BY <1>2, <2>1, <3>1
  <2>2. CASE cuts' = cuts + 1 /\ ((A = {x} /\ B = {}) \/ (A = {} /\ B = {x}))
    <3>1. (A = {x} /\ B = {}) \/ (A = {} /\ B = {x})
      BY <2>2
    <3>2. CASE A = {x} /\ B = {}
      <4>1. /\ Cardinality(DeadEnds') \in Nat
            /\ Cardinality(DeadEnds') <= Cardinality(DeadEnds) + 1
            /\ Cardinality(DeadChats') \in Nat
            /\ Cardinality(DeadChats') <= Cardinality(DeadChats)
        BY <1>1, <1>3, <1>4, <3>2
      <4> QED
        BY <1>2, <2>2, <4>1
    <3>3. CASE A = {} /\ B = {x}
      <4>1. /\ Cardinality(DeadEnds') \in Nat
            /\ Cardinality(DeadEnds') <= Cardinality(DeadEnds)
            /\ Cardinality(DeadChats') \in Nat
            /\ Cardinality(DeadChats') <= Cardinality(DeadChats) + 1
        BY <1>1, <1>3, <1>4, <3>3
      <4> QED
        BY <1>2, <2>2, <4>1
    <3> QED
      BY <3>1, <3>2, <3>3
  <2> QED
    BY <2>1, <2>2
<1> QED
  BY <1>5 DEF PathsReachLeaves

\* No path is cut when the rows that stay still show what they showed.
LEMMA NoneDies ==
  ASSUME Sound, Sound', PathsReachLeaves, DeadEnds' \subseteq DeadEnds,
         DeadChats' \subseteq DeadChats, cuts' >= cuts
  PROVE  PathsReachLeaves'
<1>1. DeadEnds' \subseteq DeadEnds \cup {} /\ DeadChats' \subseteq DeadChats \cup {}
  OBVIOUS
<1> QED
  BY <1>1, DeadAreFew

\* One message that shows none of its replies.
LEMMA OneEnds ==
  ASSUME Sound, Sound', PathsReachLeaves, NEW x, DeadEnds' \subseteq DeadEnds \cup {x},
         DeadChats' \subseteq DeadChats, cuts' = cuts + 1
  PROVE  PathsReachLeaves'
<1>1. DeadChats' \subseteq DeadChats \cup {}
  OBVIOUS
<1> QED
  BY <1>1, DeadAreFew

\* Or one chat that shows none of its messages.
LEMMA OneChatEnds ==
  ASSUME Sound, Sound', PathsReachLeaves, NEW x, DeadEnds' \subseteq DeadEnds,
         DeadChats' \subseteq DeadChats \cup {x}, cuts' = cuts + 1
  PROVE  PathsReachLeaves'
<1>1. DeadEnds' \subseteq DeadEnds \cup {}
  OBVIOUS
<1> QED
  BY <1>1, DeadAreFew

\* A new row leaves at most its parent without what it should show.
LEMMA InsertedDead ==
  ASSUME TypeOK, TreeWellFormed, NEW row, Hangs(row), NEW linked \in BOOLEAN,
         msgs' = Inserted(NewId, row, linked)
  PROVE  /\ linked \/ row.parent = None => DeadEnds' \subseteq DeadEnds
         /\ DeadEnds' \subseteq DeadEnds \cup {row.parent}
<1>1. /\ Grown(row) /\ NewId # None /\ NewId \notin DOMAIN msgs /\ None \notin DOMAIN msgs
      /\ IsTree(chats, msgs)
  BY InsertedIs, NewIdIs, TreeIs
<1>2. /\ DOMAIN msgs' = DOMAIN msgs \cup {NewId} /\ msgs'[NewId] = row
      /\ \A m \in DOMAIN msgs : msgs'[m].parent = msgs[m].parent
      /\ \A m \in DOMAIN msgs : msgs'[m].child = None => msgs[m].child = None
  BY <1>1 DEF Grown
<1>3. ASSUME linked, row.parent # None PROVE msgs'[row.parent].child = NewId
  <2>1. row.parent \in DOMAIN msgs
    BY <1>3 DEF Hangs
  <2>2. msgs'[row.parent] = [msgs[row.parent] EXCEPT !.child = NewId]
    BY <1>1, <1>3, <2>1 DEF Inserted
  <2>3. msgs[row.parent] \in MessageType
    BY <2>1 DEF TypeOK
  <2> QED
    BY <2>2, <2>3 DEF MessageType
<1>4. ASSUME NEW m \in DeadEnds', m # row.parent \/ linked \/ row.parent = None
      PROVE  m \in DeadEnds
  <2>1. m \in DOMAIN msgs' /\ msgs'[m].child = None
    BY DEF DeadEnds
  <2>2. PICK k \in DOMAIN msgs' : msgs'[k].parent = m
    BY DEF DeadEnds
  <2>3. row.parent = None \/ row.parent \in DOMAIN msgs
    BY DEF Hangs
  <2>4. m # NewId
    BY <1>1, <1>2, <2>2, <2>3 DEF IsTree
  <2>5. m \in DOMAIN msgs /\ msgs[m].child = None
    BY <1>2, <2>1, <2>4
  <2>6. m # row.parent
    BY <1>1, <1>3, <1>4, <2>1, <2>5
  <2>7. k \in DOMAIN msgs /\ msgs[k].parent = m
    BY <1>2, <2>2, <2>6
  <2> QED
    BY <2>5, <2>7 DEF DeadEnds
<1> QED
  BY <1>4

\* A message that is linked ends no branch above it; one that is not, ends one.
LEMMA PersistDead ==
  ASSUME Sound, NEW c, NEW parent, NEW linked \in BOOLEAN, Placed(c, parent),
         Persist(c, parent, linked)
  PROVE  /\ linked \/ parent = None => DeadEnds' \subseteq DeadEnds
         /\ DeadEnds' \subseteq DeadEnds \cup {parent}
         /\ linked \/ parent # None => DeadChats' \subseteq DeadChats
         /\ DeadChats' \subseteq DeadChats \cup {c}
<1> DEFINE row == Message(c, "user", TRUE, parent, NoPrompt)
<1>1. TypeOK /\ TreeWellFormed /\ NewId # None /\ NewId \notin DOMAIN msgs
  BY NewIdIs DEF Sound
<1>2. /\ row.chat = c /\ row.parent = parent /\ row.child = None
      /\ msgs' = Inserted(NewId, row, linked)
  BY DEF Message, Persist
<1>3. Hangs(row)
  <2>1. c \in Nat /\ parent \in Nat
    <3>1. used.chat \in Nat /\ DOMAIN chats \subseteq 1..used.chat
      BY <1>1 DEF TypeOK
    <3> QED
      BY <1>1, <3>1, NewIdIs DEF Placed, None
  <2>2. row \in MessageType
    BY <2>1 DEF Message, MessageType, NoPrompt, PromptType, None
  <2> QED
    BY <1>2, <2>2 DEF Hangs, Placed
<1>4. /\ DOMAIN chats' = DOMAIN chats \cup {c}
      /\ \A d \in DOMAIN chats : d # c => chats'[d] = chats[d]
      /\ linked /\ parent = None => chats'[c] = NewId
      /\ parent # None /\ c \in DOMAIN chats => chats'[c] = chats[c]
  BY DEF Persist
<1> HIDE DEF row
<1>5. Grown(row)
  BY <1>1, <1>2, <1>3, InsertedIs
<1>6. \A d : d # c => Rows(d)' = Rows(d)
  BY <1>2, <1>5 DEF Grown, Rows
<1>7. ASSUME NEW d \in DeadChats', d # c \/ linked \/ parent # None PROVE d \in DeadChats
  <2>1. d \in DOMAIN chats' /\ chats'[d] = None /\ Rows(d)' # {}
    BY DEF DeadChats
  <2>2. CASE d # c
    BY <1>4, <1>6, <2>1, <2>2 DEF DeadChats
  <2>3. CASE d = c
    <3>1. parent # None
      BY <1>1, <1>4, <1>7, <2>1, <2>3
    <3>2. c \in DOMAIN chats /\ parent \in Rows(c)
      BY <3>1 DEF Placed, Rows
    <3> QED
      BY <1>4, <2>1, <2>3, <3>1, <3>2 DEF DeadChats
  <2> QED
    BY <2>2, <2>3
<1> QED
  BY <1>1, <1>2, <1>3, <1>7, InsertedDead

\* A send cut short ends one branch at most.
LEMMA SendCutDead == ASSUME Sound, Sound', PathsReachLeaves, SendCut PROVE PathsReachLeaves'
<1>1. cuts' = cuts + 1
  BY DEF SendCut
<1>2. ASSUME NEW c, NEW parent, Placed(c, parent), Persist(c, parent, FALSE)
      PROVE  PathsReachLeaves'
  <2>1. CASE parent = None
    <3>1. DeadEnds' \subseteq DeadEnds /\ DeadChats' \subseteq DeadChats \cup {c}
      BY <1>2, <2>1, PersistDead
    <3> QED
      BY <1>1, <3>1, OneChatEnds
  <2>2. CASE parent # None
    <3>1. DeadEnds' \subseteq DeadEnds \cup {parent} /\ DeadChats' \subseteq DeadChats
      BY <1>2, <2>2, PersistDead
    <3> QED
      BY <1>1, <3>1, OneEnds
  <2> QED
    BY <2>1, <2>2
<1>3. CASE \E c \in DOMAIN chats : \E parent \in Places(c) : Persist(c, parent, FALSE)
  BY <1>2, <1>3, PlacesArePlaced
<1>4. CASE Persist(used.chat + 1, None, FALSE)
  BY <1>2, <1>4 DEF Placed
<1>5. CASE /\ used' = [used EXCEPT !.chat = @ + 1]
           /\ chats' = [d \in DOMAIN chats \cup {used'.chat} |->
                          IF d \in DOMAIN chats THEN chats[d] ELSE None]
           /\ UNCHANGED msgs
  <2>1. DeadEnds' \subseteq DeadEnds
    BY <1>5 DEF DeadEnds
  <2>2. \A m \in DOMAIN msgs : msgs[m].chat \in DOMAIN chats
    BY TreeIs DEF Sound, IsTree
  <2>3. \A d : Rows(d)' = Rows(d)
    BY <1>5 DEF Rows
  <2>4. ASSUME NEW d \in DeadChats' PROVE d \in DeadChats
    <3>1. d \in DOMAIN chats' /\ chats'[d] = None /\ Rows(d) # {}
      BY <2>3 DEF DeadChats
    <3>2. d \in DOMAIN chats
      BY <2>2, <3>1 DEF Rows
    <3> QED
      BY <1>5, <3>1, <3>2 DEF DeadChats
  <2>5. cuts' >= cuts
    BY <1>1 DEF Sound, TypeOK
  <2> QED
    BY <2>1, <2>4, <2>5, NoneDies
<1> QED
  BY <1>3, <1>4, <1>5 DEF SendCut

\* A reply is shown below its question, unless its job was cut short.
LEMMA ReplyDead ==
  ASSUME Sound, Sound', PathsReachLeaves, NEW text \in BOOLEAN, NEW linked \in BOOLEAN,
         Reply(text, linked), IF linked THEN cuts' = cuts ELSE cuts' = cuts + 1
  PROVE  PathsReachLeaves'
<1> DEFINE t == line[1]
           row == Message(t.chat, "assistant", text, t.message, t.prompt)
<1>1. TypeOK /\ TreeWellFormed
  BY DEF Sound
<1>2. /\ running /\ t.kind = "reply" /\ t.chat # None
      /\ msgs' = Inserted(NewId, row, linked) /\ UNCHANGED chats
  BY DEF Reply
<1>3. 1 \in 1..Len(line) /\ t \in TurnType
  BY <1>1, <1>2 DEF Sound, RunnerIsFirst, TypeOK
<1>4. t.message \in DOMAIN msgs /\ msgs[t.message].chat = t.chat
  BY <1>2, <1>3, LineIs DEF Sound, Finds
<1>5. /\ row \in MessageType /\ row.chat = t.chat /\ row.parent = t.message
      /\ row.child = None
  <2>1. t.chat \in Nat /\ t.message \in Nat /\ t.prompt \in PromptType
    BY <1>2, <1>3 DEF TurnType
  <2> QED
    BY <2>1 DEF Message, MessageType, None
<1>6. Hangs(row)
  BY <1>4, <1>5 DEF Hangs
<1> HIDE DEF t, row
<1>7. Grown(row)
  BY <1>1, <1>2, <1>6, InsertedIs
<1>8. DeadChats' \subseteq DeadChats
  <2>1. \A d : d # t.chat => Rows(d)' = Rows(d)
    BY <1>5, <1>7 DEF Grown, Rows
  <2>2. Rows(t.chat) # {}
    BY <1>4 DEF Rows
  <2> QED
    BY <1>2, <2>1, <2>2 DEF DeadChats
<1>9. cuts \in Nat
  BY <1>1 DEF TypeOK
<1>10. CASE linked
  <2>1. DeadEnds' \subseteq DeadEnds /\ cuts' >= cuts
    <3>1. cuts' = cuts
      BY <1>10
    <3>2. DeadEnds' \subseteq DeadEnds
      BY <1>1, <1>2, <1>6, <1>10, InsertedDead
    <3> QED
      BY <1>9, <3>1, <3>2
  <2> QED
    BY <1>8, <2>1, NoneDies
<1>11. CASE ~ linked
  <2>1. DeadEnds' \subseteq DeadEnds \cup {row.parent}
    BY <1>1, <1>2, <1>6, InsertedDead
  <2>2. cuts' = cuts + 1
    BY <1>11
  <2> QED
    BY <1>8, <2>1, <2>2, OneEnds
<1> QED
  BY <1>10, <1>11

\* What is shown instead is a version, so the path goes on.
LEMMA SwitchDead == ASSUME Sound, Sound', PathsReachLeaves, Switch PROVE PathsReachLeaves'
<1>1. TypeOK /\ IsTree(chats, msgs)
  BY TreeIs DEF Sound
<1>2. PICK c \in DOMAIN chats, m \in DOMAIN msgs :
        /\ IF msgs[m].parent = None
           THEN chats' = [chats EXCEPT ![c] = m] /\ UNCHANGED msgs
           ELSE msgs' = [msgs EXCEPT ![msgs[m].parent].child = m] /\ UNCHANGED chats
        /\ UNCHANGED <<files, used, line, running, searches, summaries, cuts, restarts>>
  BY DEF Switch, Rows
<1>3. m # None /\ cuts' >= cuts
  BY <1>1, <1>2, NewIdIs DEF TypeOK
<1>4. CASE msgs[m].parent = None
  <2>1. DeadEnds' = DeadEnds /\ \A d : Rows(d)' = Rows(d)
    BY <1>2, <1>4 DEF DeadEnds, Rows
  <2>2. DeadChats' \subseteq DeadChats
    BY <1>2, <1>3, <1>4, <2>1 DEF DeadChats
  <2> QED
    BY <1>3, <2>1, <2>2, NoneDies
<1>5. CASE msgs[m].parent # None
  <2> DEFINE p == msgs[m].parent
  <2>1. p \in DOMAIN msgs /\ msgs' = [msgs EXCEPT ![p].child = m] /\ UNCHANGED chats
    BY <1>1, <1>2, <1>5 DEF IsTree
  <2>2. \A k \in DOMAIN msgs : msgs[k] \in MessageType
    BY <1>1 DEF TypeOK
  <2>3. /\ DOMAIN msgs' = DOMAIN msgs
        /\ \A k \in DOMAIN msgs :
             msgs'[k] = IF k = p THEN [msgs[p] EXCEPT !.child = m] ELSE msgs[k]
    BY <2>1
  <2> HIDE DEF p
  <2>4. \A k \in DOMAIN msgs :
          /\ msgs'[k].parent = msgs[k].parent /\ msgs'[k].chat = msgs[k].chat
          /\ msgs'[k].child = None => msgs[k].child = None
    BY <1>3, <2>1, <2>2, <2>3 DEF MessageType
  <2>5. DeadEnds' \subseteq DeadEnds
    BY <2>3, <2>4 DEF DeadEnds
  <2>6. \A d : Rows(d)' = Rows(d)
    BY <2>3, <2>4 DEF Rows
  <2>7. DeadChats' \subseteq DeadChats
    BY <2>1, <2>6 DEF DeadChats
  <2> QED
    BY <1>3, <2>5, <2>7, NoneDies
<1> QED
  BY <1>4, <1>5

\* A summary changes no pointer.
LEMMA StoreSummaryDead ==
  ASSUME Sound, Sound', PathsReachLeaves, StoreSummary PROVE PathsReachLeaves'
<1>1. PICK s \in summaries :
        /\ msgs' = [m \in DOMAIN msgs |->
                      IF m = s.boundary THEN [msgs[m] EXCEPT !.summary = s.of] ELSE msgs[m]]
        /\ UNCHANGED <<chats, files, used, line, running, searches, cuts, restarts>>
  BY DEF StoreSummary
<1>2. \A m \in DOMAIN msgs : msgs[m] \in MessageType
  BY DEF Sound, TypeOK
<1>3. /\ DOMAIN msgs' = DOMAIN msgs
      /\ \A m \in DOMAIN msgs :
           /\ msgs'[m].parent = msgs[m].parent /\ msgs'[m].chat = msgs[m].chat
           /\ msgs'[m].child = msgs[m].child
  BY <1>1, <1>2 DEF MessageType
<1>4. DeadEnds' \subseteq DeadEnds /\ \A d : Rows(d)' = Rows(d)
  BY <1>3 DEF DeadEnds, Rows
<1>5. DeadChats' \subseteq DeadChats /\ cuts' >= cuts
  BY <1>1, <1>4 DEF DeadChats, Sound, TypeOK
<1> QED
  BY <1>4, <1>5, NoneDies

\* A chat that goes takes its dead ends along.
LEMMA DeleteDead == ASSUME Sound, Sound', PathsReachLeaves, Delete PROVE PathsReachLeaves'
<1>1. PICK c \in DOMAIN chats :
        /\ chats' = [d \in DOMAIN chats \ {c} |-> chats[d]]
        /\ msgs' = [m \in DOMAIN msgs \ Rows(c) |-> msgs[m]]
        /\ UNCHANGED <<used, running, searches, summaries, cuts, restarts>>
  BY DEF Delete
<1>2. /\ \A m : m \in DOMAIN msgs' <=> (m \in DOMAIN msgs /\ msgs[m].chat # c)
      /\ \A m \in DOMAIN msgs' : msgs'[m] = msgs[m]
  BY <1>1 DEF Rows
<1>3. DeadEnds' \subseteq DeadEnds
  BY <1>2 DEF DeadEnds
<1>4. \A d : d # c => Rows(d)' = Rows(d)
  BY <1>2 DEF Rows
<1>5. DeadChats' \subseteq DeadChats /\ cuts' >= cuts
  BY <1>1, <1>4 DEF DeadChats, Sound, TypeOK
<1> QED
  BY <1>3, <1>5, NoneDies

\* The migration ends the dead chats, and leaves a line with no end but its last.
LEMMA RestartDead == ASSUME Sound, Sound', PathsReachLeaves, Restart PROVE PathsReachLeaves'
<1>1. TypeOK /\ IsTree(chats, msgs) /\ IsTree(chats', msgs')
  BY TreeIs DEF Sound
<1>2. /\ chats' = [c \in DOMAIN chats |-> IF c \in Untreed THEN FirstId(Rows(c)) ELSE chats[c]]
      /\ msgs' = [m \in DOMAIN msgs |-> Migrated(m)] /\ UNCHANGED cuts
  BY DEF Restart
<1>3. ASSUME NEW m \in DOMAIN msgs
      PROVE  /\ m \in DOMAIN msgs' /\ msgs'[m].chat = msgs[m].chat
             /\ msgs[m].chat \notin Untreed => msgs'[m] = msgs[m]
             /\ msgs[m].chat \in Untreed =>
                  /\ msgs'[m].parent = LastId({k \in Rows(msgs[m].chat) : k < m})
                  /\ msgs'[m].child = FirstId({k \in Rows(msgs[m].chat) : k > m})
  <2>1. msgs[m] \in MessageType /\ msgs'[m] = Migrated(m) /\ m \in DOMAIN msgs'
    BY <1>1, <1>2 DEF TypeOK
  <2>2. CASE msgs[m].chat \notin Untreed
    BY <2>1, <2>2 DEF Migrated
  <2>3. CASE msgs[m].chat \in Untreed
    BY <2>1, <2>3 DEF Migrated, MessageType
  <2> QED
    BY <2>2, <2>3
<1>4. DOMAIN msgs' = DOMAIN msgs /\ None \notin DOMAIN msgs /\ \A m \in DOMAIN msgs : m \in Nat
  BY <1>1, <1>2, NewIdIs
<1>5. ASSUME NEW m \in DeadEnds' PROVE m \in DeadEnds
  <2>1. m \in DOMAIN msgs /\ msgs'[m].child = None
    BY <1>4 DEF DeadEnds
  <2>2. PICK k \in DOMAIN msgs : msgs'[k].parent = m
    BY <1>4 DEF DeadEnds
  <2>3. msgs'[k].chat = msgs'[m].chat /\ m < k
    BY <1>1, <1>4, <2>1, <2>2 DEF IsTree
  <2>4. msgs[k].chat = msgs[m].chat
    BY <1>3, <2>1, <2>3
  <2>5. CASE msgs[m].chat \in Untreed
    <3> DEFINE later == {i \in Rows(msgs[m].chat) : i > m}
    <3>1. k \in later /\ later \in SUBSET Nat /\ later \subseteq DOMAIN msgs
      BY <1>4, <2>1, <2>3, <2>4 DEF Rows
    <3>2. msgs'[m].child = FirstId(later)
      BY <1>3, <2>1, <2>5
    <3> HIDE DEF later
    <3>3. FirstId(later) \in later
      BY <3>1, FirstIdIs
    <3> QED
      BY <1>4, <2>1, <3>1, <3>2, <3>3
  <2>6. CASE msgs[m].chat \notin Untreed
    BY <1>3, <2>1, <2>2, <2>4, <2>6 DEF DeadEnds
  <2> QED
    BY <2>5, <2>6
<1>6. ASSUME NEW c \in DeadChats' PROVE FALSE
  <2>1. c \in DOMAIN chats /\ chats'[c] = None /\ Rows(c)' # {}
    BY <1>2 DEF DeadChats
  <2>2. Rows(c)' = Rows(c)
    BY <1>3, <1>4 DEF Rows
  <2>3. c \in Untreed
    BY <1>2, <2>1 DEF Untreed
  <2>4. Rows(c) \in SUBSET Nat /\ Rows(c) \subseteq DOMAIN msgs
    BY <1>4 DEF Rows
  <2>5. FirstId(Rows(c)) \in Rows(c)
    BY <2>1, <2>2, <2>4, FirstIdIs
  <2> QED
    BY <1>2, <1>4, <2>1, <2>3, <2>4, <2>5
<1>7. cuts' >= cuts
  BY <1>1, <1>2 DEF TypeOK
<1> QED
  BY <1>5, <1>6, <1>7, NoneDies

\* Steps that leave the tree alone.
LEMMA QuietDead ==
  ASSUME Sound, Sound', PathsReachLeaves, UNCHANGED <<chats, msgs>>, cuts' >= cuts
  PROVE  PathsReachLeaves'
<1>1. DeadEnds' \subseteq DeadEnds /\ DeadChats' \subseteq DeadChats
  BY DEF DeadEnds, DeadChats, Rows
<1> QED
  BY <1>1, NoneDies

\* A step adds a dead end only when it counts a handler cut short.
LEMMA StepReachesLeaves ==
  ASSUME Sound, Sound', PathsReachLeaves, [Next]_vars PROVE PathsReachLeaves'
<1>0. cuts \in Nat /\ (UNCHANGED cuts => cuts' >= cuts)
  BY DEF Sound, TypeOK
<1>1. ASSUME NEW c, NEW parent, Placed(c, parent), Persist(c, parent, TRUE), UNCHANGED cuts
      PROVE  PathsReachLeaves'
  BY <1>0, <1>1, PersistDead, NoneDies
<1>2. CASE SendInChat
  BY <1>1, <1>2, PlacesArePlaced DEF SendInChat, Send
<1>3. CASE SendNew
  BY <1>1, <1>3 DEF SendNew, Send, Placed
<1>4. CASE SendCut
  BY <1>4, SendCutDead
<1>5. CASE EndSearch
  <2>1. PICK s \in searches : Land(s) \/ Abandon(s)
    BY <1>5 DEF EndSearch
  <2>2. CASE Land(s)
    <3>1. Placed(s.chat, s.parent)
      BY <2>2, SearchesAre DEF Sound, HasPlace, Placed, Land
    <3> QED
      BY <1>1, <2>2, <3>1 DEF Land
  <2>3. CASE Abandon(s)
    BY <1>0, <2>3, QuietDead DEF Abandon
  <2> QED
    BY <2>1, <2>2, <2>3
<1>6. CASE Answer
  <2>1. PICK text \in BOOLEAN : Reply(text, TRUE) /\ UNCHANGED cuts
    BY <1>6 DEF Answer
  <2> QED
    BY <2>1, ReplyDead
<1>7. CASE AnswerCut
  <2>1. PICK text \in BOOLEAN : Reply(text, FALSE) /\ cuts' = cuts + 1
    BY <1>7 DEF AnswerCut
  <2> QED
    BY <2>1, ReplyDead
<1>8. CASE Switch
  BY <1>8, SwitchDead
<1>9. CASE StoreSummary
  BY <1>9, StoreSummaryDead
<1>10. CASE Delete
  BY <1>10, DeleteDead
<1>11. CASE DeleteCut
  <2>1. UNCHANGED <<chats, msgs>> /\ cuts' >= cuts
    BY <1>0, <1>11 DEF DeleteCut
  <2> QED
    BY <2>1, QuietDead
<1>12. CASE Restart
  BY <1>12, RestartDead
<1>13. CASE BeginSearch \/ Start \/ Drop \/ WriteFile \/ Compact \/ Summarise \/ UNCHANGED vars
  <2>1. UNCHANGED <<chats, msgs, cuts>>
    BY <1>13 DEF BeginSearch, Start, Drop, WriteFile, Compact, Summarise, vars
  <2> QED
    BY <1>0, <2>1, QuietDead
<1> QED
  BY <1>2, <1>3, <1>4, <1>5, <1>6, <1>7, <1>8, <1>9, <1>10, <1>11, <1>12, <1>13 DEF Next

\* So the dead ends are never more than the handlers cut short.
LEMMA AlwaysReachesLeaves == Spec => []PathsReachLeaves
<1>1. Init => PathsReachLeaves
  <2>1. Init => DeadEnds = {} /\ DeadChats = {} /\ cuts = 0
    BY DEF Init, DeadEnds, DeadChats
  <2> QED
    BY <2>1, FS_EmptySet DEF PathsReachLeaves
<1>2. Sound /\ Sound' /\ PathsReachLeaves /\ [Next]_vars => PathsReachLeaves'
  BY StepReachesLeaves
<1> QED
  BY <1>1, <1>2, AlwaysSound, PTL DEF Spec

\* What a branch shows and what the model is told of it are the whole branch,
\* for any number of messages, forks, compactions and handlers cut short: the
\* path on screen ends above replies at most once per handler cut short, a
\* summary stands for its message and all above it, and a prompt tells every
\* message above the question, once and in order, and none of another branch.
THEOREM BranchesStayWhole == Spec => []BranchesAreWhole
<1>1. Sound /\ Whole /\ PathsReachLeaves => BranchesAreWhole
  BY WholeTellsThePath DEF BranchesAreWhole
<1> QED
  BY <1>1, AlwaysSound, AlwaysWhole, AlwaysReachesLeaves, PTL

-----------------------------------------------------------------------------
(* Files *)

\* The versions in fs that a branch shows.
Shown(fs, path) == {v \in DOMAIN fs : fs[v].message \in path}

\* A version belongs to a message that is there, and to its chat.
FilesHaveRows ==
  \A v \in DOMAIN files :
    files[v].message \in DOMAIN msgs /\ msgs[files[v].message].chat = files[v].chat

\* A turn that was sent on a quiet branch sees the newest version on it.
Sees(t, ms, fs) ==
  t.kind = "reply" /\ t.tools /\ t.alone /\ t.message \in DOMAIN ms =>
    t.view = LastId(Shown(fs, Branch(ms, t.message)))

\* No other turn of the line answers a message of that branch.
Apart(l, ms) ==
  \A i, k \in 1..Len(l) :
    /\ l[i].kind = "reply" /\ l[i].alone /\ l[i].message \in DOMAIN ms
    /\ l[k].kind = "reply" /\ l[k].message \in Branch(ms, l[i].message)
    => k = i

Fresh ==
  /\ FilesHaveRows
  /\ \A i \in 1..Len(line) : Sees(line[i], msgs, files)
  /\ Apart(line, msgs)

\* The rows and the versions of a chat that stays, stay; a chat that goes takes
\* its versions along.
RowsFollow == \A m \in DOMAIN msgs : msgs[m].chat \in DOMAIN chats' => m \in DOMAIN msgs'
FilesFollow ==
  /\ \A v \in DOMAIN files :
       files[v].chat \in DOMAIN chats' => v \in DOMAIN files' /\ files'[v] = files[v]
  /\ \A v \in DOMAIN files' :
       /\ v \in DOMAIN files /\ files'[v] = files[v]
       /\ files[v].chat \in DOMAIN chats => files[v].chat \in DOMAIN chats'

\* The replies of the line l are different ones of the line k, all but where
\* they are to be stored.
Alike(t, u) ==
  /\ t.kind = u.kind /\ t.message = u.message /\ t.tools = u.tools
  /\ t.alone = u.alone /\ t.view = u.view
Thinned(l, k) ==
  \E at \in [1..Len(l) -> Nat] :
    /\ \A i, j \in 1..Len(l) : at[i] = at[j] => i = j
    /\ \A i \in 1..Len(l) :
         l[i].kind = "reply" => at[i] \in 1..Len(k) /\ Alike(l[i], k[at[i]])

\* What the code reads of a branch is the last of the versions it shows.
LEMMA NewestIsLast == ASSUME NEW path PROVE Newest(path) = LastId(Shown(files, path))
BY DEF Newest, LastId, Shown

\* What a branch shows, it shows while it stays.
LEMMA ShownStays ==
  ASSUME Sound, Sound', FilesHaveRows, Onward, RowsFollow, FilesFollow
  PROVE  /\ FilesHaveRows'
         /\ \A m \in DOMAIN msgs \cap DOMAIN msgs' :
              Shown(files', Branch(msgs', m)) = Shown(files, Branch(msgs, m))
<1>1. IsTree(chats, msgs) /\ IsTree(chats', msgs')
  BY TreeIs DEF Sound
<1>2. ASSUME NEW v \in DOMAIN files'
      PROVE  files'[v].message \in DOMAIN msgs' /\ msgs'[files'[v].message].chat = files'[v].chat
  <2> DEFINE m == files[v].message
  <2>1. v \in DOMAIN files /\ files'[v] = files[v] /\ m \in DOMAIN msgs
        /\ msgs[m].chat = files[v].chat
    BY DEF FilesFollow, FilesHaveRows
  <2>2. msgs[m].chat \in DOMAIN chats
    BY <1>1, <2>1 DEF IsTree
  <2>3. m \in DOMAIN msgs'
    BY <2>1, <2>2 DEF FilesFollow, RowsFollow
  <2> HIDE DEF m
  <2>4. msgs'[m].chat = msgs[m].chat
    BY <2>1, <2>3 DEF Onward, SameWords
  <2> QED
    BY <2>1, <2>3, <2>4 DEF m
<1>3. ASSUME NEW m \in DOMAIN msgs \cap DOMAIN msgs'
      PROVE  Shown(files', Branch(msgs', m)) = Shown(files, Branch(msgs, m))
  <2> DEFINE B == Branch(msgs, m)
  <2>1. Branch(msgs', m) = B /\ B \subseteq DOMAIN msgs /\ B \subseteq DOMAIN msgs'
    <3>1. Branch(msgs', m) = B
      BY DEF Onward
    <3> QED
      BY <3>1, BranchLeast
  <2> HIDE DEF B
  <2>2. ASSUME NEW v \in DOMAIN files, files[v].message \in B
        PROVE  v \in DOMAIN files' /\ files'[v] = files[v]
    <3> DEFINE k == files[v].message
    <3>1. k \in DOMAIN msgs /\ k \in DOMAIN msgs' /\ msgs[k].chat = files[v].chat
      BY <2>1, <2>2 DEF FilesHaveRows
    <3> HIDE DEF k
    <3>2. msgs'[k].chat = msgs[k].chat /\ msgs'[k].chat \in DOMAIN chats'
      BY <1>1, <3>1 DEF IsTree, Onward, SameWords
    <3> QED
      BY <3>1, <3>2 DEF FilesFollow
  <2>3. \A v \in DOMAIN files' : v \in DOMAIN files /\ files'[v] = files[v]
    BY DEF FilesFollow
  <2> QED
    BY <2>1, <2>2, <2>3 DEF Shown, B
<1> QED
  BY <1>2, <1>3 DEF FilesHaveRows

\* A turn that is there is about an old message.
LEMMA LineIsOld ==
  ASSUME Sound, Sound', Whole, Onward, NEW i \in 1..Len(line), line[i].kind = "reply"
  PROVE  /\ line[i].message \in Nat /\ line[i].message <= used.message
         /\ line[i].message \in DOMAIN msgs' => line[i].message \in DOMAIN msgs
<1>1. line[i].message \in Nat
  BY DEF Sound, TypeOK, TurnType
<1>2. line[i].message <= used.message /\ used.message \in Nat
  BY DEF Whole, Belongs, Sound, TypeOK
<1> QED
  BY <1>1, <1>2 DEF Onward

\* Turns that stay while the tree moves on stay fresh.
LEMMA FreshStays ==
  ASSUME Sound, Sound', Whole, Fresh, Onward, RowsFollow, FilesFollow, Thinned(line', line)
  PROVE  Fresh'
<1>1. PICK at \in [1..Len(line') -> Nat] :
        /\ \A i, j \in 1..Len(line') : at[i] = at[j] => i = j
        /\ \A i \in 1..Len(line') :
             line'[i].kind = "reply" => at[i] \in 1..Len(line) /\ Alike(line'[i], line[at[i]])
  BY DEF Thinned
<1>2. /\ FilesHaveRows'
      /\ \A m \in DOMAIN msgs \cap DOMAIN msgs' :
           Shown(files', Branch(msgs', m)) = Shown(files, Branch(msgs, m))
  BY ShownStays DEF Fresh
<1>3. ASSUME NEW i \in 1..Len(line'), line'[i].kind = "reply", line'[i].message \in DOMAIN msgs'
      PROVE  /\ at[i] \in 1..Len(line) /\ Alike(line'[i], line[at[i]])
             /\ line[at[i]].message \in DOMAIN msgs \cap DOMAIN msgs'
  BY <1>1, <1>3, LineIsOld DEF Alike
<1>4. ASSUME NEW i \in 1..Len(line') PROVE Sees(line'[i], msgs', files')
  <2> SUFFICES ASSUME line'[i].kind = "reply", line'[i].tools, line'[i].alone,
                      line'[i].message \in DOMAIN msgs'
               PROVE  line'[i].view = LastId(Shown(files', Branch(msgs', line'[i].message)))
    BY DEF Sees
  <2>1. /\ at[i] \in 1..Len(line) /\ Alike(line'[i], line[at[i]])
        /\ line[at[i]].message \in DOMAIN msgs \cap DOMAIN msgs'
    BY <1>3
  <2>2. line[at[i]].view = LastId(Shown(files, Branch(msgs, line[at[i]].message)))
    BY <2>1 DEF Fresh, Sees, Alike
  <2> QED
    BY <1>2, <2>1, <2>2 DEF Alike
<1>5. ASSUME NEW i \in 1..Len(line'), NEW k \in 1..Len(line'),
             line'[i].kind = "reply", line'[i].alone, line'[i].message \in DOMAIN msgs',
             line'[k].kind = "reply", line'[k].message \in Branch(msgs', line'[i].message)
      PROVE  k = i
  <2>1. /\ at[i] \in 1..Len(line) /\ Alike(line'[i], line[at[i]])
        /\ line[at[i]].message \in DOMAIN msgs \cap DOMAIN msgs'
    BY <1>3, <1>5
  <2>2. at[k] \in 1..Len(line) /\ Alike(line'[k], line[at[k]])
    BY <1>1, <1>5
  <2>3. Branch(msgs', line[at[i]].message) = Branch(msgs, line[at[i]].message)
    BY <2>1 DEF Onward
  <2>4. at[k] = at[i]
    BY <1>5, <2>1, <2>2, <2>3 DEF Fresh, Apart, Alike
  <2> QED
    BY <1>1, <2>4
<1>6. Apart(line', msgs')
  BY <1>5 DEF Apart
<1> QED
  BY <1>2, <1>4, <1>6 DEF Fresh

\* A turn that joins, alone on its branch if it says so, and sees it then.
LEMMA FreshJoins ==
  ASSUME Sound, Sound', Whole, Fresh, Onward, RowsFollow, FilesFollow,
         NEW t, line' = Append(line, t), t.kind = "reply", t.message = NewId,
         NewId \in DOMAIN msgs',
         t.tools /\ t.alone => t.view = Newest(Branch(msgs, msgs'[NewId].parent)),
         t.alone => QuietOn(Branch(msgs, msgs'[NewId].parent)),
         msgs'[NewId].parent \in DOMAIN msgs' <=> msgs'[NewId].parent \in DOMAIN msgs
  PROVE  Fresh'
<1> DEFINE p == msgs'[NewId].parent
           n == Len(line) + 1
<1>1. /\ FilesHaveRows'
      /\ \A m \in DOMAIN msgs \cap DOMAIN msgs' :
           Shown(files', Branch(msgs', m)) = Shown(files, Branch(msgs, m))
  BY ShownStays DEF Fresh
<1>2. line \in Seq(TurnType) /\ Len(line') = n /\ line'[n] = t
      /\ \A i \in 1..Len(line) : line'[i] = line[i]
  BY DEF Sound, TypeOK
<1>3. Len(line) \in Nat /\ n \notin 1..Len(line) /\ \A i \in 1..n : i \in 1..Len(line) \/ i = n
  BY <1>2
<1>4. TypeOK /\ NewId \notin DOMAIN msgs /\ NewId = used.message + 1 /\ used.message \in Nat
  BY NewIdIs DEF Sound, TypeOK
<1>5. Branch(msgs', NewId) = {NewId} \cup Branch(msgs', p)
  BY BranchGrows
<1>6. Branch(msgs', p) \subseteq Branch(msgs, p)
  <2>1. CASE p \in DOMAIN msgs'
    <3>1. p \in DOMAIN msgs \cap DOMAIN msgs'
      BY <2>1
    <3> HIDE DEF p
    <3> QED
      BY <3>1 DEF Onward
  <2>2. CASE p \notin DOMAIN msgs'
    <3> HIDE DEF p
    <3> QED
      BY <2>2, NoBranch
  <2> QED
    BY <2>1, <2>2
<1> HIDE DEF p, n
<1>7. ASSUME NEW i \in 1..Len(line) PROVE Sees(line[i], msgs', files')
  <2> SUFFICES ASSUME line[i].kind = "reply", line[i].tools, line[i].alone,
                      line[i].message \in DOMAIN msgs'
               PROVE  line[i].view = LastId(Shown(files', Branch(msgs', line[i].message)))
    BY DEF Sees
  <2>1. line[i].message \in DOMAIN msgs
    BY LineIsOld
  <2> QED
    BY <1>1, <2>1 DEF Fresh, Sees
<1>8. Sees(t, msgs', files')
  <2> SUFFICES ASSUME t.tools, t.alone
               PROVE  t.view = LastId(Shown(files', Branch(msgs', NewId)))
    BY DEF Sees
  <2>1. t.view = LastId(Shown(files, Branch(msgs, p)))
    BY NewestIsLast DEF p
  <2>2. Shown(files', Branch(msgs', NewId)) = Shown(files', Branch(msgs', p))
    <3>1. ASSUME NEW v \in DOMAIN files' PROVE files'[v].message # NewId
      <4>1. v \in DOMAIN files /\ files'[v] = files[v]
        BY DEF FilesFollow
      <4> QED
        BY <1>4, <4>1 DEF Fresh, FilesHaveRows
    <3> QED
      BY <1>5, <3>1 DEF Shown
  <2>3. Shown(files', Branch(msgs', p)) = Shown(files, Branch(msgs, p))
    <3>1. CASE p \in DOMAIN msgs'
      BY <1>1, <3>1 DEF p
    <3>2. CASE p \notin DOMAIN msgs'
      <4>1. p \notin DOMAIN msgs
        BY <3>2 DEF p
      <4> QED
        BY <3>2, <4>1, NoBranch DEF Shown
    <3> QED
      BY <3>1, <3>2
  <2> QED
    BY <2>1, <2>2, <2>3
<1>9. \A i \in 1..Len(line) :
        line[i].kind = "reply" => line[i].message # NewId
  <2>1. ASSUME NEW i \in 1..Len(line), line[i].kind = "reply" PROVE line[i].message # NewId
    <3>1. line[i].message \in Nat /\ line[i].message <= used.message
      BY <2>1, LineIsOld
    <3> QED
      BY <1>4, <3>1
  <2> QED
    BY <2>1
<1>10. ASSUME NEW i \in 1..n, NEW k \in 1..n,
              line'[i].kind = "reply", line'[i].alone, line'[i].message \in DOMAIN msgs',
              line'[k].kind = "reply", line'[k].message \in Branch(msgs', line'[i].message)
       PROVE  k = i
  <2>1. CASE i = n /\ k \in 1..Len(line)
    <3>1. line[k].message \in Branch(msgs, p) /\ t.alone /\ line[k].kind = "reply"
      BY <1>2, <1>5, <1>6, <1>9, <1>10, <2>1
    <3> QED
      BY <2>1, <3>1 DEF QuietOn, p
  <2>2. CASE i \in 1..Len(line)
    <3>1. line[i].message \in DOMAIN msgs \cap DOMAIN msgs' /\ line[i].kind = "reply" /\ line[i].alone
      BY <1>2, <1>10, <2>2, LineIsOld
    <3>2. Branch(msgs', line[i].message) = Branch(msgs, line[i].message)
      BY <3>1 DEF Onward
    <3>3. NewId \notin Branch(msgs, line[i].message)
      BY <1>4, BranchLeast
    <3>4. k \in 1..Len(line)
      BY <1>2, <1>3, <1>10, <2>2, <3>2, <3>3
    <3> QED
      BY <1>2, <1>10, <2>2, <3>1, <3>2, <3>4 DEF Fresh, Apart
  <2> QED
    BY <1>3, <2>1, <2>2
<1>11. Apart(line', msgs')
  BY <1>2, <1>10 DEF Apart
<1>12. \A i \in 1..Len(line') : Sees(line'[i], msgs', files')
  BY <1>2, <1>3, <1>7, <1>8
<1> QED
  BY <1>1, <1>11, <1>12 DEF Fresh

-----------------------------------------------------------------------------
(* What every step keeps *)

\* A chat that stays keeps its rows, with their words and their places.
MovesOn == Onward /\ RowsFollow

\* A message written in its place takes nothing away.
LEMMA PersistMovesOn ==
  ASSUME Sound, Sound', NEW c, NEW parent, NEW linked \in BOOLEAN,
         Placed(c, parent), Persist(c, parent, linked), UNCHANGED files
  PROVE  MovesOn /\ FilesFollow
<1>1. Onward
  BY PersistOnward
<1>2. DOMAIN msgs \subseteq DOMAIN msgs'
  BY DEF Persist, Inserted
<1>3. DOMAIN chats \subseteq DOMAIN chats'
  BY DEF Persist
<1> QED
  BY <1>1, <1>2, <1>3 DEF MovesOn, RowsFollow, FilesFollow

\* Nor does a step that leaves the rows and the chats where they are.
LEMMA IdleMovesOn ==
  ASSUME Sound, Sound', UNCHANGED <<chats, msgs>>, used'.message = used.message
  PROVE  MovesOn
<1>1. used.message <= used'.message
  BY DEF Sound, TypeOK
<1>2. Onward
  BY <1>1, OnwardIs DEF SameWords
<1> QED
  BY <1>2 DEF MovesOn, RowsFollow

\* The steps of one actor only: all but the migration of a restart, which
\* takes up every chat at once.
LEMMA StepMovesOn ==
  ASSUME Sound, Sound', Whole, [Next]_vars, ~ Restart
  PROVE  MovesOn /\ (WriteFile \/ FilesFollow)
<1>1. CASE SendInChat
  <2>0. PICK c \in DOMAIN chats : \E parent \in Places(c) : Send(c, parent)
    BY <1>1 DEF SendInChat
  <2>1. PICK parent \in Places(c) : Send(c, parent)
    BY <2>0
  <2>2. Persist(c, parent, TRUE) /\ UNCHANGED files
    BY <2>1 DEF Send
  <2>3. Placed(c, parent)
    BY PlacesArePlaced
  <2> QED
    BY <2>2, <2>3, PersistMovesOn
<1>2. CASE SendNew
  <2>1. Persist(used.chat + 1, None, TRUE) /\ UNCHANGED files
    BY <1>2 DEF SendNew, Send
  <2>2. Placed(used.chat + 1, None)
    BY DEF Placed
  <2> QED
    BY <2>1, <2>2, PersistMovesOn
<1>3. CASE SendCut
  <2>1. UNCHANGED files
    BY <1>3 DEF SendCut
  <2>2. CASE \E c \in DOMAIN chats : \E parent \in Places(c) : Persist(c, parent, FALSE)
    BY <2>1, <2>2, PlacesArePlaced, PersistMovesOn
  <2>3. CASE Persist(used.chat + 1, None, FALSE)
    <3>1. Placed(used.chat + 1, None)
      BY DEF Placed
    <3> QED
      BY <2>1, <2>3, <3>1, PersistMovesOn
  <2>4. CASE /\ used' = [used EXCEPT !.chat = @ + 1]
             /\ chats' = [d \in DOMAIN chats \cup {used'.chat} |->
                            IF d \in DOMAIN chats THEN chats[d] ELSE None]
             /\ UNCHANGED msgs
    <3>1. Onward
      BY <2>4, ChatOnward
    <3>2. DOMAIN chats \subseteq DOMAIN chats' /\ UNCHANGED <<msgs, files>>
      BY <2>1, <2>4
    <3> QED
      BY <3>1, <3>2 DEF MovesOn, RowsFollow, FilesFollow
  <2> QED
    BY <1>3, <2>2, <2>3, <2>4 DEF SendCut
<1>4. CASE \E s \in searches : Land(s)
  <2>1. PICK s \in searches : Land(s)
    BY <1>4
  <2>2. Placed(s.chat, s.parent)
    BY <2>1, SearchesAre DEF Sound, HasPlace, Placed, Land
  <2>3. Persist(s.chat, s.parent, TRUE) /\ UNCHANGED files
    BY <2>1 DEF Land
  <2> QED
    BY <2>2, <2>3, PersistMovesOn
<1>5. CASE Answer \/ AnswerCut
  <2>1. PICK text \in BOOLEAN, linked \in BOOLEAN : Reply(text, linked)
    BY <1>5 DEF Answer, AnswerCut
  <2>2. Onward
    BY <2>1, ReplyOnward
  <2>3. DOMAIN msgs \subseteq DOMAIN msgs' /\ UNCHANGED <<chats, files>>
    BY <2>1 DEF Reply, Inserted
  <2> QED
    BY <2>2, <2>3 DEF MovesOn, RowsFollow, FilesFollow
<1>6. CASE Switch
  <2>1. /\ Onward /\ DOMAIN chats' = DOMAIN chats /\ DOMAIN msgs' = DOMAIN msgs
        /\ UNCHANGED files
    BY <1>6, SwitchOnward DEF Switch
  <2> QED
    BY <2>1 DEF MovesOn, RowsFollow, FilesFollow
<1>7. CASE StoreSummary
  <2>1. Onward /\ DOMAIN msgs' = DOMAIN msgs /\ UNCHANGED <<chats, files>>
    BY <1>7, StoreOnward DEF StoreSummary
  <2> QED
    BY <2>1 DEF MovesOn, RowsFollow, FilesFollow
<1>8. CASE Delete
  <2>1. PICK c \in DOMAIN chats :
          /\ chats' = [d \in DOMAIN chats \ {c} |-> chats[d]]
          /\ msgs' = [m \in DOMAIN msgs \ Rows(c) |-> msgs[m]]
          /\ files' = [v \in {w \in DOMAIN files : files[w].chat # c} |-> files[v]]
          /\ UNCHANGED used
    BY <1>8 DEF Delete
  <2>2. Onward
    BY <2>1, DeleteOnward
  <2>3. RowsFollow
    BY <2>1 DEF RowsFollow, Rows
  <2>4. FilesFollow
    BY <2>1 DEF FilesFollow
  <2> QED
    BY <2>2, <2>3, <2>4 DEF MovesOn
<1>9. CASE \/ BeginSearch \/ (\E s \in searches : Abandon(s)) \/ Start \/ Drop \/ Compact
           \/ Summarise \/ DeleteCut \/ UNCHANGED vars
  <2>1. UNCHANGED <<chats, msgs, files, used>>
    BY <1>9 DEF BeginSearch, Abandon, Start, Drop, Compact, Summarise, DeleteCut, vars
  <2> QED
    BY <2>1, IdleMovesOn DEF FilesFollow
<1>10. CASE WriteFile
  <2>1. used \in [chat : Nat, message : Nat, file : Nat]
    BY DEF Sound, TypeOK
  <2>2. UNCHANGED <<chats, msgs>> /\ used'.message = used.message
    BY <1>10, <2>1 DEF WriteFile
  <2> QED
    BY <1>10, <2>2, IdleMovesOn
<1> QED
  BY <1>1, <1>2, <1>3, <1>4, <1>5, <1>6, <1>7, <1>8, <1>9, <1>10 DEF Next, EndSearch

\* Writing a file overwrites none.
LEMMA WriteKeepsFiles ==
  ASSUME Sound, WriteFile
  PROVE  /\ used.file + 1 \notin DOMAIN files
         /\ \A v \in DOMAIN files : v \in DOMAIN files' /\ files'[v] = files[v]
<1>1. used.file \in Nat /\ DOMAIN files \subseteq 1..used.file
  BY DEF Sound, TypeOK
<1>2. used.file + 1 \notin DOMAIN files
  BY <1>1
<1> QED
  BY <1>2 DEF WriteFile

-----------------------------------------------------------------------------
(* A quiet turn sees the newest version *)

\* The ways a line loses turns.
LEMMA SameIsThinned == ASSUME TypeOK PROVE Thinned(line, line)
<1>1. line \in Seq(TurnType)
  BY DEF TypeOK
<1> DEFINE at == [i \in 1..Len(line) |-> i]
<1>2. at \in [1..Len(line) -> Nat] /\ \A i \in 1..Len(line) : at[i] = i
  BY <1>1
<1> HIDE DEF at
<1> QED
  BY <1>2 DEF Thinned, Alike

\* The turn that ran leaves.
LEMMA TailIsThinned == ASSUME TypeOK, line # <<>> PROVE Thinned(Tail(line), line)
<1> DEFINE at == [i \in 1..Len(Tail(line)) |-> i + 1]
<1>1. line \in Seq(TurnType) /\ Len(line) \in Nat /\ Len(Tail(line)) = Len(line) - 1
      /\ \A i \in 1..Len(Tail(line)) : Tail(line)[i] = line[i + 1] /\ i + 1 \in 1..Len(line)
  BY DEF TypeOK
<1>2. at \in [1..Len(Tail(line)) -> Nat] /\ \A i \in 1..Len(Tail(line)) : at[i] = i + 1
  BY <1>1
<1> HIDE DEF at
<1>3. \A i, j \in 1..Len(Tail(line)) : at[i] = at[j] => i = j
  BY <1>2
<1> QED
  BY <1>1, <1>2, <1>3 DEF Thinned, Alike

\* One of them leaves.
LEMMA RestIsThinned ==
  ASSUME TypeOK, NEW i \in 1..Len(line) PROVE Thinned(RemoveAt(line, i), line)
<1> DEFINE l == RemoveAt(line, i)
           at == [k \in 1..Len(l) |-> IF k < i THEN k ELSE k + 1]
<1>0. Skips(l, line, i) /\ Len(line) \in Nat /\ i \in Nat
  BY RemovedIs DEF TypeOK
<1> HIDE DEF l
<1>1. Len(l) = Len(line) - 1 /\ \A k \in 1..Len(l) : l[k] = line[IF k < i THEN k ELSE k + 1]
  BY <1>0, Zenon DEF Skips
<1>2. at \in [1..Len(l) -> Nat] /\ \A k \in 1..Len(l) : at[k] = IF k < i THEN k ELSE k + 1
  BY <1>0, <1>1
<1> HIDE DEF at
<1>3. \A k \in 1..Len(l) : at[k] \in 1..Len(line)
  BY <1>0, <1>1, <1>2
<1>4. \A k, j \in 1..Len(l) : at[k] = at[j] => k = j
  BY <1>0, <1>1, <1>2
<1>5. \A k \in 1..Len(l) : l[k] = line[at[k]]
  BY <1>1, <1>2
<1>6. Thinned(l, line)
  BY <1>2, <1>3, <1>4, <1>5 DEF Thinned, Alike
<1> QED
  BY <1>6 DEF l

\* The turns of a chat leave, and the one that runs stays what it was.
LEMMA LooseIsThinned == ASSUME TypeOK, NEW c, CutLoose(c) PROVE Thinned(line', line)
<1> DEFINE left == Cardinality(Kept(c))
<1>1. PICK at \in [1..left -> Kept(c)] :
        /\ \A i, j \in 1..left : i < j => at[i] < at[j]
        /\ line' = [i \in 1..left |-> Loose(c, line[at[i]])]
  BY DEF CutLoose
<1>2. left \in Nat
  <2>1. Kept(c) \subseteq 1..Len(line) /\ Len(line) \in Nat
    BY DEF Kept, TypeOK
  <2>2. IsFiniteSet(1..Len(line))
    BY <2>1, FS_Interval
  <2>3. IsFiniteSet(Kept(c))
    BY <2>1, <2>2, FS_Subset
  <2> QED
    BY <2>3, FS_CardinalityType
<1> HIDE DEF left
<1>3. Len(line') = left
  BY <1>1, <1>2
<1>4. \A i \in 1..left : at[i] \in 1..Len(line) /\ at[i] \in Nat
  BY <1>1 DEF Kept
<1>5. ASSUME NEW i \in 1..left PROVE Alike(line'[i], line[at[i]])
  <2>1. line'[i] = Loose(c, line[at[i]]) /\ line[at[i]] \in TurnType
    BY <1>1, <1>4 DEF TypeOK
  <2>2. CASE Of(c, line[at[i]])
    <3>1. line[at[i]].kind = "reply" /\ line'[i] = [line[at[i]] EXCEPT !.chat = None]
      BY <2>1, <2>2 DEF Of, Loose
    <3> QED
      BY <2>1, <3>1 DEF TurnType, Alike
  <2>3. CASE ~ Of(c, line[at[i]])
    BY <2>1, <2>3 DEF Loose, Alike
  <2> QED
    BY <2>2, <2>3
<1>6. \A i, j \in 1..left : at[i] = at[j] => i = j
  <2>1. ASSUME NEW i \in 1..left, NEW j \in 1..left, at[i] = at[j] PROVE i = j
    <3>1. ~ (i < j) /\ ~ (j < i)
      BY <1>1, <1>4, <2>1
    <3> QED
      BY <1>2, <3>1
  <2> QED
    BY <2>1
<1>7. at \in [1..left -> Nat]
  BY <1>1, <1>4
<1> QED
  BY <1>3, <1>4, <1>5, <1>6, <1>7 DEF Thinned

\* A compaction that joins is no turn.
LEMMA CompactionJoins ==
  ASSUME TypeOK, NEW t, t.kind = "compaction" PROVE Thinned(Append(line, t), line)
<1> DEFINE l == Append(line, t)
           at == [i \in 1..Len(l) |-> i]
<1>1. line \in Seq(TurnType) /\ Len(line) \in Nat /\ Len(l) = Len(line) + 1 /\ l[Len(line) + 1] = t
      /\ \A i \in 1..Len(line) : l[i] = line[i]
  BY DEF TypeOK
<1> HIDE DEF l
<1>2. at \in [1..Len(l) -> Nat] /\ \A i \in 1..Len(l) : at[i] = i
  BY <1>1
<1>3. \A i \in 1..Len(l) : i \in 1..Len(line) \/ i = Len(line) + 1
  BY <1>1
<1> HIDE DEF at
<1>4. Thinned(l, line)
  BY <1>1, <1>2, <1>3 DEF Thinned, Alike
<1> QED
  BY <1>4 DEF l

\* A turn that joins with its message.
LEMMA TurnJoins ==
  ASSUME Sound, Sound', Whole, Fresh, MovesOn, FilesFollow,
         NEW c, NEW parent, Placed(c, parent), Persist(c, parent, TRUE),
         NEW prompt, NEW tools, NEW view, NEW alone,
         line' = Append(line, Turn(c, prompt, tools, view, alone)),
         tools /\ alone => view = Newest(Branch(msgs, parent)),
         alone => QuietOn(Branch(msgs, parent))
  PROVE  Fresh'
<1> DEFINE t == Turn(c, prompt, tools, view, alone)
           row == Message(c, "user", TRUE, parent, NoPrompt)
<1>1. TypeOK /\ TreeWellFormed
  BY DEF Sound
<1>2. msgs' = Inserted(NewId, row, TRUE)
  BY DEF Persist
<1>3. DOMAIN msgs' = DOMAIN msgs \cup {NewId} /\ msgs'[NewId] = row
  BY <1>2 DEF Inserted
<1>4. row.parent = parent
  BY DEF Message
<1>5. /\ t.kind = "reply" /\ t.message = NewId /\ t.tools = tools /\ t.alone = alone
      /\ t.view = view
  BY DEF Turn
<1>6. parent \in DOMAIN msgs' <=> parent \in DOMAIN msgs
  <2>1. parent # NewId
    BY <1>1, NewIdIs DEF Placed
  <2> QED
    BY <1>3, <2>1
<1> HIDE DEF t, row
<1>7. line' = Append(line, t)
  BY DEF t
<1> QED
  BY <1>3, <1>4, <1>5, <1>6, <1>7, FreshJoins DEF MovesOn

\* A send sees the newest version, and is alone if no turn is on its branch.
LEMMA SendFresh ==
  ASSUME Sound, Sound', Whole, Fresh, MovesOn, FilesFollow,
         NEW c, NEW parent, Placed(c, parent), Send(c, parent)
  PROVE  Fresh'
<1> DEFINE above == Branch(msgs, parent)
           prompt == History(above)
           view == Newest(above)
           alone == QuietOn(above)
<1>1. parent = None \/ parent \in Rows(c)
  BY DEF Placed, Rows
<1>2. PathTo(parent, c) = above
  BY <1>1, PathIs DEF Sound
<1>3. Persist(c, parent, TRUE) /\ line' = Append(line, Turn(c, prompt, TRUE, view, alone))
  BY <1>2 DEF Send
<1>4. (TRUE /\ alone => view = Newest(above)) /\ (alone => QuietOn(above))
  OBVIOUS
<1> HIDE DEF prompt, view, alone
<1> QED
  BY <1>3, <1>4, TurnJoins

\* The turn that writes sees what it wrote; the others are on other branches.
LEMMA WriteFileFresh == ASSUME Sound, Sound', Fresh, WriteFile PROVE Fresh'
<1> DEFINE v == used.file + 1
           m == line[1].message
<1>1. /\ running /\ line[1].kind = "reply" /\ m \in DOMAIN msgs
      /\ files' = [w \in DOMAIN files \cup {v} |->
                     IF w = v THEN [chat |-> msgs[m].chat, message |-> m] ELSE files[w]]
      /\ line' = [line EXCEPT ![1].view = v]
      /\ UNCHANGED <<chats, msgs>>
  BY DEF WriteFile, Wrote
<1>2. line \in Seq(TurnType) /\ 1 \in 1..Len(line) /\ line[1] \in TurnType
  BY <1>1 DEF Sound, RunnerIsFirst, TypeOK
<1>3. /\ Len(line') = Len(line) /\ line'[1] = [line[1] EXCEPT !.view = v]
      /\ \A i \in 1..Len(line) : i # 1 => line'[i] = line[i]
  BY <1>1, <1>2
<1>4. /\ line'[1].kind = "reply" /\ line'[1].message = m /\ line'[1].view = v
      /\ line'[1].alone = line[1].alone
  BY <1>1, <1>2, <1>3 DEF TurnType
<1>5. v \in Nat /\ DOMAIN files \subseteq 0..used.file /\ used.file \in Nat /\ v \notin DOMAIN files
  BY DEF Sound, TypeOK
<1> HIDE DEF m, v
<1>6. FilesHaveRows'
  BY <1>1 DEF Fresh, FilesHaveRows
<1>7. \A path : Shown(files', path) =
                  IF m \in path THEN Shown(files, path) \cup {v} ELSE Shown(files, path)
  BY <1>1, <1>5 DEF Shown
<1>8. Sees(line'[1], msgs', files')
  <2> DEFINE S == Shown(files', Branch(msgs, m))
  <2>1. m \in Branch(msgs, m)
    BY <1>1, BranchLeast
  <2>2. S = Shown(files, Branch(msgs, m)) \cup {v}
    BY <1>7, <2>1
  <2>3. Shown(files, Branch(msgs, m)) \subseteq 0..used.file
    BY <1>5 DEF Shown
  <2>4. v = used.file + 1
    BY DEF v
  <2> HIDE DEF S
  <2>5. S \in SUBSET (0..v) /\ S # {} /\ v \in S /\ \A k \in S : k <= v /\ k \in Nat
    BY <1>5, <2>2, <2>3, <2>4
  <2>6. LastId(S) \in S /\ \A k \in S : k <= LastId(S)
    BY <1>5, <2>5, LastIdIs
  <2>7. LastId(S) = v
    <3>1. LastId(S) <= v /\ LastId(S) \in Nat /\ v <= LastId(S)
      BY <2>5, <2>6
    <3> QED
      BY <1>5, <3>1
  <2> QED
    BY <1>1, <1>4, <2>7 DEF Sees, S
<1>9. ASSUME NEW i \in 1..Len(line), i # 1 PROVE Sees(line'[i], msgs', files')
  <2> SUFFICES ASSUME line[i].kind = "reply", line[i].tools, line[i].alone,
                      line[i].message \in DOMAIN msgs
               PROVE  line[i].view = LastId(Shown(files', Branch(msgs, line[i].message)))
    BY <1>1, <1>3, <1>9 DEF Sees
  <2>1. m \notin Branch(msgs, line[i].message)
    BY <1>1, <1>2, <1>9 DEF Fresh, Apart, m
  <2>2. Shown(files', Branch(msgs, line[i].message)) = Shown(files, Branch(msgs, line[i].message))
    BY <1>7, <2>1
  <2> QED
    BY <2>2 DEF Fresh, Sees
<1>10. \A i \in 1..Len(line) :
         /\ line'[i].kind = line[i].kind
         /\ line[i].kind = "reply" =>
              line'[i].alone = line[i].alone /\ line'[i].message = line[i].message
  BY <1>1, <1>3, <1>4 DEF m
<1>11. Apart(line', msgs')
  <2>1. Apart(line, msgs)
    BY DEF Fresh
  <2> QED
    BY <1>1, <1>3, <1>10, <2>1 DEF Apart
<1>12. \A i \in 1..Len(line') : Sees(line'[i], msgs', files')
  BY <1>3, <1>8, <1>9
<1> QED
  BY <1>6, <1>11, <1>12 DEF Fresh

\* A restart forgets the turns and keeps the rows and the files.
LEMMA RestartFresh == ASSUME Sound, Fresh, Restart PROVE Fresh'
<1>1. DOMAIN msgs' = DOMAIN msgs /\ files' = files /\ line' = <<>>
  BY DEF Restart
<1>2. ASSUME NEW m \in DOMAIN msgs PROVE msgs'[m].chat = msgs[m].chat
  <2>1. msgs[m] \in MessageType /\ msgs'[m] = Migrated(m)
    BY DEF Sound, TypeOK, Restart
  <2>2. CASE msgs[m].chat \in Untreed
    BY <2>1, <2>2 DEF Migrated, MessageType
  <2>3. CASE msgs[m].chat \notin Untreed
    BY <2>1, <2>3 DEF Migrated
  <2> QED
    BY <2>2, <2>3
<1> QED
  BY <1>1, <1>2 DEF Fresh, FilesHaveRows, Apart

\* Every step leaves what the turns see.
LEMMA StepIsFresh == ASSUME Sound, Sound', Whole, Fresh, [Next]_vars PROVE Fresh'
<1>1. CASE Restart
  BY <1>1, RestartFresh
<1>2. CASE WriteFile
  BY <1>2, WriteFileFresh
<1> SUFFICES ASSUME ~ Restart, ~ WriteFile PROVE Fresh'
  BY <1>1, <1>2
<1>3. MovesOn /\ FilesFollow
  BY StepMovesOn
<1>4. ASSUME Thinned(line', line) PROVE Fresh'
  BY <1>3, <1>4, FreshStays DEF MovesOn
<1>5. TypeOK
  BY DEF Sound
<1>6. CASE SendInChat
  BY <1>3, <1>6, PlacesArePlaced, SendFresh DEF SendInChat
<1>7. CASE SendNew
  BY <1>3, <1>7, SendFresh DEF SendNew, Placed
<1>8. CASE \E s \in searches : Land(s)
  <2>1. PICK s \in searches : Land(s)
    BY <1>8
  <2>2. Placed(s.chat, s.parent)
    BY <2>1, SearchesAre DEF Sound, HasPlace, Placed, Land
  <2>3. /\ Persist(s.chat, s.parent, TRUE)
        /\ line' = Append(line, Turn(s.chat, s.prompt, FALSE, None, FALSE))
    BY <2>1 DEF Land
  <2> QED
    BY <1>3, <2>2, <2>3, TurnJoins
<1>9. CASE Drop
  BY <1>4, <1>5, <1>9, RestIsThinned DEF Drop
<1>10. CASE Answer \/ AnswerCut \/ Summarise
  <2>1. line' = Tail(line) /\ running
    BY <1>10 DEF Answer, AnswerCut, Reply, Summarise
  <2>2. line # <<>>
    BY <2>1 DEF Sound, RunnerIsFirst
  <2> QED
    BY <1>4, <1>5, <2>1, <2>2, TailIsThinned
<1>11. CASE Compact
  <2>1. PICK t : t.kind = "compaction" /\ line' = Append(line, t)
    BY <1>11 DEF Compact
  <2> QED
    BY <1>4, <1>5, <2>1, CompactionJoins
<1>12. CASE Delete \/ DeleteCut
  BY <1>4, <1>5, <1>12, LooseIsThinned DEF Delete, DeleteCut
<1>13. CASE \/ SendCut \/ BeginSearch \/ (\E s \in searches : Abandon(s)) \/ Start \/ Switch
            \/ StoreSummary \/ UNCHANGED vars
  <2>1. line' = line
    BY <1>13 DEF SendCut, BeginSearch, Abandon, Start, Switch, StoreSummary, vars
  <2> QED
    BY <1>4, <1>5, <2>1, SameIsThinned
<1> QED
  BY <1>6, <1>7, <1>8, <1>9, <1>10, <1>11, <1>12, <1>13 DEF Next, EndSearch

\* So it is in every state.
LEMMA AlwaysFresh == Spec => []Fresh
<1>1. Init => Fresh
  BY DEF Init, Fresh, FilesHaveRows, Apart
<1>2. Sound /\ Sound' /\ Whole /\ Fresh /\ [Next]_vars => Fresh'
  BY StepIsFresh
<1> QED
  BY <1>1, <1>2, AlwaysSound, AlwaysWhole, PTL DEF Spec

\* A turn that was sent when its branch was quiet sees the newest version of
\* the file on that branch as long as its chat lives, for any number of turns
\* in the line and of branches that write meanwhile.
THEOREM QuietTurnsSeeTheNewest == Spec => []QuietTurnSeesNewest
<1>1. ASSUME Sound, Fresh PROVE QuietTurnSeesNewest
  <2>1. ASSUME NEW m \in DOMAIN msgs PROVE PathTo(m, msgs[m].chat) = Branch(msgs, m)
    <3>1. m \in Rows(msgs[m].chat)
      BY DEF Rows
    <3> QED
      BY <1>1, <3>1, PathIs DEF Sound
  <2> QED
    BY <1>1, <2>1, NewestIsLast DEF QuietTurnSeesNewest, Fresh, Sees
<1> QED
  BY <1>1, AlwaysSound, AlwaysFresh, PTL

-----------------------------------------------------------------------------
(* Nothing is overwritten *)

\* The messages of chats that show none.
Bare == {m \in DOMAIN msgs : chats[msgs[m].chat] = None}

\* It takes a handler cut short to leave one, and one leaves but one.
FewAreBare ==
  /\ cuts = 0 => Bare = {}
  /\ cuts = 1 => \A m, k \in Bare : m = k
  /\ cuts <= MaxCuts

\* An old message is bare only if it was.
LEMMA OldAreBare ==
  ASSUME Sound, Sound', Onward, NEW m \in Bare', m \in DOMAIN msgs PROVE m \in Bare
<1>1. m \in DOMAIN msgs \cap DOMAIN msgs' /\ chats'[msgs'[m].chat] = None
  BY DEF Bare
<1> QED
  BY <1>1, StillShows DEF Bare

\* A step that shows the message it writes, if it writes one, bares none.
LEMMA BareStays ==
  ASSUME Sound, Sound', Onward, FewAreBare, UNCHANGED cuts,
         \A m \in DOMAIN msgs' : m \in DOMAIN msgs \/ chats'[msgs'[m].chat] # None
  PROVE  FewAreBare'
<1>1. Bare' \subseteq Bare
  BY OldAreBare DEF Bare
<1> QED
  BY <1>1 DEF FewAreBare

\* A handler cut short bares the message it writes.
LEMMA CutBares ==
  ASSUME Sound, Sound', Onward, FewAreBare, cuts < MaxCuts, cuts' = cuts + 1, TreeAssumption,
         \A m \in DOMAIN msgs' : m \in DOMAIN msgs \/ m = NewId
  PROVE  FewAreBare'
<1>1. cuts \in Nat /\ MaxCuts \in Nat
  BY TreeAssumption DEF Sound, TypeOK, TreeAssumption
<1>2. cuts' # 0 /\ cuts' <= MaxCuts
  BY <1>1
<1>3. cuts' = 1 => cuts = 0
  BY <1>1
<1>4. ASSUME cuts = 0 PROVE \A m \in Bare' : m = NewId
  BY <1>4, OldAreBare DEF FewAreBare, Bare
<1> QED
  BY <1>2, <1>3, <1>4 DEF FewAreBare

\* A message written and linked is in a chat that shows something.
LEMMA PersistShows ==
  ASSUME Sound, Sound', FewAreBare, UNCHANGED cuts, NEW c, NEW parent,
         Placed(c, parent), parent # None => chats[c] # None, Persist(c, parent, TRUE)
  PROVE  FewAreBare'
<1>1. Onward
  BY PersistOnward
<1>2. DOMAIN msgs' = DOMAIN msgs \cup {NewId} /\ msgs'[NewId].chat = c
  BY DEF Persist, Inserted, Message
<1>3. NewId # None
  BY NewIdIs DEF Sound
<1>4. chats'[c] # None
  BY <1>3 DEF Persist, Placed
<1> QED
  BY <1>1, <1>2, <1>4, BareStays

\* The migration touches no words.
LEMMA RestartWords ==
  ASSUME Sound, Restart, NEW m \in DOMAIN msgs
  PROVE  /\ msgs'[m].chat = msgs[m].chat /\ msgs'[m].role = msgs[m].role
         /\ msgs'[m].text = msgs[m].text /\ msgs'[m].from = msgs[m].from
<1>1. msgs[m] \in MessageType /\ msgs'[m] = Migrated(m)
  BY DEF Sound, TypeOK, Restart
<1>2. CASE msgs[m].chat \in Untreed
  BY <1>1, <1>2 DEF Migrated, MessageType
<1>3. CASE msgs[m].chat \notin Untreed
  BY <1>1, <1>3 DEF Migrated
<1> QED
  BY <1>2, <1>3

\* A reply is stored where something is shown.
LEMMA ReplyShows ==
  ASSUME Sound, Whole, NEW text, NEW linked, Reply(text, linked)
  PROVE  \A m \in DOMAIN msgs' : m \in DOMAIN msgs \/ chats'[msgs'[m].chat] # None
<1> DEFINE t == line[1]
<1>1. /\ running /\ t.kind = "reply" /\ t.chat # None /\ UNCHANGED chats
      /\ DOMAIN msgs' = DOMAIN msgs \cup {NewId} /\ msgs'[NewId].chat = t.chat
  BY DEF Reply, Inserted, Message
<1>2. 1 \in 1..Len(line)
  BY <1>1 DEF Sound, RunnerIsFirst, TypeOK
<1>3. t.message \in DOMAIN msgs /\ msgs[t.message].chat = t.chat
  BY <1>1, <1>2, LineIs DEF Sound, Finds
<1>4. chats[t.chat] # None
  BY <1>1, <1>2, <1>3 DEF Whole, Belongs
<1> QED
  BY <1>1, <1>4

\* No step but one cut short leaves a message in a chat that shows none.
LEMMA StepBaresFew ==
  ASSUME Sound, Sound', Whole, Whole', TreeAssumption, FewAreBare, [Next]_vars
  PROVE  FewAreBare'
<1>1. CASE Restart
  <2>1. UNCHANGED cuts
    BY <1>1 DEF Restart
  <2>2. ASSUME NEW m \in DOMAIN msgs PROVE m \notin Bare'
    <3>1. m \in Rows(msgs[m].chat) /\ msgs[m].chat \in DOMAIN chats
      BY TreeIs DEF Sound, IsTree, Rows
    <3>2. msgs'[m].chat = msgs[m].chat
      BY <1>1, RestartWords
    <3>3. Rows(msgs[m].chat) \in SUBSET Nat /\ None \notin Rows(msgs[m].chat)
      BY NewIdIs DEF Sound, Rows
    <3>4. FirstId(Rows(msgs[m].chat)) # None
      BY <3>1, <3>3, FirstIdIs
    <3>5. chats'[msgs[m].chat] # None
      BY <1>1, <3>1, <3>4 DEF Restart, Untreed
    <3> QED
      BY <3>2, <3>5 DEF Bare
  <2>3. DOMAIN msgs' = DOMAIN msgs
    BY <1>1 DEF Restart
  <2>4. Bare' = {}
    BY <2>2, <2>3 DEF Bare
  <2> QED
    BY <2>1, <2>4 DEF FewAreBare
<1> SUFFICES ASSUME ~ Restart PROVE FewAreBare'
  BY <1>1
<1>2. Onward
  BY StepMovesOn DEF MovesOn
<1>3. CASE SendInChat
  <2>1. PICK c \in DOMAIN chats : \E parent \in Places(c) : Send(c, parent)
    BY <1>3 DEF SendInChat
  <2>2. PICK parent \in Places(c) : Send(c, parent)
    BY <2>1
  <2>3. Placed(c, parent) /\ (parent # None => chats[c] # None)
    BY PlacesArePlaced, PlacesShow
  <2>4. Persist(c, parent, TRUE) /\ UNCHANGED cuts
    BY <2>2 DEF Send
  <2> QED
    BY <2>3, <2>4, PersistShows
<1>4. CASE SendNew
  <2>1. Persist(used.chat + 1, None, TRUE) /\ UNCHANGED cuts
    BY <1>4 DEF SendNew, Send
  <2>2. Placed(used.chat + 1, None)
    BY DEF Placed
  <2> QED
    BY <2>1, <2>2, PersistShows
<1>5. CASE SendCut
  <2>1. \A m \in DOMAIN msgs' : m \in DOMAIN msgs \/ m = NewId
    <3>1. \A c, p : Persist(c, p, FALSE) => DOMAIN msgs' = DOMAIN msgs \cup {NewId}
      BY DEF Persist, Inserted
    <3>2. DOMAIN msgs' = DOMAIN msgs \/ DOMAIN msgs' = DOMAIN msgs \cup {NewId}
      BY <1>5, <3>1 DEF SendCut
    <3> QED
      BY <3>2
  <2>2. cuts < MaxCuts /\ cuts' = cuts + 1
    BY <1>5 DEF SendCut
  <2> QED
    BY <1>2, <2>1, <2>2, CutBares
<1>6. CASE \E s \in searches : Land(s)
  <2>1. PICK s \in searches : Land(s)
    BY <1>6
  <2>2. Placed(s.chat, s.parent)
    BY <2>1, SearchesAre DEF Sound, HasPlace, Placed, Land
  <2>3. s.parent # None => chats[s.chat] # None
    BY <2>1 DEF Whole, Waits, Land
  <2>4. Persist(s.chat, s.parent, TRUE) /\ UNCHANGED cuts
    BY <2>1 DEF Land
  <2> QED
    BY <2>2, <2>3, <2>4, PersistShows
<1>7. CASE Answer
  <2>1. PICK text \in BOOLEAN : Reply(text, TRUE) /\ UNCHANGED cuts
    BY <1>7 DEF Answer
  <2>2. \A m \in DOMAIN msgs' : m \in DOMAIN msgs \/ chats'[msgs'[m].chat] # None
    BY <2>1, ReplyShows
  <2> QED
    BY <1>2, <2>1, <2>2, BareStays
<1>8. CASE AnswerCut
  <2>1. PICK text \in BOOLEAN : Reply(text, FALSE)
    BY <1>8 DEF AnswerCut
  <2>2. \A m \in DOMAIN msgs' : m \in DOMAIN msgs \/ m = NewId
    BY <2>1 DEF Reply, Inserted
  <2>3. cuts < MaxCuts /\ cuts' = cuts + 1
    BY <1>8 DEF AnswerCut
  <2> QED
    BY <1>2, <2>2, <2>3, CutBares
<1>9. CASE DeleteCut
  <2>1. UNCHANGED msgs /\ cuts < MaxCuts /\ cuts' = cuts + 1
    BY <1>9 DEF DeleteCut
  <2> QED
    BY <1>2, <2>1, CutBares
<1>10. CASE \/ BeginSearch \/ (\E s \in searches : Abandon(s)) \/ Start \/ Drop \/ WriteFile
            \/ Switch \/ Compact \/ Summarise \/ StoreSummary \/ Delete \/ UNCHANGED vars
  <2>1. UNCHANGED cuts
    BY <1>10 DEF BeginSearch, Abandon, Start, Drop, WriteFile, Switch, Compact, Summarise,
       StoreSummary, Delete, vars
  <2>2. DOMAIN msgs' \subseteq DOMAIN msgs
    BY <1>10, SwitchOnward DEF BeginSearch, Abandon, Start, Drop, WriteFile, Compact,
       Summarise, StoreSummary, Delete, vars
  <2> QED
    BY <1>2, <2>1, <2>2, BareStays
<1> QED
  BY <1>3, <1>4, <1>5, <1>6, <1>7, <1>8, <1>9, <1>10 DEF Next, EndSearch

\* So there are no more of these than handlers cut short.
LEMMA AlwaysFewBare == Spec => []FewAreBare
<1>1. Init => FewAreBare
  BY TreeAssumption DEF Init, FewAreBare, Bare, TreeAssumption
<1>2. Sound /\ Sound' /\ Whole /\ Whole' /\ FewAreBare /\ [Next]_vars => FewAreBare'
  BY TreeAssumption, StepBaresFew
<1> QED
  BY <1>1, <1>2, AlwaysSound, AlwaysWhole, PTL DEF Spec

Columns == {"chat", "role", "text", "parent", "from"}

\* What a step other than the migration keeps of the chats that stay.
LEMMA StepKeeps ==
  ASSUME Sound, Sound', Whole, [Next]_vars, ~ Restart
  PROVE  /\ \A m \in DOMAIN msgs : msgs[m].chat \in DOMAIN chats' =>
              m \in DOMAIN msgs' /\ \A col \in Columns : msgs'[m][col] = msgs[m][col]
         /\ \A v \in DOMAIN files : files[v].chat \in DOMAIN chats' =>
              v \in DOMAIN files' /\ files'[v] = files[v]
<1>1. MovesOn /\ (WriteFile \/ FilesFollow)
  BY StepMovesOn
<1>2. ASSUME NEW m \in DOMAIN msgs, msgs[m].chat \in DOMAIN chats'
      PROVE  m \in DOMAIN msgs' /\ \A col \in Columns : msgs'[m][col] = msgs[m][col]
  <2>1. m \in DOMAIN msgs' /\ SameWords(m)
    BY <1>1, <1>2 DEF MovesOn, RowsFollow, Onward
  <2> QED
    BY <2>1 DEF SameWords, Columns
<1>3. \A v \in DOMAIN files : files[v].chat \in DOMAIN chats' =>
        v \in DOMAIN files' /\ files'[v] = files[v]
  BY <1>1, WriteKeepsFiles DEF FilesFollow
<1> QED
  BY <1>2, <1>3

\* What the migration keeps of the chats that show something.
LEMMA RestartKeepsShown ==
  ASSUME Sound, Restart
  PROVE  /\ \A m \in DOMAIN msgs : m \in DOMAIN msgs' /\
              \A col \in Columns :
                col # "parent" \/ m \notin Bare => msgs'[m][col] = msgs[m][col]
         /\ UNCHANGED files
<1>1. UNCHANGED files /\ DOMAIN msgs' = DOMAIN msgs
  BY DEF Restart
<1>2. ASSUME NEW m \in DOMAIN msgs, NEW col \in Columns, col # "parent" \/ m \notin Bare
      PROVE  msgs'[m][col] = msgs[m][col]
  <2>1. CASE m \notin Bare
    <3>1. msgs'[m] = msgs[m]
      BY <2>1 DEF Restart, Migrated, Untreed, Bare
    <3> QED
      BY <3>1
  <2>2. CASE col # "parent"
    BY <2>2, RestartWords DEF Columns
  <2> QED
    BY <1>2, <2>1, <2>2
<1> QED
  BY <1>1, <1>2

\* Nothing is overwritten while its chat lives, for any number of chats,
\* branches and restarts, when one handler at most was cut short.  With two,
\* the migration may take up a chat that shows none of its two messages, and
\* hangs the one below the other.
THEOREM NothingIsOverwritten == ASSUME MaxCuts <= 1 PROVE Spec => BranchesAreKept
<1> DEFINE Kept1 ==
      /\ \A m \in DOMAIN msgs : msgs[m].chat \in DOMAIN chats' =>
           /\ m \in DOMAIN msgs'
           /\ \A col \in {"chat", "role", "text", "parent", "from"} :
                msgs'[m][col] = msgs[m][col]
      /\ \A v \in DOMAIN files : files[v].chat \in DOMAIN chats' =>
           v \in DOMAIN files' /\ files'[v] = files[v]
<1>1. ASSUME Sound, Sound', Whole, FewAreBare, [Next]_vars PROVE Kept1
  <2>1. CASE ~ Restart
    BY <1>1, <2>1, StepKeeps DEF Columns
  <2>2. CASE Restart
    <3>1. ASSUME NEW m \in Bare PROVE msgs'[m].parent = msgs[m].parent
      <4>1. cuts \in Nat /\ MaxCuts \in Nat /\ cuts <= MaxCuts
        BY <1>1, TreeAssumption DEF TreeAssumption, FewAreBare, Sound, TypeOK
      <4>2. cuts = 0 \/ cuts = 1
        BY <4>1
      <4>3. \A k \in Bare : k = m
        BY <1>1, <3>1, <4>2 DEF FewAreBare
      <4>4. /\ m \in DOMAIN msgs /\ msgs[m].chat \in Untreed /\ msgs[m].parent = None
            /\ msgs[m] \in MessageType /\ m \in Nat
        BY <1>1, <3>1, NewIdIs, TreeIs
           DEF Sound, TypeOK, Whole, RowsTell, Tells, Bare, Untreed, IsTree
      <4>5. {k \in Rows(msgs[m].chat) : k < m} = {}
        <5>1. \A k \in Rows(msgs[m].chat) : k \in Bare
          BY <4>4 DEF Rows, Bare, Untreed
        <5> QED
          BY <4>3, <4>4, <5>1
      <4>6. msgs'[m].parent = LastId({k \in Rows(msgs[m].chat) : k < m})
        BY <2>2, <4>4 DEF Restart, Migrated, MessageType
      <4> QED
        BY <4>4, <4>5, <4>6 DEF LastId
    <3> QED
      BY <1>1, <2>2, <3>1, RestartKeepsShown DEF Columns
  <2> QED
    BY <2>1, <2>2
<1>2. Spec => [][Kept1]_vars
  BY <1>1, AlwaysSound, AlwaysWhole, AlwaysFewBare, PTL DEF Spec
<1> QED
  BY <1>2 DEF BranchesAreKept

\* However many handlers are cut short, a chat that shows something is not
\* rewritten: not by a restart, and not by any other step.
THEOREM ShownChatsAreKept ==
  Spec => [][\A m \in DOMAIN msgs :
               chats[msgs[m].chat] # None /\ msgs[m].chat \in DOMAIN chats' =>
                 /\ m \in DOMAIN msgs'
                 /\ \A col \in Columns : msgs'[m][col] = msgs[m][col]]_vars
<1>1. ASSUME Sound, Sound', Whole, [Next]_vars
      PROVE  \A m \in DOMAIN msgs :
               chats[msgs[m].chat] # None /\ msgs[m].chat \in DOMAIN chats' =>
                 /\ m \in DOMAIN msgs'
                 /\ \A col \in Columns : msgs'[m][col] = msgs[m][col]
  <2>1. CASE ~ Restart
    BY <1>1, <2>1, StepKeeps
  <2>2. CASE Restart
    BY <1>1, <2>2, RestartKeepsShown DEF Bare
  <2> QED
    BY <2>1, <2>2
<1> QED
  BY <1>1, AlwaysSound, AlwaysWhole, PTL DEF Spec
=============================================================================

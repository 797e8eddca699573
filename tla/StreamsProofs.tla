---------------------------- MODULE StreamsProofs ----------------------------
(***************************************************************************)
(* Proofs about Streams, for any jobs, kinds of jobs and room in a          *)
(* subscriber's queue: a page that is subscribed has the queue as it is, or *)
(* is waiting for it; every variable has its type; and what upstream said   *)
(* reaches each client whole and once. The last follows from where each job *)
(* is (Courses), what a job may say on its stream (Says) and what a client  *)
(* was told or is about to be (Closing, Telling).                           *)
(***************************************************************************)
EXTENDS Streams, SequenceTheorems, FiniteSetTheorems, WellFoundedInduction, TLAPS

\* A subscriber's queue is a sequence, of whatever it was sent.
Mail == \E T : mail \in Seq(T)

Pushed ==
  /\ Mail
  /\ read \in [Jobs -> 0..Total]
  /\ NewestIsPushed

LEMMA TotalIsNat == Total \in Nat
  BY DEF Total, Lines

\* The last of a sequence that got one more.
LEMMA AppendIsLast ==
  ASSUME NEW T, NEW s \in Seq(T), NEW x
  PROVE  /\ Append(s, x) # <<>> /\ Last(Append(s, x)) = x
         /\ \E U : Append(s, x) \in Seq(U)
<1> DEFINE U == T \cup {x}
<1>1. s \in Seq(U) /\ x \in U
  OBVIOUS
<1>2. /\ Append(s, x) \in Seq(U) /\ Len(Append(s, x)) = Len(s) + 1
      /\ Append(s, x)[Len(s) + 1] = x
  BY <1>1
<1> QED
  BY <1>1, <1>2 DEF Last

\* Showing the first of several leaves the last.
LEMMA TailKeepsLast ==
  ASSUME NEW T, NEW s \in Seq(T), s # <<>>
  PROVE  /\ Tail(s) \in Seq(T)
         /\ Last(s) = IF Tail(s) = <<>> THEN Head(s) ELSE Last(Tail(s))
<1>1. /\ Len(s) \in Nat \ {0} /\ Tail(s) \in Seq(T) /\ Len(Tail(s)) = Len(s) - 1
      /\ \A i \in 1..(Len(s) - 1) : Tail(s)[i] = s[i + 1]
      /\ Head(s) = s[1]
  BY HeadTailProperties, EmptySeq
<1>2. CASE Len(s) = 1
  <2>1. Len(Tail(s)) = 0
    BY <1>1, <1>2
  <2>2. Tail(s) = <<>>
    BY <1>1, <2>1, EmptySeq
  <2> QED
    BY <1>1, <1>2, <2>2 DEF Last
<1>3. CASE Len(s) # 1
  <2>1. Tail(s) # <<>> /\ Len(s) - 1 \in 1..(Len(s) - 1)
    BY <1>1, <1>3
  <2>2. Tail(s)[Len(s) - 1] = s[Len(s)]
    BY <1>1, <2>1
  <2> QED
    BY <1>1, <2>1, <2>2 DEF Last
<1> QED
  BY <1>2, <1>3

\* Whoever broadcasts, leaves the page with the queue as it is then, or discards
\* its subscription.
LEMMA BroadcastPushes ==
  ASSUME Mail, Broadcast
  PROVE  Mail' /\ NewestIsPushed'
<1>1. PICK T : mail \in Seq(T)
  BY DEF Mail
<1>2. CASE tuned /\ Len(mail) < Room
  <2>1. mail' = Append(mail, Snapshot')
    BY <1>2 DEF Broadcast
  <2>2. mail' # <<>> /\ Last(mail') = Snapshot' /\ Mail'
    BY <1>1, <2>1, AppendIsLast DEF Mail
  <2> QED
    BY <2>2 DEF NewestIsPushed, Newest
<1>3. CASE ~(tuned /\ Len(mail) < Room)
  <2>1. mail' = mail /\ ~tuned'
    BY <1>3 DEF Broadcast
  <2> QED
    BY <1>1, <2>1 DEF NewestIsPushed, Mail
<1> QED
  BY <1>2, <1>3

\* A step that changes nothing a page shows, and owes it nothing.
LEMMA SilenceKeeps ==
  ASSUME Mail, NewestIsPushed, UNCHANGED <<mail, tuned, page>>,
         UNCHANGED <<line, active, loaded, st>>, Owed => Owed'
  PROVE  Mail' /\ NewestIsPushed'
<1>1. Snapshot' = Snapshot
  BY DEF Snapshot, InQueue
<1>2. Newest' = Newest
  BY DEF Newest
<1> QED
  BY <1>1, <1>2 DEF NewestIsPushed, Mail

\* What is owed is not pushed yet.
LEMMA OwedKeeps ==
  ASSUME Mail, UNCHANGED mail, Owed'
  PROVE  Mail' /\ NewestIsPushed'
  BY DEF NewestIsPushed, Mail

-----------------------------------------------------------------------------
(* Steps *)

USE DEF jobVars, endVars, pageVars

LEMMA PageSteps ==
  Pushed /\ (Subscribe \/ Show \/ LeavePage) => Mail' /\ NewestIsPushed'
<1> SUFFICES ASSUME Pushed, Subscribe \/ Show \/ LeavePage PROVE Mail' /\ NewestIsPushed'
  OBVIOUS
<1>1. CASE Subscribe
  <2>1. Snapshot' = Snapshot /\ mail' = <<Snapshot>>
    BY <1>1 DEF Subscribe, Snapshot, InQueue
  <2>2. <<Snapshot>> \in Seq({Snapshot}) /\ Len(<<Snapshot>>) = 1 /\ <<Snapshot>>[1] = Snapshot
        /\ <<Snapshot>> # <<>>
    OBVIOUS
  <2>3. Mail' /\ Newest' = Snapshot'
    BY <2>1, <2>2 DEF Mail, Newest, Last
  <2> QED
    BY <2>3 DEF NewestIsPushed
<1>2. CASE Show
  <2>1. PICK T : mail \in Seq(T)
    BY DEF Pushed, Mail
  <2>2. mail # <<>> /\ page' = Head(mail) /\ mail' = Tail(mail) /\ tuned' = tuned
    BY <1>2 DEF Show
  <2>3. Mail' /\ Newest' = Newest
    BY <2>1, <2>2, TailKeepsLast DEF Mail, Newest
  <2>4. Snapshot' = Snapshot /\ Owed' = Owed
    BY <1>2 DEF Show, Snapshot, InQueue, Owed
  <2> QED
    BY <2>2, <2>3, <2>4 DEF Pushed, NewestIsPushed
<1>3. CASE LeavePage
  <2>1. mail' = <<>> /\ ~tuned'
    BY <1>3 DEF LeavePage
  <2>2. mail' \in Seq({})
    BY <2>1
  <2> QED
    BY <2>1, <2>2 DEF NewestIsPushed, Mail
<1> QED
  BY <1>1, <1>2, <1>3

\* Steps whose last act is a broadcast.
LEMMA LoudSteps ==
  ASSUME Pushed, NEW j \in Jobs,
         Submit(j) \/ Take \/ Post(j) \/ Finish(j) \/ Fail(j) \/ DropQueued(j) \/ Unload
  PROVE  Mail' /\ NewestIsPushed'
<1>1. Broadcast
  BY DEF Submit, Take, Post, Finish, Fail, DropQueued, Unload
<1> QED
  BY <1>1, BroadcastPushes DEF Pushed

\* A piece of the answer: with the first output the page is told, and no piece
\* comes when the answer is complete.
LEMMA PieceSteps ==
  ASSUME Pushed, NEW j \in Jobs, RawChunk(j) \/ ChatChunk(j)
  PROVE  Mail' /\ NewestIsPushed'
<1>1. active = j /\ phase = "pump" /\ read[j] # Total
  <2>1. CASE RawChunk(j)
    <3>1. PICK to \in read[j] + 1 .. Total : active = j /\ phase = "pump"
      BY <2>1 DEF RawChunk
    <3> QED
      BY <3>1, TotalIsNat DEF Pushed
  <2>2. CASE ChatChunk(j)
    <3>1. active = j /\ phase = "pump" /\ read[j] + 2 <= Total
      BY <2>2 DEF ChatChunk
    <3> QED
      BY <3>1, TotalIsNat DEF Pushed
  <2> QED
    BY <2>1, <2>2
<1>2. ~Owed
  BY <1>1 DEF Owed
<1>3. Broadcast \/ (UNCHANGED <<mail, tuned, page>> /\ UNCHANGED <<line, active, loaded, st>>)
  BY DEF RawChunk, ChatChunk, MarkGenerating, Received
<1> QED
  BY <1>2, <1>3, BroadcastPushes, SilenceKeeps DEF Pushed

\* Steps after which the page is owed a snapshot.
LEMMA OwingSteps ==
  ASSUME Pushed, NEW j \in Jobs, Posted(j) \/ Answer(j) \/ Title(j)
  PROVE  Mail' /\ NewestIsPushed'
<1>1. CASE Posted(j)
  <2>1. active' = j /\ phase' = "pump" /\ read'[j] = Total /\ mail' = mail
    BY <1>1 DEF Posted, Received, Pushed
  <2>2. Owed'
    BY <2>1, StreamsAssumption DEF Owed
  <2> QED
    BY <2>1, <2>2, OwedKeeps DEF Pushed
<1>2. CASE Answer(j) \/ Title(j)
  <2>1. phase' \in {"title", "stopping"} /\ mail' = mail
    BY <1>2 DEF Answer, Title
  <2>2. Owed'
    BY <2>1 DEF Owed
  <2> QED
    BY <2>1, <2>2, OwedKeeps DEF Pushed
<1> QED
  BY <1>1, <1>2

\* llama-swap told which model is loaded: a job that must wait for its own says so.
LEMMA BeginStep ==
  ASSUME Pushed, NEW j \in Jobs, Begin(j)
  PROVE  Mail' /\ NewestIsPushed'
<1>1. phase = "asked"
  BY DEF Begin
<1>2. Broadcast \/ (UNCHANGED <<mail, tuned, page>> /\ UNCHANGED <<line, active, loaded, st>>)
  BY DEF Begin
<1>3. active = j /\ ~Owed
  BY <1>1 DEF Begin, Owed
<1> QED
  BY <1>2, <1>3, BroadcastPushes, SilenceKeeps DEF Pushed

\* Stop, of a client or of its connection: a job in the line goes with a broadcast.
LEMMA CancelStep ==
  ASSUME Pushed, NEW j \in Jobs, Cancel(j)
  PROVE  Mail' /\ NewestIsPushed'
<1>1. DropQueued(j) \/ UNCHANGED <<mail, tuned, page, line, active, loaded, st, phase, read>>
  BY DEF Cancel
<1>2. CASE DropQueued(j)
  BY <1>2, LoudSteps
<1>3. CASE UNCHANGED <<mail, tuned, page, line, active, loaded, st, phase, read>>
  <2>1. Owed' = Owed
    BY <1>3 DEF Owed
  <2> QED
    BY <1>3, <2>1, SilenceKeeps DEF Pushed
<1> QED
  BY <1>1, <1>2, <1>3

\* What a response does to its own.
LEMMA ResponseSteps ==
  ASSUME Pushed, NEW j \in Jobs, Leave(j) \/ Read(j)
  PROVE  Mail' /\ NewestIsPushed'
<1>1. UNCHANGED <<mail, tuned, page, line, active, loaded, st, phase, read>>
  BY DEF Leave, Read
<1>2. Owed' = Owed
  BY <1>1 DEF Owed
<1> QED
  BY <1>1, <1>2, SilenceKeeps DEF Pushed

\* What was received only grows, up to the whole of it.
LEMMA ReadStays == Pushed /\ [Next]_vars => read' \in [Jobs -> 0..Total]
<1> SUFFICES ASSUME Pushed, [Next]_vars PROVE read' \in [Jobs -> 0..Total]
  OBVIOUS
<1>1. ASSUME NEW j \in Jobs, NEW to \in 0..Total, Received(j, to)
      PROVE  read' \in [Jobs -> 0..Total]
  BY <1>1 DEF Received, Pushed
<1>2. ASSUME NEW j \in Jobs, Upstream(j) PROVE read' \in [Jobs -> 0..Total]
  <2>1. ASSUME RawChunk(j) PROVE read' \in [Jobs -> 0..Total]
    <3>1. PICK to \in read[j] + 1 .. Total : Received(j, to)
      BY <2>1 DEF RawChunk
    <3>2. to \in 0..Total
      BY <3>1, TotalIsNat DEF Pushed
    <3> QED
      BY <1>1, <3>1, <3>2
  <2>2. ASSUME ChatChunk(j) PROVE read' \in [Jobs -> 0..Total]
    <3>1. Received(j, read[j] + 2) /\ read[j] + 2 <= Total
      BY <2>2 DEF ChatChunk
    <3>2. read[j] + 2 \in 0..Total
      BY <3>1, TotalIsNat DEF Pushed
    <3> QED
      BY <1>1, <3>1, <3>2
  <2>3. ASSUME Posted(j) PROVE read' \in [Jobs -> 0..Total]
    BY <1>1, <2>3, TotalIsNat DEF Posted
  <2>4. ASSUME Fail(j) PROVE read' \in [Jobs -> 0..Total]
    BY <2>4 DEF Fail, Pushed
  <2> QED
    BY <1>2, <2>1, <2>2, <2>3, <2>4 DEF Upstream
<1>3. (\E j \in Jobs : Upstream(j)) \/ read' = read
  BY DEF Next, vars, Take, Unload, Subscribe, Show, LeavePage, Submit, Worker, Begin, Post,
         Answer, Title, Finish, Stop, Leave, Response, Read, Notice, Cancel, DropQueued
<1> QED
  BY <1>2, <1>3 DEF Pushed

LEMMA NextPushed == Pushed /\ [Next]_vars => Pushed'
<1> SUFFICES ASSUME Pushed, [Next]_vars PROVE Mail' /\ NewestIsPushed'
  BY ReadStays DEF Pushed
<1>1. CASE Subscribe \/ Show \/ LeavePage
  BY <1>1, PageSteps
<1>2. CASE Take \/ Unload
  <2>1. Broadcast
    BY <1>2 DEF Take, Unload
  <2> QED
    BY <2>1, BroadcastPushes DEF Pushed
<1>3. ASSUME NEW j \in Jobs,
             Submit(j) \/ Upstream(j) \/ Worker(j) \/ Stop(j) \/ Leave(j) \/ Response(j)
      PROVE  Mail' /\ NewestIsPushed'
  <2>1. CASE Submit(j) \/ Post(j) \/ Finish(j) \/ Fail(j)
    BY <2>1, LoudSteps
  <2>2. CASE RawChunk(j) \/ ChatChunk(j)
    BY <2>2, PieceSteps
  <2>3. CASE Posted(j) \/ Answer(j) \/ Title(j)
    BY <2>3, OwingSteps
  <2>4. CASE Begin(j)
    BY <2>4, BeginStep
  <2>5. CASE Stop(j) \/ Notice(j)
    BY <2>5, CancelStep DEF Stop, Notice
  <2>6. CASE Leave(j) \/ Read(j)
    BY <2>6, ResponseSteps
  <2> QED
    BY <1>3, <2>1, <2>2, <2>3, <2>4, <2>5, <2>6 DEF Upstream, Worker, Response
<1>4. CASE UNCHANGED vars
  <2>1. UNCHANGED <<mail, tuned, page, line, active, loaded, st, phase, read>>
    BY <1>4 DEF vars
  <2>2. Owed' = Owed
    BY <2>1 DEF Owed
  <2> QED
    BY <2>1, <2>2, SilenceKeeps DEF Pushed
<1> QED
  BY <1>1, <1>2, <1>3, <1>4 DEF Next

\* A page with a live connection never shows an old queue for good: whatever the
\* jobs do, and in any order, the newest snapshot it has or has waiting is the
\* queue as it is, except where the code owes it one until a job's end.
THEOREM PagesAreUpToDate == Spec => []NewestIsPushed
<1>1. Init => Pushed
  <2> SUFFICES ASSUME Init PROVE Pushed
    OBVIOUS
  <2>1. mail \in Seq({}) /\ tuned = FALSE
    BY DEF Init
  <2>2. read \in [Jobs -> 0..Total]
    BY TotalIsNat DEF Init
  <2> QED
    BY <2>1, <2>2 DEF Pushed, Mail, NewestIsPushed
<1>2. Pushed => NewestIsPushed
  BY DEF Pushed
<1> QED
  BY <1>1, <1>2, NextPushed, PTL DEF Spec

-----------------------------------------------------------------------------
(* What a stream tells of the bytes, event by event *)

\* Induction over the natural numbers, for a set.
LEMMA ByNumber ==
  ASSUME NEW S, 0 \in S, \A n \in Nat : n \in S => n + 1 \in S
  PROVE  Nat \subseteq S
<1> DEFINE rest == Nat \ S
<1> SUFFICES ASSUME rest # {} PROVE FALSE
  OBVIOUS
<1>1. PICK m \in rest : \A k \in rest : ~ (<<k, m>> \in OpToRel(<, Nat))
  BY NatLessThanWellFounded, WFMin
<1>2. m # 0 /\ m - 1 \in Nat /\ m - 1 \notin S
  OBVIOUS
<1>3. <<m - 1, m>> \in OpToRel(<, Nat)
  BY <1>2 DEF OpToRel
<1> QED
  BY <1>1, <1>2, <1>3

\* The greatest of the numbers up to one.
LEMMA MaxOfSome ==
  ASSUME NEW n \in Nat, NEW s \in SUBSET (1..n), s # {}
  PROVE  Max(s) \in s /\ \A k \in s : k <= Max(s)
<1> DEFINE Has(m) == \A t \in SUBSET (1..m) : t # {} => \E x \in t : \A y \in t : x >= y
           Done == {m \in Nat : Has(m)}
<1>1. 0 \in Done
  <2>1. 1..0 = {}
    OBVIOUS
  <2> QED
    BY <2>1
<1>2. ASSUME NEW m \in Nat, m \in Done PROVE m + 1 \in Done
  <2> SUFFICES ASSUME NEW t \in SUBSET (1..(m + 1)), t # {}
               PROVE  \E x \in t : \A y \in t : x >= y
    OBVIOUS
  <2>1. CASE m + 1 \in t
    <3>1. \A y \in t : m + 1 >= y
      OBVIOUS
    <3> QED
      BY <2>1, <3>1
  <2>2. CASE m + 1 \notin t
    <3>1. t \in SUBSET (1..m)
      <4>1. \A y \in t : y \in 1..m
        BY <2>2
      <4> QED
        BY <4>1
    <3> QED
      BY <1>2, <3>1
  <2> QED
    BY <2>1, <2>2
<1>3. n \in Done
  <2> HIDE DEF Done
  <2> QED
    BY <1>1, <1>2, ByNumber
<1>4. \E x \in s : \A y \in s : x >= y
  BY <1>3
<1>5. Max(s) \in s /\ \A y \in s : Max(s) >= y
  BY <1>4 DEF Max
<1>6. \A y \in s : y \in Int
  OBVIOUS
<1> QED
  BY <1>5, <1>6

\* g follows the events of h at s, for any s: FoldLeft's function.
Follows(h, g) ==
  g = [s \in SUBSET DOMAIN h |-> IF s = {} THEN 0 ELSE Follow(g[s \ {Max(s)}], h[Max(s)])]

\* There is such a g.
LEMMA FollowsExists ==
  ASSUME NEW h, NEW n \in Nat, DOMAIN h = 1..n
  PROVE  \E g : Follows(h, g)
<1> DEFINE S == 1..n
           Small(m) == {s \in SUBSET S : \A i \in s : i <= m}
           Body(g, s) == IF s = {} THEN 0 ELSE Follow(g[s \ {Max(s)}], h[Max(s)])
           Done == {m \in Nat : \E g : g = [s \in Small(m) |-> Body(g, s)]}
<1>2. \A m \in Nat : \A s \in Small(m + 1) : s # {} => s \ {Max(s)} \in Small(m)
  <2> SUFFICES ASSUME NEW m \in Nat, NEW s \in Small(m + 1), s # {}
               PROVE  s \ {Max(s)} \in Small(m)
    OBVIOUS
  <2>1. Max(s) \in s /\ \A k \in s : k <= Max(s)
    BY MaxOfSome
  <2>2. ASSUME NEW k \in s \ {Max(s)} PROVE k <= m
    <3>0. \A i \in s : i \in Nat /\ i <= m + 1
      OBVIOUS
    <3> HIDE DEF Small
    <3>1. k \in Nat /\ Max(s) \in Nat /\ k <= Max(s) /\ Max(s) <= m + 1 /\ k # Max(s)
      BY <2>1, <3>0
    <3> QED
      BY <3>1
  <2> QED
    BY <2>2
<1>3. 0 \in Done
  <2> DEFINE g == [s \in Small(0) |-> 0]
  <2>1. \A s \in Small(0) : s = {}
    OBVIOUS
  <2>2. g = [s \in Small(0) |-> Body(g, s)]
    BY <2>1
  <2> QED
    BY <2>2
<1>4. ASSUME NEW m \in Nat, m \in Done PROVE m + 1 \in Done
  <2>1. PICK g : g = [s \in Small(m) |-> Body(g, s)]
    BY <1>4
  <2> DEFINE f == [s \in Small(m + 1) |-> Body(g, s)]
  <2>2. \A s \in Small(m) : s \in Small(m + 1)
    OBVIOUS
  <2>3. \A s \in Small(m) : f[s] = g[s]
    BY <2>1, <2>2
  <2>4. \A s \in Small(m + 1) : Body(g, s) = Body(f, s)
    <3> HIDE DEF f
    <3> SUFFICES ASSUME NEW s \in Small(m + 1) PROVE Body(g, s) = Body(f, s)
      OBVIOUS
    <3>1. s # {} => s \ {Max(s)} \in Small(m)
      BY <1>2
    <3> HIDE DEF Small
    <3> QED
      BY <2>3, <3>1
  <2>5. f = [s \in Small(m + 1) |-> Body(f, s)]
    <3> HIDE DEF Small, Body
    <3> QED
      BY <2>4
  <2>6. \E k : k = [s \in Small(m + 1) |-> Body(k, s)]
    <3> HIDE DEF f, Small, Body
    <3> QED
      BY <2>5
  <2>7. m + 1 \in Nat
    OBVIOUS
  <2> QED
    <3> HIDE DEF Small, Body
    <3> QED
      BY <2>6, <2>7
<1>5. Nat \subseteq Done
  <2> HIDE DEF Done
  <2> QED
    BY <1>3, <1>4, ByNumber
<1>6. Small(n) = SUBSET S
  OBVIOUS
<1>7. PICK g : g = [s \in Small(n) |-> Body(g, s)]
  BY <1>5
<1> QED
  BY <1>6, <1>7 DEF Follows

\* What follows each other in h, event by event.
Steps(h, f) ==
  /\ f[0] = 0 /\ f[Len(h)] = Halves(h)
  /\ \A m \in 1..Len(h) : f[m] = Follow(f[m - 1], h[m])

\* Whatever the events, there is a function of what each of them leaves.
LEMMA StepsExist ==
  ASSUME NEW T, NEW h \in Seq(T)
  PROVE  \E f : Steps(h, f)
<1> DEFINE n == Len(h)
           g == CHOOSE k : Follows(h, k)
           f == [m \in 0..n |-> g[1..m]]
<1>1. n \in Nat /\ DOMAIN h = 1..n
  OBVIOUS
<1>2. Halves(h) = g[1..n]
  BY <1>1 DEF Halves, FoldLeft, MapThenFoldSet, Follows
<1>3. Follows(h, g)
  BY <1>1, FollowsExists
<1>4. \A s \in SUBSET (1..n) :
        g[s] = IF s = {} THEN 0 ELSE Follow(g[s \ {Max(s)}], h[Max(s)])
  <2> HIDE DEF g
  <2> QED
    BY <1>1, <1>3 DEF Follows
<1>5. g[1..0] = 0
  <2>1. 1..0 = {}
    OBVIOUS
  <2> HIDE DEF g
  <2> QED
    BY <1>4, <2>1
<1>6. ASSUME NEW m \in 1..n PROVE g[1..m] = Follow(g[1..(m - 1)], h[m])
  <2> HIDE DEF g
  <2>1. 1..m \in SUBSET (1..n) /\ m \in 1..m /\ 1..m # {}
    <3>1. \A i \in 1..m : i \in 1..n
      BY <1>1
    <3>2. m \in 1..m
      OBVIOUS
    <3> QED
      BY <3>1, <3>2, Zenon
  <2>2. Max(1..m) = m
    <3> DEFINE s == 1..m
    <3>1. s \in SUBSET (1..n) /\ s # {}
      BY <2>1
    <3> HIDE DEF s
    <3>2. Max(s) \in s /\ \A k \in s : k <= Max(s)
      BY <1>1, <3>1, MaxOfSome
    <3> USE DEF s
    <3> QED
      BY <2>1, <3>2
  <2>3. (1..m) \ {m} = 1..(m - 1)
    OBVIOUS
  <2> QED
    BY <1>4, <2>1, <2>2, <2>3
<1>7. /\ f[0] = g[1..0] /\ f[n] = g[1..n]
      /\ \A m \in 1..n : f[m] = g[1..m] /\ f[m - 1] = g[1..(m - 1)]
  <2> HIDE DEF g
  <2>1. 0 \in 0..n /\ n \in 0..n /\ \A m \in 1..n : m \in 0..n /\ m - 1 \in 0..n
    BY <1>1
  <2> QED
    BY <2>1
<1>8. Steps(h, f)
  <2> HIDE DEF g, f
  <2> QED
    BY <1>2, <1>5, <1>6, <1>7 DEF Steps
<1> QED
  BY <1>8

\* One more event.
LEMMA HalvesOfMore ==
  ASSUME NEW T, NEW h \in Seq(T), NEW e \in T
  PROVE  Halves(Append(h, e)) = Follow(Halves(h), e)
<1> DEFINE n == Len(h)
           l == Append(h, e)
<1>1. n \in Nat /\ l \in Seq(T) /\ Len(l) = n + 1 /\ l[n + 1] = e /\ \A m \in 1..n : l[m] = h[m]
  OBVIOUS
<1> HIDE DEF l
<1>2. PICK f : Steps(h, f)
  BY StepsExist
<1>3. PICK g : Steps(l, g)
  BY <1>1, StepsExist
<1> DEFINE Same == {m \in Nat : m <= n => f[m] = g[m]}
<1>4. 0 \in Same
  BY <1>2, <1>3 DEF Steps
<1>5. ASSUME NEW m \in Nat, m \in Same PROVE m + 1 \in Same
  <2> SUFFICES ASSUME m + 1 <= n PROVE f[m + 1] = g[m + 1]
    BY <1>5
  <2>1. m + 1 \in 1..n /\ m + 1 \in 1..(n + 1) /\ (m + 1) - 1 = m
    BY <1>1
  <2>2. f[m + 1] = Follow(f[m], h[m + 1]) /\ g[m + 1] = Follow(g[m], l[m + 1])
    BY <1>1, <1>2, <1>3, <2>1 DEF Steps
  <2>3. f[m] = g[m]
    BY <1>1, <1>5
  <2> QED
    BY <1>1, <2>1, <2>2, <2>3
<1>6. n \in Same
  <2> HIDE DEF Same
  <2> QED
    BY <1>1, <1>4, <1>5, ByNumber
<1>7. g[n] = Halves(h)
  BY <1>1, <1>2, <1>6 DEF Steps
<1>8. Halves(l) = Follow(g[n], l[n + 1])
  <2>1. n + 1 \in 1..(n + 1) /\ (n + 1) - 1 = n
    BY <1>1
  <2> QED
    BY <1>1, <1>3, <2>1 DEF Steps
<1> USE DEF l
<1> QED
  BY <1>1, <1>7, <1>8

\* Nothing was heard before the first event.
LEMMA HalvesOfNone == Halves(<<>>) = 0
<1>1. <<>> \in Seq({}) /\ Len(<<>>) = 0
  OBVIOUS
<1>2. PICK f : Steps(<<>>, f)
  BY <1>1, StepsExist
<1> QED
  BY <1>1, <1>2 DEF Steps

\* What comes after counts from where the first ends.
LEMMA HalvesAfter ==
  ASSUME NEW T, NEW h \in Seq(T), NEW k \in Seq(T), NEW t \in Seq(T), Halves(h) = Halves(k)
  PROVE  Halves(h \o t) = Halves(k \o t)
<1> DEFINE n == Len(t)
           Up(m) == SubSeq(t, 1, m)
           Same == {m \in Nat : m <= n => Halves(h \o Up(m)) = Halves(k \o Up(m))}
<1>1. n \in Nat
  OBVIOUS
<1>2. 0 \in Same
  <2>1. Up(0) = <<>>
    OBVIOUS
  <2>2. h \o <<>> = h /\ k \o <<>> = k
    OBVIOUS
  <2> QED
    BY <2>1, <2>2
<1>3. ASSUME NEW m \in Nat, m \in Same PROVE m + 1 \in Same
  <2> SUFFICES ASSUME m + 1 <= n PROVE Halves(h \o Up(m + 1)) = Halves(k \o Up(m + 1))
    BY <1>3
  <2> DEFINE e == t[m + 1]
             u == Up(m)
  <2>1. e \in T /\ u \in Seq(T) /\ Len(u) = m /\ (\A i \in 1..m : u[i] = t[i])
    BY <1>1
  <2>2. Up(m + 1) = Append(u, e)
    BY <1>1
  <2> HIDE DEF e, u
  <2>3. ASSUME NEW s \in Seq(T) PROVE s \o Append(u, e) = Append(s \o u, e) /\ s \o u \in Seq(T)
    BY <2>1
  <2>4. Halves(h \o u) = Halves(k \o u)
    BY <1>1, <1>3 DEF u
  <2>5. /\ Halves(Append(h \o u, e)) = Follow(Halves(h \o u), e)
        /\ Halves(Append(k \o u, e)) = Follow(Halves(k \o u), e)
    BY <2>1, <2>3, HalvesOfMore
  <2> QED
    BY <2>2, <2>3, <2>4, <2>5
<1>4. n \in Same
  <2> HIDE DEF Same
  <2> QED
    BY <1>1, <1>2, <1>3, ByNumber
<1>5. Up(n) = t
  OBVIOUS
<1> QED
  <2> HIDE DEF Up
  <2> QED
    BY <1>1, <1>4, <1>5

-----------------------------------------------------------------------------
(* Lines and events *)

\* Three lines, each of two halves.
LEMMA TotalIsSix == Total = 6
  BY DEF Total, Lines

\* The events there are, and what is known of a piece of a stream.
LEMMA Events ==
  /\ \A x \in {"loading", "token", "title", "error", "cancelled", "close", "[DONE]", "200", "502"} :
       [type |-> x] \in Event
  /\ \A s \in {"done", "cancelled"} : [type |-> "done", state |-> s] \in Event
  /\ \A from, to \in 0..Total : [type |-> "raw", from |-> from, to |-> to] \in Event
  BY DEF Event

\* A piece may end anywhere, and is a piece still.
LEMMA RawIs ==
  ASSUME NEW e \in Event, e.type = "raw"
  PROVE  /\ e.from \in 0..Total /\ e.to \in 0..Total
         /\ \A to \in 0..Total : /\ [e EXCEPT !.to = to] \in Event
                                 /\ [e EXCEPT !.to = to].type = "raw"
                                 /\ [e EXCEPT !.to = to].from = e.from
                                 /\ [e EXCEPT !.to = to].to = to
<1>1. e \in [type : {"raw"}, from : 0..Total, to : 0..Total]
  BY DEF Event
<1>2. \A to \in 0..Total : [e EXCEPT !.to = to] \in [type : {"raw"}, from : 0..Total, to : 0..Total]
  BY <1>1
<1>3. \A to \in 0..Total : [e EXCEPT !.to = to] \in Event
  BY <1>2 DEF Event
<1> QED
  BY <1>1, <1>3

\* The closing event is known by its type.
LEMMA CloseIs == \A e \in Event : e = Close <=> e.type = "close"
<1> SUFFICES ASSUME NEW e \in Event, e.type = "close" PROVE e = Close
  BY DEF Close
<1>1. e \in [type : {"loading", "token", "title", "error", "cancelled", "close", "[DONE]", "200", "502"}]
  BY DEF Event
<1> QED
  BY <1>1 DEF Close

\* No job is in the line twice.
Single(l) == \A i, k \in 1..Len(l) : l[i] = l[k] => i = k

\* Joining the line, being taken from its head, and leaving it.
LEMMA JoinsLine ==
  ASSUME NEW T, NEW l \in Seq(T), NEW j \in T
  PROVE  /\ Append(l, j) \in Seq(T) /\ ToSet(Append(l, j)) = ToSet(l) \cup {j}
         /\ Single(l) /\ j \notin ToSet(l) => Single(Append(l, j))
<1>1. /\ Append(l, j) \in Seq(T) /\ Len(Append(l, j)) = Len(l) + 1 /\ Len(l) \in Nat
      /\ Append(l, j)[Len(l) + 1] = j /\ \A i \in 1..Len(l) : Append(l, j)[i] = l[i]
      /\ DOMAIN l = 1..Len(l) /\ DOMAIN Append(l, j) = 1..(Len(l) + 1)
  OBVIOUS
<1>2. ToSet(Append(l, j)) = ToSet(l) \cup {j}
  <2>1. \A x \in ToSet(Append(l, j)) : x \in ToSet(l) \cup {j}
    BY <1>1 DEF ToSet
  <2>2. \A x \in ToSet(l) : x \in ToSet(Append(l, j))
    <3> SUFFICES ASSUME NEW x \in ToSet(l) PROVE x \in ToSet(Append(l, j))
      OBVIOUS
    <3>1. PICK i \in 1..Len(l) : l[i] = x
      BY <1>1 DEF ToSet
    <3>2. i \in 1..(Len(l) + 1) /\ Append(l, j)[i] = x
      BY <1>1, <3>1
    <3> QED
      BY <1>1, <3>2 DEF ToSet
  <2>3. j \in ToSet(Append(l, j))
    <3>1. Len(l) + 1 \in 1..(Len(l) + 1)
      BY <1>1
    <3> QED
      BY <1>1, <3>1 DEF ToSet
  <2> QED
    BY <2>1, <2>2, <2>3
<1>3. ASSUME Single(l), j \notin ToSet(l) PROVE Single(Append(l, j))
  <2>1. \A i \in 1..Len(l) : l[i] # j
    BY <1>1, <1>3 DEF ToSet
  <2> QED
    BY <1>1, <1>3, <2>1 DEF Single
<1> QED
  BY <1>1, <1>2, <1>3

\* The first of the line is taken from it, and is in it no more.
LEMMA HeadsLine ==
  ASSUME NEW T, NEW l \in Seq(T), l # <<>>
  PROVE  /\ Head(l) \in ToSet(l) /\ Head(l) \in T /\ Tail(l) \in Seq(T)
         /\ Single(l) => ToSet(Tail(l)) = ToSet(l) \ {Head(l)} /\ Single(Tail(l))
<1>1. /\ Len(l) \in Nat \ {0} /\ Tail(l) \in Seq(T) /\ Len(Tail(l)) = Len(l) - 1
      /\ \A i \in 1..(Len(l) - 1) : Tail(l)[i] = l[i + 1]
      /\ Head(l) = l[1] /\ DOMAIN l = 1..Len(l) /\ DOMAIN Tail(l) = 1..(Len(l) - 1)
      /\ l[1] \in T
  BY HeadTailProperties, EmptySeq
<1>2. Head(l) \in ToSet(l)
  BY <1>1 DEF ToSet
<1>3. ASSUME Single(l) PROVE ToSet(Tail(l)) = ToSet(l) \ {Head(l)} /\ Single(Tail(l))
  <2>1. ASSUME NEW x \in ToSet(Tail(l)) PROVE x \in ToSet(l) \ {Head(l)}
    <3>1. PICK i \in 1..(Len(l) - 1) : x = Tail(l)[i]
      BY <1>1 DEF ToSet
    <3>2. i + 1 \in 1..Len(l) /\ x = l[i + 1] /\ i + 1 # 1 /\ 1 \in 1..Len(l)
      BY <1>1, <3>1
    <3>3. x # l[1]
      BY <1>3, <3>2 DEF Single
    <3> QED
      BY <1>1, <3>2, <3>3 DEF ToSet
  <2>2. ASSUME NEW x \in ToSet(l) \ {Head(l)} PROVE x \in ToSet(Tail(l))
    <3>1. PICK i \in 1..Len(l) : x = l[i]
      BY <1>1 DEF ToSet
    <3>2. i # 1
      BY <1>1, <3>1
    <3>3. i - 1 \in 1..(Len(l) - 1) /\ Tail(l)[i - 1] = x
      BY <1>1, <3>1, <3>2
    <3> QED
      BY <1>1, <3>3 DEF ToSet
  <2>3. Single(Tail(l))
    BY <1>1, <1>3 DEF Single
  <2> QED
    BY <2>1, <2>2, <2>3
<1> QED
  BY <1>1, <1>2, <1>3

\* Whoever leaves the line is in it no more, and the others keep their places.
LEMMA LeavesLine ==
  ASSUME NEW T, NEW l \in Seq(T), NEW j \in ToSet(l)
  PROVE  /\ RemoveFirst(l, j) \in Seq(T)
         /\ Single(l) => ToSet(RemoveFirst(l, j)) = ToSet(l) \ {j} /\ Single(RemoveFirst(l, j))
<1> DEFINE n == Len(l)
           I == {i \in 1..n : l[i] = j}
           p == Min(I)
           r == RemoveFirst(l, j)
<1>1. n \in Nat /\ DOMAIN l = 1..n /\ \A i \in 1..n : l[i] \in T
  OBVIOUS
<1>2. I # {}
  BY <1>1 DEF ToSet
<1>3. p \in I
  <2>1. \E x \in I : \A y \in I : x <= y
    <3>1. PICK x \in I : \A y \in I : ~ (<<y, x>> \in OpToRel(<, Nat))
      <4>1. I \subseteq Nat
        BY <1>1
      <4> HIDE DEF I
      <4> QED
        BY <1>2, <4>1, NatLessThanWellFounded, WFMin
    <3>2. \A y \in I : y \in Nat /\ x \in Nat
      BY <1>1
    <3> HIDE DEF I
    <3>3. \A y \in I : ~ (y < x)
      BY <3>1, <3>2 DEF OpToRel
    <3> QED
      BY <3>2, <3>3
  <2> HIDE DEF I
  <2> QED
    BY <2>1 DEF Min
<1>4. r = SubSeq(l, 1, p - 1) \o SubSeq(l, p + 1, n)
  <2>1. \E i \in 1..n : l[i] = j
    BY <1>2
  <2>2. SelectInSeq(l, LAMBDA v : v = j) = p
    BY <1>2 DEF SelectInSeq
  <2> HIDE DEF p
  <2> QED
    BY <2>1, <2>2 DEF RemoveFirst, RemoveAt
<1>5. p \in 1..n /\ l[p] = j
  <2> HIDE DEF p
  <2> QED
    BY <1>3
<1> HIDE DEF p, r
<1> DEFINE b == SubSeq(l, 1, p - 1)
           c == SubSeq(l, p + 1, n)
<1>6. /\ b \in Seq(T) /\ Len(b) = p - 1 /\ \A i \in 1..(p - 1) : b[i] = l[i]
      /\ c \in Seq(T) /\ Len(c) = n - p /\ \A i \in 1..(n - p) : c[i] = l[p + i]
  <2>1. \A i \in 1..(p - 1) : i \in 1..n
    BY <1>1, <1>5
  <2>2. \A i \in (p + 1)..n : i \in 1..n
    BY <1>1, <1>5
  <2>3. \A i \in 1..(p - 1) : l[i] \in T
    BY <1>1, <2>1
  <2>4. \A i \in (p + 1)..n : l[i] \in T
    BY <1>1, <2>2
  <2>5. /\ b \in Seq(T) /\ Len(b) = p - 1 /\ \A i \in 1..(p - 1) : b[i] = l[i]
    <3>1. p - 1 \in Nat
      BY <1>5
    <3> QED
      BY <2>3, <3>1, SubSeqProperties
  <2>6. /\ c \in Seq(T) /\ Len(c) = n - p /\ \A i \in 1..(n - p) : c[i] = l[p + i]
    <3>1. p + 1 \in Int /\ n \in Int /\ p <= n
      BY <1>1, <1>5
    <3>2. /\ c \in Seq(T)
          /\ Len(c) = IF p + 1 <= n THEN n - (p + 1) + 1 ELSE 0
          /\ \A i \in 1..(n - (p + 1) + 1) : c[i] = l[p + 1 + i - 1]
      BY <2>4, <3>1, SubSeqProperties
    <3> HIDE DEF c
    <3>3. \A i \in 1..(n - p) : i \in 1..(n - (p + 1) + 1) /\ p + 1 + i - 1 = p + i
      BY <1>1, <1>5
    <3>4. Len(c) = n - p
      <4>1. p \in Nat /\ n \in Nat /\ p <= n
        BY <1>1, <1>5
      <4>2. Len(c) = IF p + 1 <= n THEN n - (p + 1) + 1 ELSE 0
        BY <3>2
      <4> HIDE DEF n
      <4> QED
        BY <4>1, <4>2
    <3> QED
      BY <3>2, <3>3, <3>4
  <2> QED
    BY <2>5, <2>6
<1> HIDE DEF b, c
<1>7. /\ r \in Seq(T) /\ Len(r) = n - 1 /\ DOMAIN r = 1..(n - 1)
      /\ \A i \in 1..(n - 1) : r[i] = IF i < p THEN l[i] ELSE l[i + 1]
  <2>1. r = b \o c
    BY <1>4 DEF b, c
  <2>2. /\ b \o c \in Seq(T) /\ Len(b \o c) = Len(b) + Len(c)
        /\ \A i \in 1..(Len(b) + Len(c)) : (b \o c)[i] = IF i <= Len(b) THEN b[i] ELSE c[i - Len(b)]
    BY <1>6, ConcatProperties
  <2>3. Len(r) = n - 1
    BY <1>1, <1>5, <1>6, <2>1, <2>2
  <2>4. ASSUME NEW i \in 1..(n - 1) PROVE r[i] = IF i < p THEN l[i] ELSE l[i + 1]
    <3>1. r[i] = IF i <= p - 1 THEN b[i] ELSE c[i - (p - 1)]
      BY <1>1, <1>5, <1>6, <2>1, <2>2
    <3>2. CASE i < p
      BY <1>1, <1>5, <1>6, <3>1, <3>2
    <3>3. CASE ~(i < p)
      <4>1. i - (p - 1) \in 1..(n - p) /\ p + (i - (p - 1)) = i + 1 /\ ~(i <= p - 1)
        BY <1>1, <1>5, <3>3
      <4> QED
        BY <1>6, <3>1, <3>3, <4>1
    <3> QED
      BY <3>2, <3>3
  <2> QED
    BY <2>1, <2>2, <2>3, <2>4
<1>8. ASSUME Single(l) PROVE ToSet(r) = ToSet(l) \ {j} /\ Single(r)
  <2>1. ASSUME NEW x \in ToSet(r) PROVE x \in ToSet(l) \ {j}
    <3>1. PICK i \in 1..(n - 1) : x = r[i]
      BY <1>7 DEF ToSet
    <3>2. PICK k \in 1..n : x = l[k] /\ k # p
      <4>1. CASE i < p
        BY <1>1, <1>7, <3>1, <4>1
      <4>2. CASE ~(i < p)
        <5>1. i + 1 \in 1..n /\ i + 1 # p
          BY <1>1, <1>5, <4>2
        <5> QED
          BY <1>7, <3>1, <4>2, <5>1
      <4> QED
        BY <4>1, <4>2
    <3>3. x # j
      BY <1>5, <1>8, <3>2 DEF Single
    <3> QED
      BY <1>1, <3>2, <3>3 DEF ToSet
  <2>2. ASSUME NEW x \in ToSet(l) \ {j} PROVE x \in ToSet(r)
    <3>1. PICK k \in 1..n : x = l[k] /\ k # p
      BY <1>1, <1>5 DEF ToSet
    <3>2. PICK i \in 1..(n - 1) : x = r[i]
      <4>1. CASE k < p
        <5>1. k \in 1..(n - 1)
          BY <1>1, <1>5, <4>1
        <5> QED
          BY <1>7, <3>1, <4>1, <5>1
      <4>2. CASE ~(k < p)
        <5>1. k - 1 \in 1..(n - 1) /\ ~(k - 1 < p) /\ (k - 1) + 1 = k
          BY <1>1, <1>5, <3>1, <4>2
        <5> QED
          BY <1>7, <3>1, <5>1
      <4> QED
        BY <4>1, <4>2
    <3> QED
      BY <1>7, <3>2 DEF ToSet
  <2>3. Single(r)
    <3> SUFFICES ASSUME NEW i \in 1..(n - 1), NEW k \in 1..(n - 1), r[i] = r[k] PROVE i = k
      BY <1>7 DEF Single
    <3>1. i \in 1..n /\ i + 1 \in 1..n /\ k \in 1..n /\ k + 1 \in 1..n
      BY <1>1
    <3>2. /\ r[i] = IF i < p THEN l[i] ELSE l[i + 1]
          /\ r[k] = IF k < p THEN l[k] ELSE l[k + 1]
      BY <1>7
    <3>3. \A x, y \in 1..n : l[x] = l[y] => x = y
      BY <1>8 DEF Single
    <3>5. CASE i < p /\ k < p
      BY <3>1, <3>2, <3>3, <3>5
    <3>6. CASE ~(i < p) /\ ~(k < p)
      <4>1. i + 1 = k + 1
        BY <3>1, <3>2, <3>3, <3>6
      <4> QED
        BY <4>1
    <3>7. CASE i < p /\ ~(k < p)
      <4>1. i = k + 1
        BY <3>1, <3>2, <3>3, <3>7
      <4> QED
        BY <1>5, <3>7, <4>1
    <3>8. CASE ~(i < p) /\ k < p
      <4>1. i + 1 = k
        BY <3>1, <3>2, <3>3, <3>8
      <4> QED
        BY <1>5, <3>8, <4>1
    <3> QED
      BY <3>5, <3>6, <3>7, <3>8
  <2> QED
    BY <2>1, <2>2, <2>3
<1> QED
  BY <1>7, <1>8 DEF r

-----------------------------------------------------------------------------
(* Types *)

JobTypes ==
  /\ kind \in [Jobs -> Kinds \cup {None}]
  /\ st \in [Jobs -> Terminal \cup {"new", "queued", "loading_model", "generating"}]
  /\ line \in Seq(Jobs) /\ active \in Jobs \cup {None}
  /\ phase \in Phases \cup {None}
  /\ loaded \in BOOLEAN /\ read \in [Jobs -> 0..Total] /\ usage \in [Jobs -> BOOLEAN]
  /\ stop \in [Jobs -> BOOLEAN]
EndTypes ==
  /\ client \in [Jobs -> {"there", "gone"}] /\ closed \in [Jobs -> BOOLEAN]
  /\ channel \in [Jobs -> Seq(Event)] /\ heard \in [Jobs -> Seq(Event)]
PageTypes == open \in BOOLEAN /\ tuned \in BOOLEAN /\ Len(mail) <= Room /\ (tuned => open)

\* The types of the jobs, of the ends of their streams and of the page.
LEMMA TypesInParts == TypeOK <=> JobTypes /\ EndTypes /\ PageTypes
  BY DEF TypeOK, JobTypes, EndTypes, PageTypes

\* A subscriber's queue takes no more than there is room for.
LEMMA BroadcastFits ==
  ASSUME Mail, PageTypes, Broadcast
  PROVE  PageTypes'
<1>1. PICK T : mail \in Seq(T)
  BY DEF Mail
<1>2. CASE tuned /\ Len(mail) < Room
  <2> DEFINE x == Snapshot'
             U == T \cup {x}
  <2>1. mail' = Append(mail, x) /\ tuned' = tuned /\ open' = open
    BY <1>2 DEF Broadcast, PageTypes
  <2> HIDE DEF x
  <2>2. mail \in Seq(U) /\ x \in U
    BY <1>1
  <2> HIDE DEF U
  <2>3. Len(Append(mail, x)) = Len(mail) + 1 /\ Len(mail) \in Nat
    BY <2>2
  <2>4. Len(mail') <= Room
    BY <1>2, <2>1, <2>3, StreamsAssumption
  <2> QED
    BY <2>1, <2>4 DEF PageTypes
<1>3. CASE ~(tuned /\ Len(mail) < Room)
  BY <1>3 DEF Broadcast, PageTypes
<1> QED
  BY <1>2, <1>3

\* What can become of a page's queue.
LEMMA PageChanges ==
  ASSUME [Next]_vars
  PROVE  Broadcast \/ Subscribe \/ Show \/ LeavePage \/ UNCHANGED <<open, tuned, mail>>
<1>1. ASSUME NEW j \in Jobs,
             Submit(j) \/ Upstream(j) \/ Worker(j) \/ Stop(j) \/ Leave(j) \/ Response(j)
      PROVE  Broadcast \/ UNCHANGED <<open, tuned, mail>>
  <2>1. CASE Submit(j) \/ Worker(j)
    BY <2>1 DEF Submit, Worker, Begin, Post, Answer, Title, Finish
  <2>2. CASE Upstream(j)
    BY <2>2 DEF Upstream, RawChunk, ChatChunk, Posted, Fail, MarkGenerating
  <2>3. CASE Stop(j) \/ Leave(j) \/ Response(j)
    BY <2>3 DEF Stop, Leave, Response, Read, Notice, Cancel, DropQueued
  <2> QED
    BY <1>1, <2>1, <2>2, <2>3
<1> QED
  BY <1>1 DEF Next, vars, Take, Unload

\* No step overfills a page's queue, or tunes a page that is not open.
LEMMA PageTypesStay ==
  ASSUME Mail, PageTypes, [Next]_vars
  PROVE  PageTypes'
<1>1. CASE Broadcast
  BY <1>1, BroadcastFits
<1>2. CASE Subscribe
  <2>1. Len(<<Snapshot>>) = 1 /\ mail' = <<Snapshot>> /\ open' = TRUE /\ tuned' = TRUE
    BY <1>2 DEF Subscribe
  <2> QED
    BY <2>1, StreamsAssumption DEF PageTypes
<1>3. CASE Show
  <2>1. PICK T : mail \in Seq(T)
    BY DEF Mail
  <2>2. mail # <<>> /\ mail' = Tail(mail) /\ open' = open /\ tuned' = tuned
    BY <1>3 DEF Show
  <2>3. Len(Tail(mail)) = Len(mail) - 1 /\ Len(mail) \in Nat
    BY <2>1, <2>2, HeadTailProperties
  <2> QED
    BY <2>2, <2>3, StreamsAssumption DEF PageTypes
<1>4. CASE LeavePage
  <2>1. mail' = <<>> /\ Len(<<>>) = 0 /\ open' = FALSE /\ tuned' = FALSE
    BY <1>4 DEF LeavePage
  <2>2. Len(mail') = 0
    BY <2>1
  <2>3. Len(mail') <= Room
    BY <2>2, StreamsAssumption
  <2> QED
    BY <2>1, <2>3 DEF PageTypes
<1> QED
  BY <1>1, <1>2, <1>3, <1>4, PageChanges DEF PageTypes

\* What is put on a job's stream comes after what is on it.
LEMMA EmitTyped ==
  ASSUME channel \in [Jobs -> Seq(Event)], NEW j \in Jobs, NEW c \in Seq(Event), Emit(j, c)
  PROVE  /\ channel' \in [Jobs -> Seq(Event)] /\ channel'[j] = channel[j] \o c
         /\ \A i \in Jobs \ {j} : channel'[i] = channel[i]
<1>1. channel[j] \o c \in Seq(Event)
  BY ConcatProperties
<1> QED
  BY <1>1 DEF Emit

\* The sequences of events that are put on one.
LEMMA Emitted ==
  /\ \A x \in {"loading", "token", "title", "close"} : <<[type |-> x]>> \in Seq(Event)
  /\ \A x \in {"error", "cancelled"} : <<[type |-> x], Close>> \in Seq(Event)
  /\ \A s \in {"done", "cancelled"} : <<[type |-> "done", state |-> s]>> \in Seq(Event)
  /\ \A from, to \in 0..Total : <<[type |-> "raw", from |-> from, to |-> to]>> \in Seq(Event)
  /\ <<Close>> \in Seq(Event)
  /\ <<>> \in Seq(Event)
<1>1. \A e \in Event : <<e>> \in Seq(Event)
  OBVIOUS
<1>2. \A e, f \in Event : <<e, f>> \in Seq(Event)
  OBVIOUS
<1>3. Close \in Event
  BY Events DEF Close
<1>4. <<>> \in Seq(Event)
  OBVIOUS
<1> QED
  BY <1>1, <1>2, <1>3, <1>4, Events

\* Every step but a response's puts something on a job's stream, or nothing.
Emits == UNCHANGED channel \/ \E j \in Jobs, c \in Seq(Event) : Emit(j, c)

\* A stop says so on the stream of a job that waits, and nothing else.
LEMMA CancelEmits ==
  ASSUME NEW j \in Jobs, Cancel(j)
  PROVE  Emits
  BY Emitted DEF Cancel, DropQueued, Emits

\* What the queue and the worker do is put on the streams; no response's end is touched.
LEMMA StepEmits ==
  ASSUME TypeOK, NEW j \in Jobs, Submit(j) \/ Upstream(j) \/ Worker(j) \/ Stop(j)
  PROVE  Emits /\ UNCHANGED endVars
<1> USE DEF Emits
<1>1. CASE Submit(j)
  BY <1>1 DEF Submit
<1>2. CASE RawChunk(j)
  <2>1. PICK to \in read[j] + 1 .. Total :
          /\ Emit(j, <<[type |-> "raw", from |-> read[j], to |-> to]>>) /\ UNCHANGED endVars
    BY <1>2 DEF RawChunk
  <2>2. read[j] \in 0..Total /\ to \in 0..Total
    BY <2>1, TotalIsSix DEF TypeOK
  <2> QED
    BY <2>1, <2>2, Emitted
<1>3. CASE ChatChunk(j)
  <2>1. /\ UNCHANGED endVars
        /\ Emit(j, <<>>) \/ Emit(j, <<[type |-> "token"]>>)
    BY <1>3 DEF ChatChunk
  <2> QED
    BY <2>1, Emitted
<1>4. CASE Posted(j)
  <2>1. Emit(j, <<[type |-> "raw", from |-> 0, to |-> Total]>>) /\ UNCHANGED endVars
    BY <1>4 DEF Posted
  <2>2. 0 \in 0..Total /\ Total \in 0..Total
    BY TotalIsSix
  <2> QED
    BY <2>1, <2>2, Emitted
<1>5. CASE Fail(j)
  BY <1>5, Emitted DEF Fail
<1>6. CASE Begin(j)
  BY <1>6, Emitted DEF Begin
<1>7. CASE Post(j)
  BY <1>7 DEF Post
<1>8. CASE Answer(j)
  BY <1>8, Emitted DEF Answer
<1>9. CASE Title(j)
  BY <1>9, Emitted DEF Title
<1>10. CASE Finish(j)
  BY <1>10, Emitted DEF Finish
<1>11. CASE Stop(j)
  BY <1>11, CancelEmits DEF Stop
<1> QED
  BY <1>1, <1>2, <1>3, <1>4, <1>5, <1>6, <1>7, <1>8, <1>9, <1>10, <1>11 DEF Upstream, Worker

\* The bytes of a piece that continues what was sent before.
LEMMA JoinedTyped ==
  ASSUME NEW h \in Seq(Event), NEW e \in Event, e.type = "raw"
  PROVE  Joined(h, e) \in Seq(Event)
<1>1. CASE h # <<>> /\ Last(h).type = "raw" /\ Last(h).to = e.from
  <2>1. Len(h) \in Nat \ {0} /\ Last(h) \in Event
    BY <1>1, EmptySeq DEF Last
  <2>2. [Last(h) EXCEPT !.to = e.to] \in Event
    BY <1>1, <2>1, RawIs
  <2>3. Front(h) \in Seq(Event)
    BY <2>1, SubSeqProperties DEF Front
  <2>4. Joined(h, e) = Append(Front(h), [Last(h) EXCEPT !.to = e.to])
    BY <1>1 DEF Joined
  <2> QED
    BY <2>2, <2>3, <2>4
<1>2. CASE ~(h # <<>> /\ Last(h).type = "raw" /\ Last(h).to = e.from)
  <2>1. Joined(h, e) = Append(h, e)
    BY <1>2 DEF Joined
  <2> QED
    BY <2>1
<1> QED
  BY <1>1, <1>2

\* What a client was sent is a sequence of events, with one event more too.
LEMMA SentTyped ==
  ASSUME EndTypes, NEW j \in Jobs, NEW e \in Event
  PROVE  Sent(j, e) \in Seq(Event)
<1> DEFINE h == heard[j]
<1>0. h \in Seq(Event)
  BY DEF EndTypes
<1> HIDE DEF h
<1>1. \A f \in Event : Append(h, f) \in Seq(Event)
  BY <1>0
<1>2. DoneMarker \in Event /\ [type |-> "502"] \in Event /\ [type |-> "200"] \in Event
  BY Events DEF DoneMarker
<1>3. h \o <<e, DoneMarker>> \in Seq(Event)
  <2>1. <<e, DoneMarker>> \in Seq(Event)
    BY <1>2
  <2> QED
    BY <1>0, <2>1, ConcatProperties
<1>4. Relayed(h, e) \in Seq(Event)
  <2>1. CASE e.type = "raw"
    BY <1>0, <2>1, JoinedTyped DEF Relayed
  <2>2. CASE e.type # "raw"
    BY <1>0, <1>1, <1>2, <1>3, <2>2 DEF Relayed
  <2> QED
    BY <2>1, <2>2
<1>5. Collected(h, e) \in Seq(Event)
  <2>1. CASE e.type = "raw"
    BY <1>0, <2>1, JoinedTyped DEF Collected
  <2>2. CASE e.type # "raw"
    BY <1>0, <1>1, <1>2, <2>2 DEF Collected
  <2> QED
    BY <2>1, <2>2
<1> QED
  BY <1>0, <1>1, <1>4, <1>5 DEF Sent, h

\* The ends of the streams keep their types.
LEMMA EndTypesStay ==
  ASSUME TypeOK, [Next]_vars
  PROVE  EndTypes'
<1>1. EndTypes
  BY DEF TypeOK, EndTypes
<1>2. ASSUME Emits, UNCHANGED endVars PROVE EndTypes'
  BY <1>1, <1>2, EmitTyped DEF Emits, EndTypes
<1>3. ASSUME NEW j \in Jobs, Leave(j) PROVE EndTypes'
  <2>1. <<>> \in Seq(Event)
    OBVIOUS
  <2> QED
    BY <1>1, <1>3, <2>1 DEF Leave, EndTypes
<1>4. ASSUME NEW j \in Jobs, Read(j) PROVE EndTypes'
  <2> DEFINE e == Head(channel[j])
  <2>1. channel[j] \in Seq(Event) /\ channel[j] # <<>>
    BY <1>1, <1>4 DEF EndTypes, Read
  <2>2. e \in Event /\ Tail(channel[j]) \in Seq(Event)
    BY <2>1, HeadTailProperties
  <2> HIDE DEF e
  <2>3. Sent(j, e) \in Seq(Event)
    BY <1>1, <2>2, SentTyped
  <2>4. /\ channel' = [channel EXCEPT ![j] = Tail(@)]
        /\ heard' = IF client[j] = "there" THEN [heard EXCEPT ![j] = Sent(j, e)] ELSE heard
        /\ \E b \in BOOLEAN : closed' = [closed EXCEPT ![j] = b]
        /\ client' = client
    BY <1>4 DEF Read, e
  <2> QED
    BY <1>1, <2>2, <2>3, <2>4 DEF EndTypes
<1>5. ASSUME NEW j \in Jobs, Notice(j) PROVE EndTypes'
  <2>1. Emits /\ closed' = [closed EXCEPT ![j] = TRUE] /\ UNCHANGED <<client, heard>>
    BY <1>5, CancelEmits DEF Notice
  <2>2. channel' \in [Jobs -> Seq(Event)]
    BY <1>1, <2>1, EmitTyped DEF Emits, EndTypes
  <2> QED
    BY <1>1, <2>1, <2>2 DEF EndTypes
<1>6. CASE Take \/ Unload \/ Subscribe \/ Show \/ LeavePage \/ UNCHANGED vars
  BY <1>2, <1>6 DEF Take, Unload, Subscribe, Show, LeavePage, vars, Emits
<1> QED
  BY <1>2, <1>3, <1>4, <1>5, <1>6, StepEmits DEF Next, Response

\* What came so far only grows, and with it what was read from it.
LEMMA ReceivedTyped ==
  ASSUME JobTypes, NEW j \in Jobs, NEW to \in 0..Total, Received(j, to)
  PROVE  read' \in [Jobs -> 0..Total] /\ usage' \in [Jobs -> BOOLEAN]
<1>1. read' \in [Jobs -> 0..Total]
  BY DEF Received, JobTypes
<1>2. \A b \in BOOLEAN : [usage EXCEPT ![j] = b] \in [Jobs -> BOOLEAN]
  BY DEF JobTypes
<1>3. usage' = [usage EXCEPT ![j] = usage[j] \/ "usage" \in Completed(read[j], to)]
  BY DEF Received
<1>4. (usage[j] \/ "usage" \in Completed(read[j], to)) \in BOOLEAN
  OBVIOUS
<1> QED
  BY <1>1, <1>2, <1>3, <1>4

\* Upstream's pieces leave the jobs' types as they were.
LEMMA UpstreamTypes ==
  ASSUME JobTypes, NEW j \in Jobs, Upstream(j)
  PROVE  JobTypes'
<1>1. ASSUME NEW to \in 0..Total, Received(j, to), UNCHANGED <<kind, line, active, phase, stop>>,
             loaded' \in BOOLEAN, st' = st \/ st' = [st EXCEPT ![j] = "generating"]
      PROVE  JobTypes'
  <2>1. read' \in [Jobs -> 0..Total] /\ usage' \in [Jobs -> BOOLEAN]
    BY <1>1, ReceivedTyped
  <2> QED
    BY <1>1, <2>1 DEF JobTypes
<1>2. CASE RawChunk(j)
  <2>1. PICK to \in read[j] + 1 .. Total :
          /\ Received(j, to) /\ UNCHANGED <<kind, line, active, phase, stop>>
          /\ IF FirstOutput(j, to) THEN MarkGenerating(j) ELSE UNCHANGED <<st, loaded, pageVars>>
    BY <1>2 DEF RawChunk
  <2>2. to \in 0..Total
    BY TotalIsSix DEF JobTypes
  <2>3. loaded' \in BOOLEAN /\ (st' = st \/ st' = [st EXCEPT ![j] = "generating"])
    BY <2>1 DEF MarkGenerating, JobTypes
  <2> QED
    BY <1>1, <2>1, <2>2, <2>3
<1>3. CASE ChatChunk(j)
  <2> DEFINE to == read[j] + 2
  <2>1. /\ Received(j, to) /\ UNCHANGED <<kind, line, active, phase, stop>> /\ to <= Total
        /\ IF FirstOutput(j, to) THEN MarkGenerating(j) ELSE UNCHANGED <<st, loaded, pageVars>>
    BY <1>3 DEF ChatChunk
  <2>2. to \in 0..Total
    BY <2>1, TotalIsSix DEF JobTypes
  <2>3. loaded' \in BOOLEAN /\ (st' = st \/ st' = [st EXCEPT ![j] = "generating"])
    BY <2>1 DEF MarkGenerating, JobTypes
  <2> QED
    BY <1>1, <2>1, <2>2, <2>3
<1>4. CASE Posted(j)
  <2>1. /\ Received(j, Total) /\ UNCHANGED <<kind, line, active, phase, stop>>
        /\ loaded' = TRUE /\ st' = st /\ Total \in 0..Total
    BY <1>4, TotalIsSix DEF Posted
  <2> QED
    BY <1>1, <2>1
<1>5. CASE Fail(j)
  <2>1. "error" \in Terminal
    BY DEF Terminal
  <2> QED
    BY <1>5, <2>1 DEF Fail, JobTypes
<1> QED
  BY <1>2, <1>3, <1>4, <1>5 DEF Upstream

\* So do the worker's steps,
LEMMA WorkerTypes ==
  ASSUME JobTypes, NEW j \in Jobs, Worker(j)
  PROVE  JobTypes'
<1>0. {"done", "cancelled"} \subseteq Terminal
  BY DEF Terminal
<1>1. CASE Begin(j)
  BY <1>1 DEF Begin, JobTypes, Phases
<1>2. CASE Post(j)
  BY <1>2 DEF Post, JobTypes, Phases
<1>3. CASE Answer(j)
  BY <1>0, <1>3 DEF Answer, JobTypes, Phases
<1>4. CASE Title(j)
  BY <1>4 DEF Title, JobTypes, Phases
<1>5. CASE Finish(j)
  BY <1>5 DEF Finish, JobTypes
<1> QED
  BY <1>1, <1>2, <1>3, <1>4, <1>5 DEF Worker

\* a stop,
LEMMA CancelTypes ==
  ASSUME JobTypes, NEW j \in Jobs, Cancel(j)
  PROVE  JobTypes'
<1>1. CASE j \in ToSet(line) /\ DropQueued(j)
  <2>1. RemoveFirst(line, j) \in Seq(Jobs) /\ "cancelled" \in Terminal
    BY <1>1, LeavesLine DEF JobTypes, Terminal
  <2> QED
    BY <1>1, <2>1 DEF DropQueued, JobTypes
<1>2. CASE j = active /\ stop' = [stop EXCEPT ![j] = TRUE]
           /\ UNCHANGED <<kind, st, line, active, phase, loaded, read, usage>>
  BY <1>2 DEF JobTypes
<1>3. CASE UNCHANGED jobVars
  BY <1>3 DEF JobTypes
<1> QED
  BY <1>1, <1>2, <1>3 DEF Cancel

\* and a new job.
LEMMA SubmitTypes ==
  ASSUME JobTypes, NEW j \in Jobs, Submit(j)
  PROVE  JobTypes'
<1>1. Append(line, j) \in Seq(Jobs)
  BY DEF JobTypes
<1>2. PICK k \in Uses[j] : kind' = [kind EXCEPT ![j] = k]
  BY DEF Submit
<1>3. k \in Kinds
  BY <1>2, StreamsAssumption
<1> QED
  BY <1>1, <1>2, <1>3 DEF Submit, JobTypes

\* Every step leaves the jobs' types as they were.
LEMMA JobTypesStay ==
  ASSUME JobTypes, [Next]_vars
  PROVE  JobTypes'
<1>1. CASE Take
  <2>1. Head(line) \in Jobs /\ Tail(line) \in Seq(Jobs)
    BY <1>1, HeadTailProperties DEF Take, JobTypes
  <2> QED
    BY <1>1, <2>1 DEF Take, JobTypes, Phases
<1>2. CASE Unload
  BY <1>2 DEF Unload, JobTypes
<1>3. ASSUME NEW j \in Jobs, Stop(j) \/ Notice(j) PROVE JobTypes'
  BY <1>3, CancelTypes DEF Stop, Notice
<1>4. ASSUME UNCHANGED jobVars PROVE JobTypes'
  BY <1>4 DEF JobTypes
<1>5. CASE Subscribe \/ Show \/ LeavePage \/ UNCHANGED vars
  BY <1>4, <1>5 DEF Subscribe, Show, LeavePage, vars
<1>6. ASSUME NEW j \in Jobs, Leave(j) \/ Read(j) PROVE JobTypes'
  BY <1>4, <1>6 DEF Leave, Read
<1> QED
  BY <1>1, <1>2, <1>3, <1>5, <1>6, SubmitTypes, UpstreamTypes, WorkerTypes DEF Next, Response

Typed == TypeOK /\ Mail

\* The box starts with everything in its type.
LEMMA InitTyped == Init => Typed
<1> SUFFICES ASSUME Init PROVE Typed
  OBVIOUS
<1>1. mail \in Seq({}) /\ Len(mail) = 0
  BY DEF Init
<1>2. <<>> \in Seq(Event) /\ <<>> \in Seq(Jobs) /\ 0 \in 0..Total /\ 0 <= Room
  BY TotalIsSix, StreamsAssumption
<1>3. TypeOK
  BY <1>1, <1>2 DEF Init, TypeOK
<1> QED
  BY <1>1, <1>3 DEF Typed, Mail

\* A subscriber's queue stays one.
LEMMA MailStays ==
  ASSUME Mail, [Next]_vars
  PROVE  Mail'
<1>1. PICK T : mail \in Seq(T)
  BY DEF Mail
<1>2. CASE Broadcast
  <2>1. mail' = Append(mail, Snapshot') \/ mail' = mail
    BY <1>2 DEF Broadcast
  <2> QED
    BY <1>1, <2>1, AppendIsLast DEF Mail
<1>3. CASE Subscribe
  <2>1. mail' = <<Snapshot>> /\ <<Snapshot>> \in Seq({Snapshot})
    BY <1>3 DEF Subscribe
  <2> QED
    BY <2>1 DEF Mail
<1>4. CASE Show
  BY <1>1, <1>4, TailKeepsLast DEF Show, Mail
<1>5. CASE LeavePage
  <2>1. mail' = <<>> /\ <<>> \in Seq({})
    BY <1>5 DEF LeavePage
  <2> QED
    BY <2>1 DEF Mail
<1> QED
  BY <1>1, <1>2, <1>3, <1>4, <1>5, PageChanges DEF Mail

\* Every step leaves everything in its type.
LEMMA NextTyped == Typed /\ [Next]_vars => Typed'
<1> SUFFICES ASSUME Typed, [Next]_vars PROVE Typed'
  OBVIOUS
<1>1. JobTypes /\ EndTypes /\ PageTypes /\ Mail /\ TypeOK
  BY TypesInParts DEF Typed
<1>2. JobTypes' /\ EndTypes' /\ PageTypes' /\ Mail'
  BY <1>1, JobTypesStay, EndTypesStay, PageTypesStay, MailStays
<1>3. TypeOK'
  BY <1>2 DEF TypeOK, JobTypes, EndTypes, PageTypes
<1> QED
  BY <1>2, <1>3 DEF Typed

\* Every variable has its type, whatever the jobs, and no subscriber's queue outgrows
\* its room.
THEOREM StreamsTyped == Spec => []TypeOK
<1>1. Typed => TypeOK
  BY DEF Typed
<1> QED
  BY <1>1, InitTyped, NextTyped, PTL DEF Spec

-----------------------------------------------------------------------------
(* Where a job is, and how much of its answer came *)

Waits(j) == j \in ToSet(line)
\* Dropped from the line: stopped before it ran.
Dropped(j) == st[j] = "cancelled" /\ ~stop[j]

Places == Single(line) /\ (active = None <=> phase = None)

\* Where a job is, by its state.
Place(j) ==
  /\ kind[j] = None <=> st[j] = "new"
  /\ Waits(j) => st[j] = "queued" /\ active # j /\ ~stop[j]
  /\ st[j] = "new" => ~stop[j]
  /\ ~Waits(j) /\ active # j => st[j] \in Terminal \cup {"new"}
  /\ active = j =>
       /\ phase = "asked" => st[j] = "queued"
       /\ phase = "posting" => st[j] \in {"queued", "loading_model"} /\ kind[j] = "body"
       /\ phase = "pump" => st[j] \in {"queued", "loading_model", "generating"}
       /\ phase \in {"title", "stopping"} => st[j] \in {"done", "cancelled"}

\* How much of its answer has been received.
Progress(j) ==
  /\ st[j] = "new" \/ Waits(j) \/ (active = j /\ phase \in {"asked", "posting"}) => read[j] = 0
  /\ st[j] = "done" => read[j] = Total
  /\ st[j] = "error" => read[j] < Total
  /\ Dropped(j) => read[j] = 0 /\ active # j
  /\ kind[j] = "body" => read[j] \in {0, Total}
  /\ usage[j] <=> read[j] >= 4
  /\ kind[j] # "body" /\ st[j] \notin Terminal => (st[j] = "generating" <=> read[j] >= 2)

Course(j) == Place(j) /\ Progress(j)
Courses == Places /\ \A j \in Jobs : Course(j)

\* A step that concerns j leaves the other jobs alone.
OthersMind(j) == \A i \in Jobs \ {j} :
  /\ kind'[i] = kind[i] /\ st'[i] = st[i] /\ read'[i] = read[i]
  /\ usage'[i] = usage[i] /\ stop'[i] = stop[i]
  /\ i \in ToSet(line') <=> i \in ToSet(line)
  /\ active' = i <=> active = i
  /\ active = i => phase' = phase

\* A step that leaves a job alone leaves it on its course.
LEMMA OthersCourse ==
  ASSUME NEW j \in Jobs, OthersMind(j), NEW i \in Jobs, i # j, Course(i)
  PROVE  Course(i)'
  BY DEF OthersMind, Course, Place, Progress, Waits, Dropped

\* The lines that end in some halves: output is the first, usage the second.
LEMMA CompletedAre ==
  ASSUME NEW from \in 0..Total, NEW to \in 0..Total
  PROVE  /\ "output" \in Completed(from, to) <=> from < 2 /\ 2 <= to
         /\ "usage" \in Completed(from, to) <=> from < 4 /\ 4 <= to
<1>1. DOMAIN Lines = 1..3 /\ Lines[1] = "output" /\ Lines[2] = "usage" /\ Lines[3] = "[DONE]"
  BY DEF Lines
<1>2. "output" \in Completed(from, to) <=> 2 * 1 \in from + 1 .. to
  BY <1>1, TotalIsSix DEF Completed
<1>3. "usage" \in Completed(from, to) <=> 2 * 2 \in from + 1 .. to
  BY <1>1, TotalIsSix DEF Completed
<1> QED
  BY <1>2, <1>3, TotalIsSix

\* Whoever has the slot is in a phase, and who waits has not.
LEMMA Busy ==
  ASSUME JobTypes, Places, NEW j \in Jobs, active = j
  PROVE  phase \in Phases /\ active # None /\ phase # None
  BY StreamsAssumption DEF JobTypes, Places

\* A new job waits, and nothing of its answer has come.
LEMMA SubmitCourse ==
  ASSUME JobTypes, Courses, NEW j \in Jobs, Submit(j)
  PROVE  Places' /\ OthersMind(j) /\ Course(j)'
<1>0. Course(j) /\ Places /\ st[j] = "new" /\ read[j] \in 0..Total
  BY DEF Submit, Courses, JobTypes
<1>1. ~Waits(j) /\ active # j /\ read[j] = 0 /\ ~stop[j] /\ ~usage[j]
  <2>1. active # j
    BY <1>0, Busy DEF Course, Place, Phases
  <2> QED
    BY <1>0, <2>1, TotalIsSix DEF Course, Place, Progress, Terminal
<1>2. line' = Append(line, j) /\ ToSet(line') = ToSet(line) \cup {j} /\ Single(line')
  BY <1>1, JoinsLine DEF Submit, Courses, Places, Waits, JobTypes
<1>3. Places'
  BY <1>2 DEF Submit, Courses, Places
<1>4. PICK k \in Uses[j] : kind' = [kind EXCEPT ![j] = k]
  BY DEF Submit
<1>5. k \in Kinds /\ k # None
  BY <1>4, StreamsAssumption
<1>6. OthersMind(j)
  BY <1>2, <1>4 DEF Submit, OthersMind, JobTypes
<1>7. /\ kind'[j] # None /\ st'[j] = "queued" /\ read'[j] = 0 /\ ~stop'[j] /\ ~usage'[j]
      /\ active' # j /\ Waits(j)'
  BY <1>1, <1>2, <1>4, <1>5 DEF Submit, JobTypes, Waits
<1>8. Course(j)'
  BY <1>7, TotalIsSix DEF Course, Place, Progress, Dropped, Terminal
<1> QED
  BY <1>3, <1>6, <1>8

\* The first of the line gets the slot, and nothing of its answer has come.
LEMMA TakeCourse ==
  ASSUME JobTypes, Courses, Take
  PROVE  \E j \in Jobs : Places' /\ OthersMind(j) /\ Course(j)'
<1>0. line # <<>> /\ line \in Seq(Jobs) /\ Single(line)
  BY DEF Take, JobTypes, Courses, Places
<1>1. PICK j \in Jobs : j = Head(line)
  BY <1>0, HeadsLine
<1>2. Waits(j) /\ ToSet(line') = ToSet(line) \ {j} /\ Single(line')
  BY <1>0, <1>1, HeadsLine DEF Take, Waits
<1>3. /\ active = None /\ active' = j /\ phase' = "asked"
      /\ UNCHANGED <<kind, st, loaded, read, usage, stop>>
  BY <1>1 DEF Take
<1>4. Places' /\ OthersMind(j)
  <2>1. None # j /\ None # "asked"
    BY StreamsAssumption DEF Phases
  <2> QED
    BY <1>2, <1>3, <2>1, StreamsAssumption DEF Places, OthersMind
<1>5. /\ st[j] = "queued" /\ read[j] = 0 /\ ~stop[j] /\ kind[j] # None /\ ~usage[j]
  BY <1>2, TotalIsSix DEF Courses, Course, Place, Progress
<1>6. /\ st'[j] = "queued" /\ read'[j] = 0 /\ ~stop'[j] /\ kind'[j] # None /\ ~usage'[j]
      /\ ~Waits(j)'
  BY <1>2, <1>3, <1>5 DEF Waits
<1>7. Course(j)'
  BY <1>3, <1>6, TotalIsSix DEF Course, Place, Progress, Dropped, Terminal
<1> QED
  BY <1>4, <1>7

\* A step of the job that has the slot.
LEMMA RunnerCourse ==
  ASSUME JobTypes, Courses, NEW j \in Jobs, active = j,
         UNCHANGED <<kind, line>>,
         \A i \in Jobs \ {j} : /\ st'[i] = st[i] /\ read'[i] = read[i]
                               /\ usage'[i] = usage[i] /\ stop'[i] = stop[i],
         \/ active' = j /\ phase' \in Phases
         \/ active' = None /\ phase' = None
  PROVE  Places' /\ OthersMind(j) /\ ~Waits(j) /\ ~Waits(j)' /\ Course(j) /\ phase \in Phases
<1>1. Course(j) /\ ~Waits(j) /\ Places /\ phase \in Phases
  BY Busy DEF Courses, Course, Place
<1>2. Places' /\ OthersMind(j)
  BY <1>1, StreamsAssumption DEF Places, OthersMind
<1> QED
  BY <1>1, <1>2 DEF Waits

\* The worker takes its job from phase to phase, to an end that tells what came.
LEMMA WorkerCourse ==
  ASSUME JobTypes, Courses, NEW j \in Jobs, Worker(j)
  PROVE  Places' /\ OthersMind(j) /\ Course(j)'
<1>1. Places' /\ OthersMind(j) /\ ~Waits(j) /\ ~Waits(j)' /\ Course(j)
  <2>1. /\ active = j /\ UNCHANGED <<kind, line, read, usage, stop>>
        /\ \A i \in Jobs \ {j} : st'[i] = st[i]
        /\ \/ active' = j /\ phase' \in Phases
           \/ active' = None /\ phase' = None
    BY DEF Worker, Begin, Post, Answer, Title, Finish, JobTypes, Phases
  <2> QED
    BY <2>1, RunnerCourse
<1>2. /\ active = j /\ kind'[j] = kind[j] /\ read'[j] = read[j] /\ read[j] \in 0..Total
      /\ usage'[j] = usage[j] /\ stop'[j] = stop[j]
  BY DEF Worker, Begin, Post, Answer, Title, Finish, JobTypes
<1> USE DEF Course, Place, Progress, Dropped, Terminal
<1>3. CASE Begin(j)
  <2>1. /\ phase = "asked" /\ phase' = (IF kind[j] = "body" THEN "posting" ELSE "pump")
        /\ st'[j] \in {st[j], "loading_model"} /\ active' = j
    BY <1>3 DEF Begin, JobTypes
  <2> QED
    BY <1>1, <1>2, <2>1, TotalIsSix
<1>4. CASE Post(j)
  <2>1. phase = "posting" /\ phase' = "pump" /\ st'[j] = "generating" /\ active' = j
    BY <1>4 DEF Post, JobTypes
  <2> QED
    BY <1>1, <1>2, <2>1, TotalIsSix
<1>5. CASE Answer(j)
  <2>1. /\ phase = "pump" /\ phase' \in {"title", "stopping"} /\ active' = j
        /\ st'[j] = (IF stop[j] THEN "cancelled" ELSE "done")
        /\ ~stop[j] => read[j] = Total
    BY <1>5 DEF Answer, JobTypes
  <2> QED
    BY <1>1, <1>2, <2>1, TotalIsSix
<1>6. CASE Title(j)
  <2>1. phase = "title" /\ phase' = "stopping" /\ active' = j /\ st'[j] = st[j]
    BY <1>6 DEF Title
  <2> QED
    BY <1>1, <1>2, <2>1, TotalIsSix
<1>7. CASE Finish(j)
  <2>1. phase = "stopping" /\ active' # j /\ st'[j] = st[j]
    BY <1>7, StreamsAssumption DEF Finish
  <2> QED
    BY <1>1, <1>2, <2>1, TotalIsSix
<1> QED
  BY <1>1, <1>3, <1>4, <1>5, <1>6, <1>7 DEF Worker

\* What comes with a piece of the answer.
LEMMA ReceivedIs ==
  ASSUME JobTypes, NEW j \in Jobs, NEW to \in 0..Total, Received(j, to)
  PROVE  /\ read'[j] = to /\ \A i \in Jobs \ {j} : read'[i] = read[i] /\ usage'[i] = usage[i]
         /\ usage'[j] <=> usage[j] \/ (read[j] < 4 /\ 4 <= to)
         /\ FirstOutput(j, to) <=> st[j] # "generating" /\ read[j] < 2 /\ 2 <= to
  BY CompletedAre DEF Received, FirstOutput, JobTypes

\* A piece of a stream or a line of a chat: the first output is when it is generating.
LEMMA PieceCourse ==
  ASSUME JobTypes, Courses, NEW j \in Jobs, NEW to \in 0..Total, Received(j, to), read[j] < to,
         active = j, phase = "pump", kind[j] # "body",
         UNCHANGED <<kind, line, active, phase, stop>>,
         IF FirstOutput(j, to) THEN MarkGenerating(j) ELSE UNCHANGED <<st, loaded, pageVars>>
  PROVE  Places' /\ OthersMind(j) /\ Course(j)'
<1>1. /\ \A i \in Jobs \ {j} : st'[i] = st[i]
      /\ st'[j] = IF FirstOutput(j, to) THEN "generating" ELSE st[j]
  BY DEF MarkGenerating, JobTypes
<1>2. Places' /\ OthersMind(j) /\ ~Waits(j) /\ ~Waits(j)' /\ Course(j)
  BY <1>1, ReceivedIs, RunnerCourse DEF Phases
<1>3. /\ read'[j] = to /\ (usage'[j] <=> usage[j] \/ (read[j] < 4 /\ 4 <= to))
      /\ st'[j] = IF read[j] < 2 /\ 2 <= to THEN "generating" ELSE st[j]
      /\ read[j] \in 0..Total
  BY <1>1, ReceivedIs DEF JobTypes
<1>4. Course(j)'
  BY <1>2, <1>3, TotalIsSix DEF Course, Place, Progress, Dropped, Terminal
<1> QED
  BY <1>2, <1>4

\* So does a piece of the answer, or a failure in place of one.
LEMMA UpstreamCourse ==
  ASSUME JobTypes, Courses, NEW j \in Jobs, Upstream(j)
  PROVE  Places' /\ OthersMind(j) /\ Course(j)'
<1>1. CASE RawChunk(j)
  <2>1. PICK to \in read[j] + 1 .. Total :
          /\ Received(j, to) /\ UNCHANGED <<kind, line, active, phase, stop>>
          /\ IF FirstOutput(j, to) THEN MarkGenerating(j) ELSE UNCHANGED <<st, loaded, pageVars>>
          /\ active = j /\ phase = "pump" /\ kind[j] = "stream"
    BY <1>1 DEF RawChunk
  <2>2. to \in 0..Total /\ read[j] < to
    BY TotalIsSix DEF JobTypes
  <2> QED
    BY <2>1, <2>2, PieceCourse
<1>2. CASE ChatChunk(j)
  <2> DEFINE to == read[j] + 2
  <2>1. /\ Received(j, to) /\ UNCHANGED <<kind, line, active, phase, stop>> /\ to <= Total
        /\ IF FirstOutput(j, to) THEN MarkGenerating(j) ELSE UNCHANGED <<st, loaded, pageVars>>
        /\ active = j /\ phase = "pump" /\ kind[j] # "body"
    BY <1>2 DEF ChatChunk, Chatty
  <2>0. read[j] \in 0..Total
    BY DEF JobTypes
  <2>2. to \in 0..Total /\ read[j] < to
    BY <2>0, <2>1, TotalIsSix
  <2> HIDE DEF to
  <2> QED
    BY <2>1, <2>2, PieceCourse
<1>3. CASE Posted(j)
  <2>1. /\ Received(j, Total) /\ Total \in 0..Total /\ active = j /\ phase = "pump"
        /\ UNCHANGED <<kind, st, line, active, phase, stop>> /\ kind[j] = "body" /\ read[j] = 0
    BY <1>3, TotalIsSix DEF Posted
  <2>2. /\ Places' /\ OthersMind(j) /\ ~Waits(j) /\ ~Waits(j)' /\ Course(j)
    BY <2>1, ReceivedIs, RunnerCourse DEF Phases
  <2>3. read'[j] = Total /\ (usage'[j] <=> usage[j] \/ (read[j] < 4 /\ 4 <= Total))
    BY <2>1, ReceivedIs
  <2>4. Course(j)'
    BY <2>1, <2>2, <2>3, TotalIsSix DEF Course, Place, Progress, Dropped, Terminal
  <2> QED
    BY <2>2, <2>4
<1>4. CASE Fail(j)
  <2>1. /\ active = j /\ phase = "pump" /\ read[j] < Total /\ active' = None /\ phase' = None
        /\ UNCHANGED <<kind, line, read, usage, stop>>
        /\ st' = [st EXCEPT ![j] = "error"]
    BY <1>4 DEF Fail
  <2>2. st'[j] = "error" /\ \A i \in Jobs \ {j} : st'[i] = st[i]
    BY <2>1 DEF JobTypes
  <2>3. Places' /\ OthersMind(j) /\ ~Waits(j) /\ ~Waits(j)' /\ Course(j)
    BY <2>1, <2>2, RunnerCourse
  <2>4. active' # j
    BY <2>1, StreamsAssumption
  <2>5. Course(j)'
    BY <2>1, <2>2, <2>3, <2>4, TotalIsSix DEF Course, Place, Progress, Dropped, Terminal
  <2> QED
    BY <2>3, <2>5
<1> QED
  BY <1>1, <1>2, <1>3, <1>4 DEF Upstream

\* A stop drops a job that waits, and only flags the one that runs.
LEMMA CancelCourse ==
  ASSUME JobTypes, Courses, NEW j \in Jobs, Cancel(j)
  PROVE  Places' /\ OthersMind(j) /\ Course(j)'
<1>0. Course(j) /\ Places
  BY DEF Courses
<1>1. CASE j = active /\ stop' = [stop EXCEPT ![j] = TRUE]
           /\ UNCHANGED <<kind, st, line, active, phase, loaded, read, usage, channel, pageVars>>
  <2>1. stop'[j] /\ \A i \in Jobs \ {j} : stop'[i] = stop[i]
    BY <1>1 DEF JobTypes
  <2>2. phase \in Phases
    BY <1>0, <1>1, Busy
  <2>3. Places' /\ OthersMind(j) /\ ~Waits(j) /\ ~Waits(j)'
    BY <1>1, <2>1, <2>2, RunnerCourse
  <2>4. Course(j)'
    BY <1>0, <1>1, <2>1, <2>2, <2>3 DEF Course, Place, Progress, Dropped, Terminal, Phases
  <2> QED
    BY <2>3, <2>4
<1>2. CASE j \in ToSet(line) /\ DropQueued(j)
  <2>1. ToSet(line') = ToSet(line) \ {j} /\ Single(line')
    BY <1>0, <1>2, LeavesLine DEF DropQueued, JobTypes, Places
  <2>2. /\ st'[j] = "cancelled" /\ \A i \in Jobs \ {j} : st'[i] = st[i]
        /\ UNCHANGED <<kind, active, phase, read, usage, stop>>
    BY <1>2 DEF DropQueued, JobTypes
  <2>3. Places' /\ OthersMind(j) /\ ~Waits(j)'
    BY <1>0, <2>1, <2>2 DEF Places, OthersMind, Waits
  <2>4. st[j] = "queued" /\ active # j /\ ~stop[j] /\ read[j] = 0
    BY <1>0, <1>2 DEF Course, Place, Progress, Waits
  <2>5. Course(j)'
    BY <1>0, <2>2, <2>3, <2>4, TotalIsSix DEF Course, Place, Progress, Dropped, Terminal
  <2> QED
    BY <2>3, <2>5
<1>3. CASE UNCHANGED jobVars
  BY <1>0, <1>3 DEF Places, OthersMind, Course, Place, Progress, Dropped, Waits
<1> QED
  BY <1>1, <1>2, <1>3 DEF Cancel

\* The steps that concern a job of the queue, and those that concern none.
LEMMA StepOfOne ==
  ASSUME [Next]_vars
  PROVE  \/ Take
         \/ \E j \in Jobs : Submit(j) \/ Upstream(j) \/ Worker(j) \/ Cancel(j)
         \/ UNCHANGED <<kind, st, line, active, phase, read, usage, stop>>
<1>1. ASSUME NEW j \in Jobs,
             Submit(j) \/ Upstream(j) \/ Worker(j) \/ Stop(j) \/ Leave(j) \/ Response(j)
      PROVE  \/ Submit(j) \/ Upstream(j) \/ Worker(j) \/ Cancel(j)
             \/ UNCHANGED <<kind, st, line, active, phase, read, usage, stop>>
  BY <1>1 DEF Stop, Leave, Response, Read, Notice
<1> QED
  BY <1>1 DEF Next, Unload, Subscribe, Show, LeavePage, vars

\* At first there are no jobs.
LEMMA InitCourses == Init => Courses
<1> SUFFICES ASSUME Init PROVE Courses
  OBVIOUS
<1>1. Places
  BY DEF Init, Places, Single
<1>2. ASSUME NEW j \in Jobs PROVE Course(j)
  <2>1. ~Waits(j)
    BY DEF Init, Waits, ToSet
  <2> QED
    BY <2>1, TotalIsSix, StreamsAssumption DEF Init, Course, Place, Progress, Dropped, Terminal
<1> QED
  BY <1>1, <1>2 DEF Courses

\* Every step leaves every job on its course.
LEMMA NextCourses ==
  ASSUME JobTypes, Courses, [Next]_vars
  PROVE  Courses'
<1>1. ASSUME NEW j \in Jobs, Places', OthersMind(j), Course(j)' PROVE Courses'
  BY <1>1, OthersCourse DEF Courses
<1>2. CASE UNCHANGED <<kind, st, line, active, phase, read, usage, stop>>
  BY <1>2 DEF Courses, Places, Course, Place, Progress, Dropped, Waits
<1> QED
  BY <1>1, <1>2, StepOfOne, SubmitCourse, TakeCourse, UpstreamCourse, WorkerCourse, CancelCourse

-----------------------------------------------------------------------------
(* Events in a sequence *)

Without(h, T) == \A i \in 1..Len(h) : h[i].type \notin T
Only(i, h, T) == i \in 1..Len(h) /\ h[i].type \in T /\ \A k \in 1..Len(h) : h[k].type \in T => k = i
Once(h, T) == \E i \in 1..Len(h) : Only(i, h, T)

\* Of a sequence and what comes after it.
LEMMA OneOfBoth ==
  ASSUME NEW s \in Seq(Event), NEW c \in Seq(Event), NEW T
  PROVE  /\ s \o c \in Seq(Event)
         /\ Without(s, T) /\ Without(c, T) => Without(s \o c, T)
         /\ \A i : Only(i, s, T) /\ Without(c, T) => Only(i, s \o c, T) /\ (s \o c)[i] = s[i]
         /\ \A i : Without(s, T) /\ Only(i, c, T) =>
              Only(Len(s) + i, s \o c, T) /\ (s \o c)[Len(s) + i] = c[i]
<1> DEFINE u == s \o c
           m == Len(s)
           n == Len(c)
<1>1. /\ u \in Seq(Event) /\ Len(u) = m + n /\ m \in Nat /\ n \in Nat
      /\ \A i \in 1..(m + n) : u[i] = IF i <= m THEN s[i] ELSE c[i - m]
  BY ConcatProperties
<1> HIDE DEF u
<1>2. /\ \A i \in 1..m : i \in 1..Len(u) /\ u[i] = s[i]
      /\ \A i \in 1..n : m + i \in 1..Len(u) /\ u[m + i] = c[i]
      /\ \A i \in 1..Len(u) : i \in 1..m \/ (i - m \in 1..n /\ i = m + (i - m))
  <2>1. \A i \in 1..m : i \in 1..Len(u) /\ u[i] = s[i]
    BY <1>1
  <2>2. ASSUME NEW i \in 1..n PROVE m + i \in 1..Len(u) /\ u[m + i] = c[i]
    <3>1. m + i \in 1..(m + n) /\ ~(m + i <= m) /\ (m + i) - m = i
      BY <1>1
    <3> QED
      BY <1>1, <3>1
  <2>3. \A i \in 1..Len(u) : i \in 1..m \/ (i - m \in 1..n /\ i = m + (i - m))
    <3> HIDE DEF m, n
    <3> QED
      BY <1>1
  <2> QED
    BY <2>1, <2>2, <2>3
<1>3. Without(s, T) /\ Without(c, T) => Without(u, T)
  BY <1>1, <1>2 DEF Without
<1>4. \A i : Only(i, s, T) /\ Without(c, T) => Only(i, u, T) /\ u[i] = s[i]
  <2> SUFFICES ASSUME NEW i, Only(i, s, T), Without(c, T) PROVE Only(i, u, T) /\ u[i] = s[i]
    OBVIOUS
  <2>1. i \in 1..m /\ s[i].type \in T /\ \A k \in 1..m : s[k].type \in T => k = i
    BY DEF Only
  <2>2. ASSUME NEW k \in 1..Len(u), u[k].type \in T PROVE k = i
    <3>1. CASE k \in 1..m
      BY <1>2, <2>1, <2>2, <3>1
    <3>2. CASE k - m \in 1..n /\ k = m + (k - m)
      <4>1. u[k] = c[k - m]
        BY <1>2, <3>2
      <4> QED
        BY <2>2, <3>2, <4>1 DEF Without
    <3> QED
      BY <1>2, <3>1, <3>2
  <2> QED
    BY <1>2, <2>1, <2>2 DEF Only
<1>5. \A i : Without(s, T) /\ Only(i, c, T) => Only(m + i, u, T) /\ u[m + i] = c[i]
  <2> SUFFICES ASSUME NEW i, Without(s, T), Only(i, c, T) PROVE Only(m + i, u, T) /\ u[m + i] = c[i]
    OBVIOUS
  <2>1. i \in 1..n /\ c[i].type \in T /\ \A k \in 1..n : c[k].type \in T => k = i
    BY DEF Only
  <2>2. ASSUME NEW k \in 1..Len(u), u[k].type \in T PROVE k = m + i
    <3>1. CASE k \in 1..m
      <4>1. u[k] = s[k]
        BY <1>2, <3>1
      <4> QED
        BY <2>2, <3>1, <4>1 DEF Without
    <3>2. CASE k - m \in 1..n /\ k = m + (k - m)
      <4>1. u[k] = c[k - m]
        BY <1>2, <3>2
      <4>2. k - m = i
        BY <2>1, <2>2, <3>2, <4>1
      <4> QED
        BY <3>2, <4>2
    <3> QED
      BY <1>2, <3>1, <3>2
  <2> QED
    BY <1>2, <2>1, <2>2 DEF Only
<1> QED
  BY <1>1, <1>3, <1>4, <1>5 DEF u

\* The same, of an event that is there once.
LEMMA OnceOfBoth ==
  ASSUME NEW s \in Seq(Event), NEW c \in Seq(Event), NEW T
  PROVE  /\ Once(s, T) /\ Without(c, T) => Once(s \o c, T)
         /\ Without(s, T) /\ Once(c, T) => Once(s \o c, T)
<1>1. \A h, i : Only(i, h, T) => i \in 1..Len(h)
  BY DEF Only
<1>2. ASSUME Once(s, T), Without(c, T) PROVE Once(s \o c, T)
  <2>1. PICK i \in 1..Len(s) : Only(i, s, T)
    BY <1>2 DEF Once
  <2>2. Only(i, s \o c, T)
    BY <1>2, <2>1, OneOfBoth
  <2> QED
    BY <1>1, <2>2 DEF Once
<1>3. ASSUME Without(s, T), Once(c, T) PROVE Once(s \o c, T)
  <2>1. PICK i \in 1..Len(c) : Only(i, c, T)
    BY <1>3 DEF Once
  <2>2. Only(Len(s) + i, s \o c, T)
    BY <1>3, <2>1, OneOfBoth
  <2> QED
    BY <1>1, <2>2 DEF Once
<1> QED
  BY <1>2, <1>3

\* Of what is left when its first is read.
LEMMA OneOfRest ==
  ASSUME NEW s \in Seq(Event), s # <<>>, NEW T
  PROVE  /\ Tail(s) \in Seq(Event) /\ Head(s) \in Event /\ Head(s) = s[1]
         /\ Len(s) \in Nat \ {0} /\ Len(Tail(s)) = Len(s) - 1
         /\ \A i \in 1..Len(Tail(s)) : i + 1 \in 1..Len(s) /\ Tail(s)[i] = s[i + 1]
         /\ 1 \in 1..Len(s)
         /\ Without(s, T) => Without(Tail(s), T) /\ Head(s).type \notin T
         /\ Once(s, T) => IF Head(s).type \in T THEN Without(Tail(s), T) ELSE Once(Tail(s), T)
<1> DEFINE t == Tail(s)
           n == Len(s)
<1>1. /\ t \in Seq(Event) /\ n \in Nat \ {0} /\ Len(t) = n - 1 /\ Head(s) = s[1]
      /\ \A i \in 1..Len(t) : t[i] = s[i + 1]
      /\ Head(s) \in Event
  BY HeadTailProperties, EmptySeq
<1> HIDE DEF t
<1>2. 1 \in 1..n /\ \A i \in 1..Len(t) : i + 1 \in 1..n /\ i + 1 # 1
  BY <1>1
<1>3. Without(s, T) => Without(t, T) /\ Head(s).type \notin T
  BY <1>1, <1>2 DEF Without
<1>4. ASSUME Once(s, T), Head(s).type \in T PROVE Without(t, T)
  BY <1>1, <1>2, <1>4 DEF Once, Only, Without
<1>5. ASSUME Once(s, T), Head(s).type \notin T PROVE Once(t, T)
  <2>1. PICK i \in 1..n : Only(i, s, T)
    BY <1>5 DEF Once
  <2>2. i # 1
    BY <1>1, <1>5, <2>1 DEF Only
  <2>3. i - 1 \in 1..Len(t) /\ (i - 1) + 1 = i
    BY <1>1, <2>2
  <2>4. t[i - 1].type \in T
    BY <1>1, <2>1, <2>3 DEF Only
  <2>5. ASSUME NEW k \in 1..Len(t), t[k].type \in T PROVE k = i - 1
    <3>1. k + 1 = i
      BY <1>1, <1>2, <2>1, <2>5 DEF Only
    <3> QED
      BY <3>1
  <2> QED
    BY <2>3, <2>4, <2>5 DEF Once, Only
<1> QED
  BY <1>1, <1>2, <1>3, <1>4, <1>5 DEF t

\* One event more, and its halves.
LEMMA OneMore ==
  ASSUME NEW s \in Seq(Event), NEW e \in Event
  PROVE  /\ s \o <<e>> \in Seq(Event) /\ s \o <<e>> = Append(s, e)
         /\ Halves(s \o <<e>>) = Follow(Halves(s), e)
<1>1. s \o <<e>> = Append(s, e) /\ Append(s, e) \in Seq(Event)
  OBVIOUS
<1>2. Halves(Append(s, e)) = Follow(Halves(s), e)
  BY HalvesOfMore
<1> QED
  BY <1>1, <1>2

\* Joining the bytes of a piece to what was sent changes no other event, and what is
\* sent is what would be, had they gone separately.
LEMMA JoinedIs ==
  ASSUME NEW h \in Seq(Event), NEW e \in Event, e.type = "raw"
  PROVE  /\ Joined(h, e) \in Seq(Event)
         /\ Halves(Joined(h, e)) = Follow(Halves(h), e)
         /\ h = <<>> => Joined(h, e) = <<e>>
         /\ \A T : "raw" \notin T => /\ Without(h, T) => Without(Joined(h, e), T)
                                     /\ Once(h, T) => Once(Joined(h, e), T)
<1> DEFINE k == Joined(h, e)
           n == Len(h)
<1>1. k \in Seq(Event) /\ n \in Nat
  BY JoinedTyped
<1>2. CASE h # <<>> /\ Last(h).type = "raw" /\ Last(h).to = e.from
  <2> DEFINE l == Last(h)
             m == [l EXCEPT !.to = e.to]
             f == Front(h)
  <2>1. k = Append(f, m)
    BY <1>2 DEF Joined
  <2>2. n \in Nat \ {0} /\ l \in Event /\ l = h[n]
    BY <1>2, EmptySeq DEF Last
  <2>3. /\ f \in Seq(Event) /\ Len(f) = n - 1 /\ \A i \in 1..(n - 1) : f[i] = h[i]
    <3>1. n - 1 \in Nat /\ \A i \in 1..(n - 1) : i \in 1..n
      BY <2>2
    <3>2. \A i \in 1..(n - 1) : h[i] \in Event
      BY <3>1
    <3>3. \A i \in 1..(n - 1 - 1 + 1) : SubSeq(h, 1, n - 1)[i] = h[1 + i - 1]
      BY <3>1, <3>2, SubSeqProperties
    <3>4. SubSeq(h, 1, n - 1) \in Seq(Event) /\ Len(SubSeq(h, 1, n - 1)) = n - 1
      <4>1. /\ SubSeq(h, 1, n - 1) \in Seq(Event)
            /\ Len(SubSeq(h, 1, n - 1)) = IF 1 <= n - 1 THEN (n - 1) - 1 + 1 ELSE 0
        BY <3>1, <3>2, SubSeqProperties
      <4> HIDE DEF n
      <4> QED
        BY <3>1, <4>1
    <3> QED
      BY <3>1, <3>3, <3>4 DEF Front
  <2>4. h = Append(f, l)
    BY <2>2, <2>3
  <2>5. /\ e.from \in 0..Total /\ e.to \in 0..Total /\ m \in Event /\ m.type = "raw" /\ m.from = l.from
        /\ m.to = e.to /\ l.from \in 0..Total /\ l.to = e.from /\ l.type = "raw"
    BY <1>2, <2>2, RawIs
  <2> HIDE DEF l, m, f
  <2>6. Halves(h) = Follow(Halves(f), l) /\ Halves(k) = Follow(Halves(f), m)
    BY <2>1, <2>2, <2>3, <2>4, <2>5, HalvesOfMore
  <2>7. Halves(k) = Follow(Halves(h), e)
    <3>1. CASE l.from = Halves(f)
      BY <2>5, <2>6, <3>1 DEF Follow
    <3>2. CASE l.from # Halves(f)
      BY <2>5, <2>6, <3>2, TotalIsSix DEF Follow
    <3> QED
      BY <3>1, <3>2
  <2>8. Len(k) = n /\ \A i \in 1..n : k[i].type = h[i].type
    <3>1. /\ Len(Append(f, m)) = Len(f) + 1 /\ Append(f, m)[Len(f) + 1] = m
          /\ \A i \in 1..Len(f) : Append(f, m)[i] = f[i]
      BY <2>3, <2>5
    <3>2. k[n] = m /\ \A i \in 1..(n - 1) : k[i] = h[i]
      BY <2>1, <2>2, <2>3, <3>1
    <3>3. Len(k) = n
      BY <2>1, <2>2, <2>3, <3>1
    <3>4. \A i \in 1..n : i = n \/ i \in 1..(n - 1)
      BY <2>2
    <3>5. k[n].type = h[n].type
      BY <2>2, <2>5, <3>2
    <3> HIDE DEF k, n
    <3> QED
      BY <3>2, <3>3, <3>4, <3>5
  <2> HIDE DEF k
  <2>9. \A T : Without(h, T) => Without(k, T)
    BY <2>8 DEF Without
  <2>10. \A T : Once(h, T) => Once(k, T)
    BY <2>8 DEF Once, Only
  <2> QED
    BY <1>1, <1>2, <2>7, <2>9, <2>10 DEF k
<1>3. CASE ~(h # <<>> /\ Last(h).type = "raw" /\ Last(h).to = e.from)
  <2>1. k = Append(h, e) /\ k = h \o <<e>>
    BY <1>3 DEF Joined
  <2>2. Halves(k) = Follow(Halves(h), e)
    BY <2>1, OneMore
  <2>3. h = <<>> => k = <<e>>
    BY <2>1
  <2> HIDE DEF k
  <2>4. <<e>> \in Seq(Event) /\ \A T : "raw" \notin T => Without(<<e>>, T)
    BY DEF Without
  <2>5. \A T : "raw" \notin T => /\ Without(h, T) => Without(k, T)
                                 /\ Once(h, T) => Once(k, T)
    <3> SUFFICES ASSUME NEW T, "raw" \notin T
                 PROVE  /\ Without(h, T) => Without(k, T)
                        /\ Once(h, T) => Once(k, T)
      OBVIOUS
    <3>1. Without(<<e>>, T)
      BY <2>4
    <3>2. \A i : Only(i, h, T) => Only(i, k, T)
      BY <2>1, <2>4, <3>1, OneOfBoth
    <3>3. Without(h, T) => Without(k, T)
      BY <2>1, <2>4, <3>1, OneOfBoth
    <3>4. Once(h, T) => Once(k, T)
      BY <3>2 DEF Once, Only
    <3> QED
      BY <3>3, <3>4
  <2> QED
    BY <1>1, <2>2, <2>3, <2>5 DEF k
<1> QED
  BY <1>2, <1>3

-----------------------------------------------------------------------------
(* What a job says on its stream *)

Sealed(j) == st[j] \in Terminal /\ active # j

Quiet(c) == c = <<>> \/ \E x \in {"loading", "token", "title"} : c = <<[type |-> x]>>

\* Nothing a response waits for: its job begins, goes on or is being named.
Goes(j, c) ==
  /\ Quiet(c)
  /\ st'[j] = st[j] \/ (st[j] \notin Terminal /\ st'[j] \notin Terminal)
  /\ kind[j] \in {"stream", "body"} => read'[j] = read[j]
  /\ Dropped(j)' <=> Dropped(j)
\* A piece of upstream's bytes.
Brings(j, c) ==
  /\ c = <<[type |-> "raw", from |-> read[j], to |-> read'[j]]>>
  /\ kind[j] \in {"stream", "body"} /\ st[j] \notin Terminal /\ st'[j] \notin Terminal
  /\ kind[j] = "body" => read[j] = 0 /\ read'[j] = Total
\* The end of the answer.
Ends(j, c) ==
  /\ c = <<[type |-> "done", state |-> st'[j]]>> /\ st'[j] \in {"done", "cancelled"}
  /\ st[j] \notin Terminal /\ ~Dropped(j)' /\ read'[j] = read[j]
\* The end of the job: after its answer, or without one.
Shuts(j, c) ==
  /\ c = <<Close>> /\ Sealed(j)' /\ st'[j] = st[j] /\ (Dropped(j)' <=> Dropped(j))
  /\ read'[j] = read[j]
Breaks(j, c) ==
  /\ c = <<[type |-> st'[j]], Close>> /\ Sealed(j)' /\ st[j] \notin Terminal
  /\ st'[j] = "error" \/ (st'[j] = "cancelled" /\ Dropped(j)')
  /\ read'[j] = read[j]

Says(j, c) ==
  /\ channel'[j] = channel[j] \o c
  /\ ~Sealed(j) /\ kind'[j] = kind[j] /\ kind[j] # None /\ st'[j] # "new"
  /\ Goes(j, c) \/ Brings(j, c) \/ Ends(j, c) \/ Shuts(j, c) \/ Breaks(j, c)

\* The streams of the others.
OthersHear(j) == \A i \in Jobs \ {j} :
  channel'[i] = channel[i] /\ client'[i] = client[i] /\ heard'[i] = heard[i] /\ closed'[i] = closed[i]
SameEnds == UNCHANGED endVars

\* What is put on a job's stream is put on no other.
LEMMA Speaks ==
  ASSUME EndTypes, NEW j \in Jobs, NEW c \in Seq(Event), Emit(j, c)
  PROVE  channel'[j] = channel[j] \o c /\ \A i \in Jobs \ {j} : channel'[i] = channel[i]
  BY EmitTyped DEF EndTypes

\* Nothing put on any stream is nothing said.
LEMMA SaysNothing ==
  ASSUME EndTypes, NEW j \in Jobs, UNCHANGED channel
  PROVE  <<>> \in Seq(Event) /\ channel'[j] = channel[j] \o <<>> /\ \A i \in Jobs \ {j} : channel'[i] = channel[i]
<1>1. channel[j] \in Seq(Event)
  BY DEF EndTypes
<1> QED
  BY <1>1, ConcatEmptySeq

\* What the worker's steps say on its job's stream,
LEMMA WorkerSays ==
  ASSUME JobTypes, EndTypes, Courses, NEW j \in Jobs, Worker(j)
  PROVE  \E c \in Seq(Event) : Says(j, c) /\ OthersHear(j)
<1>1. /\ active = j /\ phase \in Phases /\ Course(j) /\ ~Waits(j) /\ ~Sealed(j) /\ UNCHANGED endVars
      /\ kind' = kind /\ read' = read /\ stop' = stop
  BY Busy DEF Worker, Begin, Post, Answer, Title, Finish, Courses, Course, Place, Sealed
<1>2. /\ phase = "asked" => st[j] = "queued"
      /\ phase = "posting" => st[j] \in {"queued", "loading_model"}
      /\ phase = "pump" => st[j] \in {"queued", "loading_model", "generating"}
      /\ phase \in {"title", "stopping"} => st[j] \in {"done", "cancelled"}
      /\ kind[j] # None /\ st[j] # "new" /\ ~Dropped(j)
  BY <1>1 DEF Course, Place, Progress, Phases
<1>3. ASSUME NEW c \in Seq(Event), Emit(j, c) \/ (c = <<>> /\ UNCHANGED channel), st'[j] # "new",
             Goes(j, c) \/ Brings(j, c) \/ Ends(j, c) \/ Shuts(j, c) \/ Breaks(j, c)
      PROVE  Says(j, c) /\ OthersHear(j)
  BY <1>1, <1>2, <1>3, Speaks, SaysNothing DEF Says, OthersHear
<1>4. CASE Begin(j)
  <2>1. PICK c \in {<<>>, <<[type |-> "loading"]>>} : Emit(j, c) \/ (c = <<>> /\ UNCHANGED channel)
    BY <1>4 DEF Begin
  <2>2. st'[j] \in {st[j], "loading_model"} /\ st[j] = "queued"
    BY <1>2, <1>4 DEF Begin, JobTypes
  <2>3. c \in Seq(Event) /\ Quiet(c)
    BY <2>1, Emitted DEF Quiet
  <2>4. Goes(j, c)
    BY <1>1, <2>2, <2>3 DEF Goes, Dropped, Terminal
  <2> QED
    BY <1>3, <2>1, <2>2, <2>3, <2>4
<1>5. CASE Post(j)
  <2>1. UNCHANGED channel /\ st'[j] = "generating" /\ st[j] \in {"queued", "loading_model"}
    BY <1>2, <1>5 DEF Post, JobTypes
  <2>2. Goes(j, <<>>) /\ <<>> \in Seq(Event)
    BY <1>1, <2>1 DEF Goes, Dropped, Terminal, Quiet
  <2> QED
    BY <1>3, <2>1, <2>2
<1>6. CASE Answer(j)
  <2> DEFINE c == <<[type |-> "done", state |-> st'[j]]>>
  <2>1. /\ st'[j] = (IF stop[j] THEN "cancelled" ELSE "done")
        /\ Emit(j, <<[type |-> "done", state |-> IF stop[j] THEN "cancelled" ELSE "done"]>>)
        /\ st[j] \in {"queued", "loading_model", "generating"}
    BY <1>2, <1>6 DEF Answer, JobTypes
  <2>2. c \in Seq(Event) /\ Emit(j, c)
    BY <2>1, Emitted
  <2>3. Ends(j, c)
    BY <1>1, <2>1 DEF Ends, Dropped, Terminal
  <2> HIDE DEF c
  <2> QED
    BY <1>3, <2>1, <2>2, <2>3
<1>7. CASE Title(j)
  <2>1. PICK c \in {<<>>, <<[type |-> "title"]>>} : Emit(j, c) \/ (c = <<>> /\ UNCHANGED channel)
    BY <1>7 DEF Title
  <2>2. st' = st
    BY <1>7 DEF Title
  <2>3. c \in Seq(Event) /\ Quiet(c)
    BY <2>1, Emitted DEF Quiet
  <2>4. Goes(j, c)
    BY <1>1, <2>2, <2>3 DEF Goes, Dropped
  <2> QED
    BY <1>2, <1>3, <2>1, <2>2, <2>3, <2>4
<1>8. CASE Finish(j)
  <2>1. Emit(j, <<Close>>) /\ <<Close>> \in Seq(Event) /\ st' = st /\ active' = None /\ phase = "stopping"
    BY <1>8, Emitted DEF Finish
  <2>2. Sealed(j)'
    BY <1>2, <2>1, StreamsAssumption DEF Sealed, Terminal
  <2>3. Shuts(j, <<Close>>)
    BY <1>1, <2>1, <2>2 DEF Shuts, Dropped
  <2> QED
    BY <1>2, <1>3, <2>1, <2>3
<1> QED
  BY <1>4, <1>5, <1>6, <1>7, <1>8 DEF Worker

\* what is said when a piece comes or upstream fails,
LEMMA UpstreamSays ==
  ASSUME JobTypes, EndTypes, Courses, NEW j \in Jobs, Upstream(j)
  PROVE  \E c \in Seq(Event) : Says(j, c) /\ OthersHear(j)
<1>1. /\ active = j /\ phase = "pump" /\ Course(j) /\ ~Sealed(j) /\ UNCHANGED endVars
      /\ kind' = kind /\ stop' = stop
  BY DEF Upstream, RawChunk, ChatChunk, Posted, Fail, Courses, Sealed
<1>2. /\ st[j] \in {"queued", "loading_model", "generating"}
      /\ kind[j] # None /\ read[j] \in 0..Total
  BY <1>1 DEF Course, Place, JobTypes
<1>3. ASSUME NEW c \in Seq(Event), Emit(j, c), st'[j] # "new",
             Goes(j, c) \/ Brings(j, c) \/ Ends(j, c) \/ Shuts(j, c) \/ Breaks(j, c)
      PROVE  Says(j, c) /\ OthersHear(j)
  BY <1>1, <1>2, <1>3, Speaks DEF Says, OthersHear
<1>4. CASE RawChunk(j)
  <2>1. PICK to \in read[j] + 1 .. Total :
          /\ Received(j, to) /\ kind[j] = "stream"
          /\ Emit(j, <<[type |-> "raw", from |-> read[j], to |-> to]>>)
          /\ IF FirstOutput(j, to) THEN MarkGenerating(j) ELSE UNCHANGED <<st, loaded, pageVars>>
    BY <1>4 DEF RawChunk
  <2>2. to \in 0..Total
    BY <1>2, TotalIsSix
  <2>3. read'[j] = to /\ st'[j] \in {st[j], "generating"}
    BY <2>1, <2>2, ReceivedIs DEF MarkGenerating, JobTypes
  <2> DEFINE c == <<[type |-> "raw", from |-> read[j], to |-> to]>>
  <2>4. c \in Seq(Event)
    BY <1>2, <2>2, Emitted
  <2>5. Brings(j, c)
    BY <1>2, <2>1, <2>3 DEF Brings, Terminal
  <2> HIDE DEF c
  <2>6. Emit(j, c)
    BY <2>1 DEF c
  <2> QED
    BY <1>2, <1>3, <2>3, <2>4, <2>5, <2>6
<1>5. CASE ChatChunk(j)
  <2>1. PICK c \in {<<>>, <<[type |-> "token"]>>} : Emit(j, c)
    BY <1>5 DEF ChatChunk
  <2>2. kind[j] \notin {"stream", "body"} /\ st'[j] \in {st[j], "generating"}
    BY <1>5 DEF ChatChunk, Chatty, MarkGenerating, JobTypes
  <2>3. c \in Seq(Event) /\ Quiet(c)
    BY <2>1, Emitted DEF Quiet
  <2>4. Goes(j, c)
    BY <1>1, <1>2, <2>2, <2>3 DEF Goes, Dropped, Terminal
  <2> QED
    BY <1>2, <1>3, <2>1, <2>2, <2>3, <2>4
<1>6. CASE Posted(j)
  <2> DEFINE c == <<[type |-> "raw", from |-> 0, to |-> Total]>>
  <2>1. /\ Received(j, Total) /\ kind[j] = "body" /\ read[j] = 0 /\ st' = st /\ Emit(j, c)
    BY <1>6 DEF Posted
  <2>2. c \in Seq(Event) /\ read'[j] = Total
    BY <2>1, ReceivedIs, Emitted, TotalIsSix
  <2>3. Brings(j, c)
    BY <1>2, <2>1, <2>2 DEF Brings, Terminal
  <2> HIDE DEF c
  <2> QED
    BY <1>2, <1>3, <2>1, <2>2, <2>3
<1>7. CASE Fail(j)
  <2> DEFINE c == <<[type |-> "error"], Close>>
  <2>1. /\ c \in Seq(Event) /\ Emit(j, c) /\ st'[j] = "error" /\ active' = None /\ read' = read
    BY <1>7, Emitted DEF Fail, JobTypes
  <2>2. Sealed(j)'
    BY <2>1, StreamsAssumption DEF Sealed, Terminal
  <2>3. Breaks(j, c)
    BY <1>2, <2>1, <2>2 DEF Breaks, Terminal
  <2> HIDE DEF c
  <2> QED
    BY <1>3, <2>1, <2>3
<1> QED
  BY <1>4, <1>5, <1>6, <1>7 DEF Upstream

\* when a job gets the slot (nothing),
LEMMA TakeSays ==
  ASSUME JobTypes, EndTypes, Courses, Take
  PROVE  \E j \in Jobs, c \in Seq(Event) : Says(j, c) /\ OthersHear(j) /\ OthersMind(j) /\ SameEnds
<1>0. line # <<>> /\ line \in Seq(Jobs) /\ Single(line)
  BY DEF Take, JobTypes, Courses, Places
<1>1. PICK j \in Jobs : j = Head(line)
  BY <1>0, HeadsLine
<1>2. Waits(j) /\ ToSet(line') = ToSet(line) \ {j}
  BY <1>0, <1>1, HeadsLine DEF Take, Waits
<1>3. /\ active = None /\ active' = j /\ UNCHANGED <<kind, st, read, usage, stop, channel, endVars>>
  BY <1>1 DEF Take
<1>4. st[j] = "queued" /\ kind[j] # None
  BY <1>2 DEF Courses, Course, Place
<1>5. channel'[j] = channel[j] \o <<>> /\ <<>> \in Seq(Event)
  BY <1>3, SaysNothing
<1>6. Says(j, <<>>)
  BY <1>3, <1>4, <1>5 DEF Says, Goes, Quiet, Sealed, Dropped, Terminal
<1>7. OthersHear(j) /\ OthersMind(j) /\ SameEnds
  BY <1>2, <1>3, StreamsAssumption DEF OthersHear, OthersMind, SameEnds
<1> QED
  BY <1>5, <1>6, <1>7

\* and when it is stopped: a job that waits is told so and its stream closed.
LEMMA CancelSays ==
  ASSUME JobTypes, EndTypes, Courses, NEW j \in Jobs, Cancel(j)
  PROVE  \/ \E c \in Seq(Event) : Says(j, c) /\ \A i \in Jobs \ {j} : channel'[i] = channel[i]
         \/ UNCHANGED <<jobVars, channel>>
<1>0. Course(j) /\ Places
  BY DEF Courses
<1>1. CASE j = active /\ stop' = [stop EXCEPT ![j] = TRUE]
           /\ UNCHANGED <<kind, st, line, active, phase, loaded, read, usage, channel, pageVars>>
  <2>1. stop'[j] /\ phase \in Phases
    BY <1>0, <1>1, Busy DEF JobTypes
  <2>2. ~Dropped(j) /\ ~Dropped(j)' /\ st[j] # "new" /\ kind[j] # None /\ ~Sealed(j)
    BY <1>0, <1>1, <2>1 DEF Course, Place, Progress, Dropped, Phases, Sealed
  <2>3. /\ <<>> \in Seq(Event) /\ channel'[j] = channel[j] \o <<>>
        /\ \A i \in Jobs \ {j} : channel'[i] = channel[i]
    BY <1>1, SaysNothing
  <2>4. Says(j, <<>>)
    BY <1>1, <2>2, <2>3 DEF Says, Goes, Quiet
  <2> QED
    BY <2>3, <2>4
<1>2. CASE j \in ToSet(line) /\ DropQueued(j)
  <2> DEFINE c == <<[type |-> "cancelled"], Close>>
  <2>1. /\ st'[j] = "cancelled" /\ c \in Seq(Event) /\ Emit(j, c)
        /\ UNCHANGED <<kind, active, phase, read, usage, stop>>
    BY <1>2, Emitted DEF DropQueued, JobTypes
  <2>2. st[j] = "queued" /\ active # j /\ ~stop[j] /\ kind[j] # None
    BY <1>0, <1>2 DEF Course, Place, Waits
  <2>3. Breaks(j, c)
    BY <2>1, <2>2 DEF Breaks, Sealed, Dropped, Terminal
  <2> HIDE DEF c
  <2>4. Says(j, c)
    BY <2>1, <2>2, <2>3, Speaks DEF Says, Sealed, Terminal
  <2> QED
    BY <2>1, <2>4, Speaks
<1>3. CASE UNCHANGED <<jobVars, channel, pageVars>>
  BY <1>3
<1> QED
  BY <1>1, <1>2, <1>3 DEF Cancel

-----------------------------------------------------------------------------
(* The end of a stream *)

\* The stream of a job is closed at its end, with its job over, and a response that
\* is over has read it all, but for that of a body that failed.
Closing(j) ==
  /\ \A i \in 1..Len(channel[j]) : channel[j][i].type = "close" => Sealed(j) /\ i = Len(channel[j])
  /\ \A i \in 1..Len(channel[j]) : channel[j][i].type = "error" => st[j] = "error"
  /\ closed[j] => kind[j] \notin {None, "summary"}
  /\ closed[j] /\ client[j] = "there" => Sealed(j) /\ (kind[j] # "body" => channel[j] = <<>>)
  /\ st[j] = "new" => channel[j] = <<>> /\ heard[j] = <<>>

\* What may be said: nothing, one event, or two of which the last closes.
LEMMA SaidIs ==
  ASSUME NEW j \in Jobs, NEW c \in Seq(Event), Says(j, c)
  PROVE  \/ c = <<>>
         \/ Len(c) = 1 /\ c[1].type # "error" /\ (c[1].type = "close" => Sealed(j)')
         \/ Len(c) = 2 /\ c[1].type # "close" /\ (c[1].type = "error" => st'[j] = "error")
              /\ c[2].type = "close" /\ Sealed(j)'
<1>1. CASE Goes(j, c)
  BY <1>1 DEF Goes, Quiet
<1>2. CASE Brings(j, c)
  BY <1>2 DEF Brings
<1>3. CASE Ends(j, c)
  BY <1>3 DEF Ends
<1>4. CASE Shuts(j, c)
  BY <1>4 DEF Shuts, Close
<1>5. CASE Breaks(j, c)
  <2>1. Len(c) = 2 /\ c[1].type = st'[j] /\ c[2] = Close
    BY <1>5 DEF Breaks
  <2> QED
    BY <1>5, <2>1 DEF Breaks, Close
<1> QED
  BY <1>1, <1>2, <1>3, <1>4, <1>5 DEF Says

\* A job that says something closes its stream at its end, and not before.
LEMMA SaysCloses ==
  ASSUME EndTypes, NEW j \in Jobs, NEW c \in Seq(Event), Says(j, c), Closing(j),
         heard'[j] = heard[j], client'[j] = client[j],
         \/ closed'[j] = closed[j]
         \/ client[j] = "gone" /\ kind[j] \notin {None, "summary"}
  PROVE  Closing(j)'
<1> DEFINE s == channel[j]
<1>1. s \in Seq(Event) /\ channel'[j] = s \o c
  BY DEF EndTypes, Says
<1> HIDE DEF s
<1>2. /\ Len(s \o c) = Len(s) + Len(c) /\ Len(s) \in Nat /\ Len(c) \in Nat
      /\ \A i \in 1..(Len(s) + Len(c)) : (s \o c)[i] = IF i <= Len(s) THEN s[i] ELSE c[i - Len(s)]
  BY <1>1, ConcatProperties
<1>3. \A i \in 1..Len(s) : s[i].type # "close" /\ (s[i].type = "error" => st'[j] = "error")
  <2>1. ~Sealed(j)
    BY DEF Says
  <2>2. st[j] = "error" => st'[j] = "error"
    BY DEF Says, Goes, Brings, Ends, Shuts, Breaks, Terminal
  <2> QED
    BY <2>1, <2>2 DEF Closing, s
<1>4. ASSUME NEW i \in 1..Len(s \o c)
      PROVE  /\ (s \o c)[i].type = "close" => Sealed(j)' /\ i = Len(s \o c)
             /\ (s \o c)[i].type = "error" => st'[j] = "error"
  <2>1. CASE i <= Len(s)
    <3>1. i \in 1..Len(s) /\ (s \o c)[i] = s[i]
      BY <1>2, <2>1
    <3> QED
      BY <1>3, <3>1
  <2>2. CASE ~(i <= Len(s))
    <3>1. i - Len(s) \in 1..Len(c) /\ (s \o c)[i] = c[i - Len(s)] /\ (i - Len(s) = Len(c) => i = Len(s \o c))
      BY <1>2, <2>2
    <3> DEFINE k == i - Len(s)
    <3>2. k \in 1..Len(c) /\ (s \o c)[i] = c[k] /\ (k = Len(c) => i = Len(s \o c))
      BY <3>1
    <3> HIDE DEF k
    <3>3. c = <<>> => Len(c) = 0
      OBVIOUS
    <3>4. CASE Len(c) = 1
      <4>1. k = 1 /\ c # <<>>
        BY <3>2, <3>3, <3>4
      <4> QED
        BY <3>2, <3>4, <4>1, SaidIs
    <3>5. CASE Len(c) = 2
      <4>1. k \in {1, 2} /\ c # <<>>
        BY <3>2, <3>3, <3>5
      <4> QED
        BY <3>2, <3>5, <4>1, SaidIs
    <3>6. Len(c) \in {1, 2}
      <4>1. Len(c) # 0
        BY <3>2
      <4> QED
        BY <3>3, <4>1, SaidIs
    <3> QED
      BY <3>4, <3>5, <3>6
  <2> QED
    BY <2>1, <2>2
<1>5. /\ closed'[j] => kind'[j] \notin {None, "summary"}
      /\ ~(closed'[j] /\ client'[j] = "there")
      /\ st'[j] # "new"
  BY DEF Says, Closing
<1> QED
  BY <1>1, <1>4, <1>5 DEF Closing

\* A response that reads the close is over, and has read it all.
LEMMA ReadCloses ==
  ASSUME JobTypes, EndTypes, Places, NEW j \in Jobs, Read(j), Closing(j), Course(j)
  PROVE  Closing(j)'
<1> DEFINE s == channel[j]
           e == Head(s)
<1>0. s \in Seq(Event) /\ s # <<>>
  BY DEF EndTypes, Read
<1>1. /\ channel'[j] = Tail(s)
      /\ closed'[j] <=> e = Close \/ (kind[j] = "body" /\ e.type = "error")
      /\ UNCHANGED <<jobVars, client>>
      /\ kind[j] # "summary"
  BY DEF Read, EndTypes
<1> HIDE DEF e
<1>2. /\ e = s[1] /\ e \in Event /\ Len(Tail(s)) = Len(s) - 1 /\ Len(s) \in Nat \ {0} /\ 1 \in 1..Len(s)
      /\ \A i \in 1..Len(Tail(s)) : i + 1 \in 1..Len(s) /\ Tail(s)[i] = s[i + 1]
      /\ Tail(s) \in Seq(Event)
  BY <1>0, OneOfRest DEF e
<1>3. st[j] # "new" /\ kind[j] # None
  BY <1>0 DEF Closing, Course, Place
<1> HIDE DEF s
<1>4. ASSUME NEW i \in 1..Len(Tail(s))
      PROVE  /\ Tail(s)[i].type = "close" => Sealed(j) /\ i = Len(Tail(s))
             /\ Tail(s)[i].type = "error" => st[j] = "error"
  <2>1. i + 1 \in 1..Len(s) /\ Tail(s)[i] = s[i + 1]
    BY <1>2
  <2>2. /\ s[i + 1].type = "close" => Sealed(j) /\ i + 1 = Len(s)
        /\ s[i + 1].type = "error" => st[j] = "error"
    BY <2>1 DEF Closing, s
  <2> QED
    BY <1>2, <2>1, <2>2
<1>5. e.type = "close" => Sealed(j) /\ Len(s) = 1
  BY <1>2 DEF Closing, s
<1>6. e.type = "error" => Sealed(j)
  <2>1. e.type = "error" => st[j] = "error"
    BY <1>2 DEF Closing, s
  <2>2. st[j] = "error" => active # j
    BY Busy DEF Course, Place, Phases
  <2> QED
    BY <2>1, <2>2 DEF Sealed, Terminal
<1>7. Len(s) = 1 => Tail(s) = <<>>
  <2>1. Len(s) = 1 => Len(Tail(s)) = 0
    BY <1>2
  <2> QED
    BY <1>2, <2>1, EmptySeq
<1>8. Sealed(j)' <=> Sealed(j)
  BY <1>1 DEF Sealed
<1>9. closed'[j] => Sealed(j) /\ (kind[j] # "body" => Tail(s) = <<>>)
  BY <1>1, <1>2, <1>5, <1>6, <1>7, CloseIs
<1> QED
  BY <1>1, <1>3, <1>4, <1>8, <1>9 DEF Closing

-----------------------------------------------------------------------------
(* What a client hears *)

LastWords == {"done", "error", "cancelled"}
Broken == {"error", "cancelled"}
Marker == {"[DONE]"}
Raw == {"raw"}
EndOf(e) == IF e.type = "done" THEN e.state ELSE e.type
\* A job that is over has said so once, as it was; one that is not, not yet.
EndTold(h, s) ==
  IF s \in Terminal THEN \E i \in 1..Len(h) : Only(i, h, LastWords) /\ s = EndOf(h[i])
  ELSE Without(h, LastWords)

\* A chat is told everything, if not all of it yet.
ChatTold(j) == EndTold(heard[j] \o channel[j], st[j])
\* A /v1 stream that breaks or never ran gets a [DONE] of the box's, or is about to.
StreamTold(j) ==
  IF st[j] = "error" \/ Dropped(j)
  THEN \/ Once(heard[j], Marker) /\ Without(channel[j], Broken)
       \/ Without(heard[j], Marker) /\ Once(channel[j], Broken)
  ELSE Without(heard[j], Marker) /\ Without(channel[j], Broken)
\* A /v1 body comes at once, and is on its way or kept until the job is over.
BodyTold(j) ==
  /\ \/ Without(channel[j], Raw)
     \/ /\ read[j] = Total /\ heard[j] = <<>>
        /\ \E i \in 1..Len(channel[j]) :
             Only(i, channel[j], Raw) /\ channel[j][i].from = 0 /\ channel[j][i].to = Total
  /\ ~closed[j] /\ heard[j] # <<>> => Whole(heard[j]) /\ read[j] = Total
  /\ BodyEnds(j)

Telling(j) == client[j] = "there" =>
  /\ Verbatim(j)
  /\ kind[j] \in Chatty => ChatTold(j)
  /\ kind[j] = "stream" => StreamTold(j)
  /\ kind[j] = "body" => BodyTold(j)

\* What was said to a client so far, and is about to be: both grow by what the job says.
LEMMA SaidIsTold ==
  ASSUME EndTypes, NEW j \in Jobs, NEW c \in Seq(Event), Says(j, c), heard'[j] = heard[j]
  PROVE  /\ heard[j] \in Seq(Event) /\ channel[j] \in Seq(Event)
         /\ heard[j] \o channel[j] \in Seq(Event)
         /\ heard'[j] \o channel'[j] = (heard[j] \o channel[j]) \o c
<1>1. heard[j] \in Seq(Event) /\ channel[j] \in Seq(Event) /\ channel'[j] = channel[j] \o c
  BY DEF EndTypes, Says
<1>2. (heard[j] \o channel[j]) \o c = heard[j] \o (channel[j] \o c)
  <2>1. \A a, b, d \in Seq(Event) : (a \o b) \o d = a \o (b \o d)
    BY ConcatAssociative
  <2> QED
    BY <1>1, <2>1
<1> QED
  BY <1>1, <1>2, ConcatProperties

\* Every piece continues what was received: the bytes stay verbatim.
LEMMA SaysVerbatim ==
  ASSUME JobTypes, EndTypes, NEW j \in Jobs, NEW c \in Seq(Event), Says(j, c), heard'[j] = heard[j],
         Verbatim(j)
  PROVE  Verbatim(j)'
<1> SUFFICES ASSUME kind[j] \in {"stream", "body"}
             PROVE  Halves((heard[j] \o channel[j]) \o c) = read'[j]
  BY SaidIsTold DEF Verbatim, Says
<1> DEFINE s == heard[j] \o channel[j]
<1>1. s \in Seq(Event) /\ Halves(s) = read[j]
  BY SaidIsTold DEF Verbatim
<1> HIDE DEF s
<1>2. \A e \in Event : e.type # "raw" => Halves(s \o <<e>>) = read[j]
  BY <1>1, OneMore DEF Follow
<1>3. CASE Goes(j, c)
  <2>1. read'[j] = read[j]
    BY <1>3 DEF Goes
  <2>2. CASE c = <<>>
    <3>1. s \o <<>> = s
      BY <1>1, ConcatEmptySeq
    <3> QED
      BY <1>1, <2>1, <2>2, <3>1 DEF s
  <2>3. ASSUME NEW x \in {"loading", "token", "title"}, c = <<[type |-> x]>> PROVE Halves(s \o c) = read'[j]
    BY <1>2, <2>1, <2>3, Events
  <2> QED
    BY <1>3, <2>2, <2>3 DEF Goes, Quiet, s
<1>4. CASE Brings(j, c)
  <2> DEFINE e == [type |-> "raw", from |-> read[j], to |-> read'[j]]
  <2>1. c = <<e>> /\ e.type = "raw" /\ e.from = read[j] /\ e.to = read'[j]
    BY <1>4 DEF Brings
  <2>2. e \in Event
    <3>1. <<e>>[1] = e /\ Len(<<e>>) = 1
      OBVIOUS
    <3> HIDE DEF e
    <3> QED
      BY <2>1, <3>1
  <2> HIDE DEF e
  <2> QED
    BY <1>1, <2>1, <2>2, OneMore DEF Follow, s
<1>5. CASE Ends(j, c)
  <2>1. PICK e : c = <<e>> /\ e.type = "done" /\ e \in Event
    BY <1>5, Events DEF Ends
  <2> QED
    BY <1>2, <1>5, <2>1 DEF Ends, s
<1>6. CASE Shuts(j, c)
  <2>1. c = <<Close>> /\ Close \in Event /\ Close.type = "close"
    BY <1>6, Events DEF Shuts, Close
  <2> QED
    BY <1>2, <1>6, <2>1 DEF Shuts, s
<1>7. CASE Breaks(j, c)
  <2>1. PICK e \in Event : c = <<e, Close>> /\ e.type # "raw"
    BY <1>7, Events DEF Breaks
  <2>2. Close \in Event /\ Close.type = "close"
    BY Events DEF Close
  <2>3. s \o <<e, Close>> = (s \o <<e>>) \o <<Close>> /\ s \o <<e>> \in Seq(Event)
    BY <1>1, <2>2
  <2>4. Halves((s \o <<e>>) \o <<Close>>) = Halves(s \o <<e>>)
    BY <2>2, <2>3, OneMore DEF Follow
  <2>5. Halves(s \o c) = read[j]
    BY <1>2, <2>1, <2>3, <2>4
  <2> QED
    BY <1>7, <2>5 DEF Breaks, s
<1> QED
  BY <1>3, <1>4, <1>5, <1>6, <1>7 DEF Says

\* A chat is told its job's end once, and nothing after it.
LEMMA SaysChat ==
  ASSUME EndTypes, NEW j \in Jobs, NEW c \in Seq(Event), Says(j, c), heard'[j] = heard[j],
         kind[j] \in Chatty, ChatTold(j)
  PROVE  ChatTold(j)'
<1> DEFINE s == heard[j] \o channel[j]
<1>1. s \in Seq(Event) /\ EndTold(s, st[j]) /\ heard'[j] \o channel'[j] = s \o c
  BY SaidIsTold DEF ChatTold
<1> HIDE DEF s
<1> SUFFICES EndTold(s \o c, st'[j])
  BY <1>1 DEF ChatTold
<1>2. ASSUME Without(c, LastWords), st'[j] = st[j] \/ (st[j] \notin Terminal /\ st'[j] \notin Terminal)
      PROVE  EndTold(s \o c, st'[j])
  <2>1. CASE st[j] \notin Terminal
    BY <1>1, <1>2, <2>1, OneOfBoth DEF EndTold
  <2>2. CASE st[j] \in Terminal
    <3>1. PICK i \in 1..Len(s) : Only(i, s, LastWords) /\ st[j] = EndOf(s[i])
      BY <1>1, <2>2 DEF EndTold
    <3>2. Only(i, s \o c, LastWords) /\ (s \o c)[i] = s[i]
      BY <1>1, <1>2, <3>1, OneOfBoth
    <3> QED
      BY <1>2, <2>2, <3>1, <3>2 DEF EndTold, Only
  <2> QED
    BY <2>1, <2>2
<1>3. ASSUME NEW i \in 1..Len(c), Only(i, c, LastWords), st[j] \notin Terminal, st'[j] = EndOf(c[i]), st'[j] \in Terminal
      PROVE  EndTold(s \o c, st'[j])
  <2>1. Without(s, LastWords)
    BY <1>1, <1>3 DEF EndTold
  <2>2. Only(Len(s) + i, s \o c, LastWords) /\ (s \o c)[Len(s) + i] = c[i]
    BY <1>1, <1>3, <2>1, OneOfBoth
  <2> QED
    BY <1>3, <2>2 DEF EndTold, Only
<1>4. CASE Goes(j, c)
  BY <1>2, <1>4 DEF Goes, Quiet, Without, LastWords
<1>5. CASE Ends(j, c)
  <2>1. Len(c) = 1 /\ c[1].type = "done" /\ c[1].state = st'[j] /\ st'[j] \in Terminal /\ st[j] \notin Terminal
    BY <1>5 DEF Ends, Terminal
  <2>2. 1 \in 1..Len(c) /\ Only(1, c, LastWords) /\ st'[j] = EndOf(c[1])
    BY <2>1 DEF Only, LastWords, EndOf
  <2> QED
    BY <1>3, <2>1, <2>2
<1>6. CASE Shuts(j, c)
  <2>1. Without(c, LastWords)
    BY <1>6 DEF Shuts, Without, LastWords, Close
  <2> QED
    BY <1>2, <1>6, <2>1 DEF Shuts
<1>7. CASE Breaks(j, c)
  <2>1. /\ Len(c) = 2 /\ c[1].type = st'[j] /\ c[2].type = "close" /\ st'[j] \in {"error", "cancelled"}
        /\ st[j] \notin Terminal
    BY <1>7 DEF Breaks, Close
  <2>2. 1 \in 1..Len(c) /\ Only(1, c, LastWords) /\ st'[j] = EndOf(c[1]) /\ st'[j] \in Terminal
    BY <2>1 DEF Only, LastWords, EndOf, Terminal
  <2> QED
    BY <1>3, <2>1, <2>2
<1>8. ~Brings(j, c)
  BY DEF Brings, Chatty
<1> QED
  BY <1>4, <1>5, <1>6, <1>7, <1>8 DEF Says

\* A /v1 stream is about to get its [DONE] when its job breaks, and only then.
LEMMA SaysStream ==
  ASSUME EndTypes, NEW j \in Jobs, NEW c \in Seq(Event), Says(j, c), heard'[j] = heard[j],
         StreamTold(j)
  PROVE  StreamTold(j)'
<1> DEFINE s == channel[j]
<1>1. s \in Seq(Event) /\ channel'[j] = s \o c
  BY DEF EndTypes, Says
<1> DEFINE Bad == st[j] = "error" \/ Dropped(j)
           Worse == st'[j] = "error" \/ Dropped(j)'
<1>2. ASSUME Without(c, Broken), Worse <=> Bad PROVE StreamTold(j)'
  <2>1. Without(s, Broken) => Without(s \o c, Broken)
    BY <1>1, <1>2, OneOfBoth
  <2>2. Once(s, Broken) => Once(s \o c, Broken)
    BY <1>1, <1>2, OnceOfBoth
  <2> QED
    BY <1>1, <1>2, <2>1, <2>2 DEF StreamTold
<1>3. st[j] \notin Terminal => ~Bad
  BY DEF Dropped, Terminal
<1>4. CASE Goes(j, c)
  <2>1. Without(c, Broken)
    BY <1>4 DEF Goes, Quiet, Without, Broken
  <2>2. Worse <=> Bad
    BY <1>4 DEF Goes, Terminal
  <2> QED
    BY <1>2, <2>1, <2>2
<1>5. CASE Brings(j, c)
  <2>1. Without(c, Broken)
    BY <1>5 DEF Brings, Without, Broken
  <2>2. ~Worse /\ ~Bad
    BY <1>5 DEF Brings, Dropped, Terminal
  <2> QED
    BY <1>2, <2>1, <2>2
<1>6. CASE Ends(j, c)
  <2>1. Without(c, Broken)
    BY <1>6 DEF Ends, Without, Broken
  <2>2. ~Worse /\ ~Bad
    BY <1>3, <1>6 DEF Ends
  <2> QED
    BY <1>2, <2>1, <2>2
<1>7. CASE Shuts(j, c)
  <2>1. Without(c, Broken)
    BY <1>7 DEF Shuts, Without, Broken, Close
  <2>2. Worse <=> Bad
    BY <1>7 DEF Shuts
  <2> QED
    BY <1>2, <2>1, <2>2
<1>8. CASE Breaks(j, c)
  <2>1. ~Bad /\ Worse
    BY <1>3, <1>8 DEF Breaks
  <2>2. Len(c) = 2 /\ c[1].type \in Broken /\ c[2].type = "close"
    BY <1>8 DEF Breaks, Close, Broken
  <2>3. Only(1, c, Broken)
    BY <2>2 DEF Only, Broken
  <2>4. Without(heard[j], Marker) /\ Without(s, Broken)
    BY <2>1 DEF StreamTold
  <2>5. Once(c, Broken)
    BY <2>2, <2>3 DEF Once
  <2>6. Once(s \o c, Broken)
    BY <1>1, <2>4, <2>5, OnceOfBoth
  <2> QED
    BY <1>1, <2>1, <2>4, <2>6 DEF StreamTold
<1> QED
  BY <1>4, <1>5, <1>6, <1>7, <1>8 DEF Says

\* A /v1 body is put on its stream whole, at once.
LEMMA SaysBody ==
  ASSUME EndTypes, NEW j \in Jobs, NEW c \in Seq(Event), Says(j, c), heard'[j] = heard[j],
         kind[j] = "body", ~closed[j], ~closed'[j], BodyTold(j)
  PROVE  BodyTold(j)'
<1> DEFINE s == channel[j]
<1>1. s \in Seq(Event) /\ channel'[j] = s \o c
  BY DEF EndTypes, Says
<1>2. BodyEnds(j)'
  BY DEF BodyEnds
<1>3. ASSUME Without(c, Raw), read'[j] = read[j] PROVE BodyTold(j)'
  <2>1. CASE Without(s, Raw)
    <3>1. Without(s \o c, Raw)
      BY <1>1, <1>3, <2>1, OneOfBoth
    <3> QED
      BY <1>1, <1>2, <1>3, <3>1 DEF BodyTold
  <2>2. ASSUME NEW i \in 1..Len(s), Only(i, s, Raw), s[i].from = 0, s[i].to = Total,
               read[j] = Total, heard[j] = <<>>
        PROVE  BodyTold(j)'
    <3>1. Only(i, s \o c, Raw) /\ (s \o c)[i] = s[i]
      BY <1>1, <1>3, <2>2, OneOfBoth
    <3>2. i \in 1..Len(s \o c)
      BY <3>1 DEF Only
    <3> QED
      BY <1>1, <1>2, <1>3, <2>2, <3>1, <3>2 DEF BodyTold
  <2> QED
    BY <2>1, <2>2 DEF BodyTold
<1>4. CASE Goes(j, c)
  <2>1. Without(c, Raw)
    BY <1>4 DEF Goes, Quiet, Without, Raw
  <2> QED
    BY <1>3, <1>4, <2>1 DEF Goes
<1>5. CASE Ends(j, c)
  <2>1. Without(c, Raw)
    BY <1>5 DEF Ends, Without, Raw
  <2> QED
    BY <1>3, <1>5, <2>1 DEF Ends
<1>6. CASE Shuts(j, c)
  <2>1. Without(c, Raw)
    BY <1>6 DEF Shuts, Without, Raw, Close
  <2> QED
    BY <1>3, <1>6, <2>1 DEF Shuts
<1>7. CASE Breaks(j, c)
  <2>1. Len(c) = 2 /\ c[1].type \notin Raw /\ c[2].type \notin Raw
    BY <1>7 DEF Breaks, Close, Raw
  <2>2. Without(c, Raw)
    BY <2>1 DEF Without
  <2> QED
    BY <1>3, <1>7, <2>2 DEF Breaks
<1>8. CASE Brings(j, c)
  <2>1. /\ Len(c) = 1 /\ c[1].type = "raw" /\ c[1].from = 0 /\ c[1].to = Total
        /\ read[j] = 0 /\ read'[j] = Total
    BY <1>8 DEF Brings
  <2>2. Only(1, c, Raw)
    BY <2>1 DEF Only, Raw
  <2>3. Without(s, Raw) /\ heard[j] = <<>>
    BY <2>1, TotalIsSix DEF BodyTold
  <2>4. Only(Len(s) + 1, s \o c, Raw) /\ (s \o c)[Len(s) + 1] = c[1]
    <3> HIDE DEF s
    <3>1. \A i : Without(s, Raw) /\ Only(i, c, Raw) =>
            Only(Len(s) + i, s \o c, Raw) /\ (s \o c)[Len(s) + i] = c[i]
      BY <1>1, OneOfBoth
    <3> QED
      BY <2>2, <2>3, <3>1
  <2>5. Len(s) + 1 \in 1..Len(s \o c)
    BY <2>4 DEF Only
  <2> QED
    BY <1>1, <1>2, <2>1, <2>3, <2>4, <2>5 DEF BodyTold
<1> QED
  BY <1>4, <1>5, <1>6, <1>7, <1>8 DEF Says

\* Whatever a job says, its client is told, or about to be told, what it should.
LEMMA SaysTells ==
  ASSUME JobTypes, EndTypes, NEW j \in Jobs, NEW c \in Seq(Event), Says(j, c), Closing(j), Telling(j),
         heard'[j] = heard[j], client'[j] = client[j],
         closed'[j] = closed[j] \/ client[j] = "gone"
  PROVE  Telling(j)'
<1> SUFFICES ASSUME client[j] = "there" PROVE Telling(j)'
  BY DEF Telling, EndTypes
<1>1. ~closed[j] /\ ~closed'[j] /\ kind'[j] = kind[j]
  BY DEF Closing, Says
<1>2. Verbatim(j)'
  BY SaysVerbatim DEF Telling
<1>3. ASSUME kind[j] \in Chatty PROVE ChatTold(j)'
  BY <1>3, SaysChat DEF Telling
<1>4. ASSUME kind[j] = "stream" PROVE StreamTold(j)'
  BY <1>4, SaysStream DEF Telling
<1>5. ASSUME kind[j] = "body" PROVE BodyTold(j)'
  BY <1>1, <1>5, SaysBody DEF Telling
<1> QED
  BY <1>1, <1>2, <1>3, <1>4, <1>5 DEF Telling

-----------------------------------------------------------------------------
(* What the client is sent of it *)

\* Sequences are joined in any order.
LEMMA Associates == \A a, b, d \in Seq(Event) : (a \o b) \o d = a \o (b \o d)
  BY ConcatAssociative

\* Reading takes the first of what is waiting.
LEMMA FirstOf ==
  ASSUME NEW h \in Seq(Event), NEW s \in Seq(Event), s # <<>>
  PROVE  h \o s = (h \o <<Head(s)>>) \o Tail(s)
<1>1. Head(s) \in Event /\ Tail(s) \in Seq(Event) /\ <<Head(s)>> \in Seq(Event)
  BY HeadTailProperties
<1>2. s = <<Head(s)>> \o Tail(s)
  BY <1>1
<1> QED
  BY <1>1, <1>2, Associates

\* What a response does with an event that is no piece.
LEMMA PlainSent ==
  ASSUME NEW h \in Seq(Event), NEW e \in Event, e.type # "raw"
  PROVE  /\ Relayed(h, e) \in Seq(Event) /\ Halves(Relayed(h, e)) = Halves(h)
         /\ Collected(h, e) \in Seq(Event) /\ Halves(Collected(h, e)) = Halves(h)
         /\ Relayed(h, e) = CASE e.type = "cancelled" -> h \o <<DoneMarker>>
                              [] e.type = "error" -> (h \o <<e>>) \o <<DoneMarker>>
                              [] OTHER -> h
         /\ Collected(h, e) = CASE e.type = "error" -> h \o <<[type |-> "502"]>>
                                [] e.type = "close" -> h \o <<[type |-> IF h = <<>> THEN "502" ELSE "200"]>>
                                [] OTHER -> h
<1>1. /\ DoneMarker \in Event /\ [type |-> "502"] \in Event /\ [type |-> "200"] \in Event
      /\ DoneMarker.type = "[DONE]"
  BY Events DEF DoneMarker
<1>2. \A g \in Seq(Event), f \in Event : f.type # "raw" =>
        g \o <<f>> \in Seq(Event) /\ g \o <<f>> = Append(g, f) /\ Halves(g \o <<f>>) = Halves(g)
  BY OneMore DEF Follow
<1>3. h \o <<e, DoneMarker>> = (h \o <<e>>) \o <<DoneMarker>>
  BY <1>1
<1>4. CASE e.type = "cancelled"
  BY <1>1, <1>2, <1>4 DEF Relayed, Collected
<1>5. CASE e.type = "error"
  <2>1. Relayed(h, e) = (h \o <<e>>) \o <<DoneMarker>> /\ Collected(h, e) = h \o <<[type |-> "502"]>>
    BY <1>1, <1>2, <1>3, <1>5 DEF Relayed, Collected
  <2>2. h \o <<e>> \in Seq(Event) /\ Halves(h \o <<e>>) = Halves(h)
    BY <1>2, <1>5
  <2>3. /\ (h \o <<e>>) \o <<DoneMarker>> \in Seq(Event)
        /\ Halves((h \o <<e>>) \o <<DoneMarker>>) = Halves(h)
    BY <1>1, <1>2, <2>2
  <2>4. h \o <<[type |-> "502"]>> \in Seq(Event) /\ Halves(h \o <<[type |-> "502"]>>) = Halves(h)
    BY <1>1, <1>2
  <2> QED
    BY <1>5, <2>1, <2>3, <2>4
<1>6. CASE e.type \notin {"cancelled", "error"}
  <2>1. Relayed(h, e) = h
    BY <1>6 DEF Relayed
  <2>2. CASE e.type # "close"
    BY <1>6, <2>1, <2>2 DEF Collected
  <2>3. CASE e.type = "close"
    <3> DEFINE f == [type |-> IF h = <<>> THEN "502" ELSE "200"]
    <3>1. f \in Event /\ f.type # "raw"
      BY <1>1
    <3>2. Collected(h, e) = Append(h, f)
      BY <2>3 DEF Collected
    <3> HIDE DEF f
    <3>3. Collected(h, e) = h \o <<f>> /\ h \o <<f>> \in Seq(Event) /\ Halves(h \o <<f>>) = Halves(h)
      BY <1>2, <3>1, <3>2
    <3> QED
      BY <2>1, <2>3, <3>3 DEF f
  <2> QED
    BY <2>1, <2>2, <2>3
<1> QED
  BY <1>4, <1>5, <1>6

\* What a response is left with when it reads an event.
LEMMA ReadIs ==
  ASSUME EndTypes, NEW j \in Jobs, Read(j), client[j] = "there"
  PROVE  LET e == Head(channel[j]) IN
         /\ heard[j] \in Seq(Event) /\ channel[j] \in Seq(Event) /\ channel[j] # <<>>
         /\ e \in Event /\ heard'[j] = Sent(j, e) /\ channel'[j] = Tail(channel[j])
         /\ ~closed[j] /\ closed'[j] = (e = Close \/ (kind[j] = "body" /\ e.type = "error"))
         /\ UNCHANGED <<jobVars, client>>
<1>1. heard[j] \in Seq(Event) /\ channel[j] \in Seq(Event) /\ channel[j] # <<>>
  BY DEF EndTypes, Read
<1>2. Head(channel[j]) \in Event
  BY <1>1, HeadTailProperties
<1> QED
  BY <1>1, <1>2 DEF Read, EndTypes

\* Reading moves bytes from the stream to the client, in order and whole.
LEMMA ReadVerbatim ==
  ASSUME EndTypes, NEW j \in Jobs, Read(j), client[j] = "there", Verbatim(j)
  PROVE  Verbatim(j)'
<1> DEFINE h == heard[j]
           s == channel[j]
           e == Head(channel[j])
           g == Sent(j, e)
<1>1. /\ h \in Seq(Event) /\ s \in Seq(Event) /\ s # <<>> /\ e \in Event
      /\ heard'[j] = g /\ channel'[j] = Tail(s) /\ read' = read /\ kind' = kind
  BY ReadIs
<1> SUFFICES ASSUME kind[j] \in {"stream", "body"} PROVE Halves(g \o Tail(s)) = read[j]
  BY <1>1 DEF Verbatim
<1>2. g = Relayed(h, e) \/ g = Collected(h, e)
  BY DEF Sent, Chatty
<1>3. g \in Seq(Event) /\ Halves(g) = Follow(Halves(h), e)
  <2>1. CASE e.type = "raw"
    <3>1. g = Joined(h, e)
      BY <1>2, <2>1 DEF Relayed, Collected
    <3> QED
      BY <1>1, <2>1, <3>1, JoinedIs
  <2>2. CASE e.type # "raw"
    <3>1. Follow(Halves(h), e) = Halves(h)
      BY <2>2 DEF Follow
    <3> HIDE DEF h, e, g
    <3>2. /\ Relayed(h, e) \in Seq(Event) /\ Halves(Relayed(h, e)) = Halves(h)
          /\ Collected(h, e) \in Seq(Event) /\ Halves(Collected(h, e)) = Halves(h)
      BY <1>1, <2>2, PlainSent
    <3> QED
      BY <1>2, <3>1, <3>2
  <2> QED
    BY <2>1, <2>2
<1>4. h \o <<e>> \in Seq(Event) /\ Halves(h \o <<e>>) = Follow(Halves(h), e)
  BY <1>1, OneMore
<1>5. Tail(s) \in Seq(Event)
  BY <1>1, HeadTailProperties
<1>6. h \o s = (h \o <<e>>) \o Tail(s)
  BY <1>1, FirstOf
<1>7. Halves(h \o s) = read[j]
  BY DEF Verbatim
<1> HIDE DEF h, s, e, g
<1>8. Halves(g \o Tail(s)) = Halves((h \o <<e>>) \o Tail(s))
  <2>1. Halves(g) = Halves(h \o <<e>>)
    BY <1>3, <1>4
  <2> DEFINE k == h \o <<e>>
             t == Tail(s)
  <2>2. k \in Seq(Event) /\ t \in Seq(Event) /\ g \in Seq(Event) /\ Halves(g) = Halves(k)
    BY <1>3, <1>4, <1>5, <2>1
  <2> HIDE DEF k, t
  <2>3. Halves(g \o t) = Halves(k \o t)
    BY <2>2, HalvesAfter
  <2> QED
    BY <2>3 DEF k, t
<1> QED
  BY <1>6, <1>7, <1>8

\* A chat's client is sent every event that was waiting, so it is told the same.
LEMMA ReadChat ==
  ASSUME EndTypes, NEW j \in Jobs, Read(j), client[j] = "there", kind[j] \in Chatty,
         Closing(j), ChatTold(j)
  PROVE  ChatTold(j)'
<1> DEFINE h == heard[j]
           s == channel[j]
           e == Head(channel[j])
<1>1. /\ h \in Seq(Event) /\ s \in Seq(Event) /\ s # <<>> /\ e \in Event
      /\ heard'[j] = (IF e = Close THEN h ELSE Append(h, e)) /\ channel'[j] = Tail(s) /\ st' = st
  BY ReadIs DEF Sent, Chatty
<1>2. h \o s = (h \o <<e>>) \o Tail(s) /\ EndTold(h \o s, st[j])
  BY <1>1, FirstOf DEF ChatTold
<1>3. /\ s[1] = e /\ 1 \in 1..Len(s) /\ Len(s) \in Nat /\ Len(Tail(s)) = Len(s) - 1
      /\ Tail(s) \in Seq(Event)
  BY <1>1, OneOfRest
<1>4. e = Close => Len(s) = 1
  <2>1. e = Close => s[1].type = "close"
    BY <1>3 DEF Close
  <2> QED
    BY <1>3, <2>1 DEF Closing
<1> HIDE DEF h, s, e
<1>5. CASE e # Close
  <2>1. Append(h, e) = h \o <<e>>
    BY <1>1, OneMore
  <2> QED
    BY <1>1, <1>2, <1>5, <2>1 DEF ChatTold
<1>6. CASE e = Close
  <2>1. Tail(s) = <<>>
    <3>1. Len(Tail(s)) = 0
      <4>1. Len(s) = 1
        BY <1>4, <1>6
      <4> QED
        BY <1>3, <4>1
    <3> QED
      BY <1>3, <3>1, EmptySeq
  <2>2. h \o <<e>> \in Seq(Event) /\ h \o <<e>> = Append(h, e)
    BY <1>1, OneMore
  <2>3. EndTold(Append(h, e), st[j])
    <3>1. (h \o <<e>>) \o <<>> = h \o <<e>>
      BY <2>2, ConcatEmptySeq
    <3> QED
      BY <1>2, <2>1, <2>2, <3>1
  <2>4. /\ Len(Append(h, e)) = Len(h) + 1 /\ Append(h, e)[Len(h) + 1] = e /\ Len(h) \in Nat
        /\ \A i \in 1..Len(h) : Append(h, e)[i] = h[i] /\ i \in 1..(Len(h) + 1)
    BY <1>1
  <2>5. e.type \notin LastWords
    BY <1>6 DEF Close, LastWords
  <2>6. EndTold(h, st[j])
    <3> DEFINE k == Append(h, e)
    <3>1. EndTold(k, st[j]) /\ Len(k) = Len(h) + 1 /\ k[Len(h) + 1] = e
          /\ \A i \in 1..Len(h) : k[i] = h[i] /\ i \in 1..Len(k)
      BY <2>3, <2>4
    <3> HIDE DEF k
    <3>2. CASE st[j] \notin Terminal
      BY <3>1, <3>2 DEF EndTold, Without
    <3>3. CASE st[j] \in Terminal
      <4>1. PICK i \in 1..Len(k) : Only(i, k, LastWords) /\ st[j] = EndOf(k[i])
        BY <3>1, <3>3 DEF EndTold
      <4>2. i # Len(h) + 1
        BY <2>5, <3>1, <4>1 DEF Only
      <4>3. i \in 1..Len(h)
        BY <2>4, <3>1, <4>1, <4>2
      <4>4. Only(i, h, LastWords) /\ st[j] = EndOf(h[i])
        BY <3>1, <4>1, <4>3 DEF Only
      <4> QED
        BY <3>3, <4>3, <4>4 DEF EndTold
    <3> QED
      BY <3>2, <3>3
  <2>7. h \o <<>> = h
    BY <1>1, ConcatEmptySeq
  <2> QED
    BY <1>1, <1>6, <2>1, <2>6, <2>7 DEF ChatTold
<1> QED
  BY <1>5, <1>6

\* A /v1 stream's client gets the [DONE] with the event of the break.
LEMMA ReadStream ==
  ASSUME EndTypes, NEW j \in Jobs, Read(j), client[j] = "there", kind[j] = "stream", StreamTold(j)
  PROVE  StreamTold(j)'
<1> DEFINE h == heard[j]
           s == channel[j]
           e == Head(channel[j])
           Bad == st[j] = "error" \/ Dropped(j)
<1>1. /\ h \in Seq(Event) /\ s \in Seq(Event) /\ s # <<>> /\ e \in Event
      /\ heard'[j] = Relayed(h, e) /\ channel'[j] = Tail(s) /\ (Bad' <=> Bad)
  BY ReadIs DEF Sent, Chatty, Dropped
<1>2. /\ Without(s, Broken) => Without(Tail(s), Broken) /\ e.type \notin Broken
      /\ Once(s, Broken) => IF e.type \in Broken THEN Without(Tail(s), Broken) ELSE Once(Tail(s), Broken)
  BY <1>1, OneOfRest
<1>3. CASE e.type \in Broken
  <2>1. Bad /\ Without(h, Marker) /\ Without(Tail(s), Broken)
    BY <1>2, <1>3 DEF StreamTold
  <2>2. DoneMarker \in Event /\ DoneMarker.type = "[DONE]"
    BY Events DEF DoneMarker
  <2> HIDE DEF h, e, s
  <2>3. Once(Relayed(h, e), Marker)
    <3>1. <<DoneMarker>> \in Seq(Event) /\ Once(<<DoneMarker>>, Marker)
      BY <2>2 DEF Once, Only, Marker
    <3>2. <<e>> \in Seq(Event) /\ Without(<<e>>, Marker)
      BY <1>1, <1>3 DEF Without, Marker, Broken
    <3>3. h \o <<e>> \in Seq(Event) /\ Without(h \o <<e>>, Marker)
      BY <1>1, <2>1, <3>2, OneOfBoth
    <3>4. Once(h \o <<DoneMarker>>, Marker) /\ Once((h \o <<e>>) \o <<DoneMarker>>, Marker)
      BY <1>1, <2>1, <3>1, <3>3, OnceOfBoth
    <3>5. Relayed(h, e) = h \o <<DoneMarker>> \/ Relayed(h, e) = (h \o <<e>>) \o <<DoneMarker>>
      BY <1>1, <1>3, PlainSent DEF Broken
    <3> QED
      BY <3>4, <3>5
  <2> QED
    BY <1>1, <2>1, <2>3 DEF StreamTold
<1>4. CASE e.type \notin Broken
  <2>1. /\ Without(h, Marker) => Without(Relayed(h, e), Marker)
        /\ Once(h, Marker) => Once(Relayed(h, e), Marker)
    <3> HIDE DEF h, e
    <3>1. CASE e.type = "raw"
      <4>1. Relayed(h, e) = Joined(h, e) /\ "raw" \notin Marker
        BY <3>1 DEF Relayed, Marker
      <4> QED
        BY <1>1, <3>1, <4>1, JoinedIs
    <3>2. CASE e.type # "raw"
      <4>1. Relayed(h, e) = h
        BY <1>4, <3>2 DEF Relayed, Broken
      <4> QED
        BY <4>1
    <3> QED
      BY <3>1, <3>2
  <2> QED
    BY <1>1, <1>2, <1>4, <2>1 DEF StreamTold
<1> QED
  BY <1>3, <1>4

\* A /v1 body's client gets it with the close, or is told the job failed.
LEMMA ReadBody ==
  ASSUME JobTypes, EndTypes, NEW j \in Jobs, Read(j), client[j] = "there", kind[j] = "body",
         Closing(j), Course(j), BodyTold(j)
  PROVE  BodyTold(j)'
<1> DEFINE h == heard[j]
           s == channel[j]
           e == Head(channel[j])
<1>1. /\ h \in Seq(Event) /\ s \in Seq(Event) /\ s # <<>> /\ e \in Event
      /\ heard'[j] = Collected(h, e) /\ channel'[j] = Tail(s) /\ read' = read
      /\ ~closed[j] /\ closed'[j] = (e = Close \/ e.type = "error")
  BY ReadIs DEF Sent, Chatty
<1>2. /\ s[1] = e /\ 1 \in 1..Len(s) /\ Len(s) \in Nat /\ Len(Tail(s)) = Len(s) - 1
      /\ Tail(s) \in Seq(Event) /\ (Without(s, Raw) => Without(Tail(s), Raw) /\ e.type \notin Raw)
      /\ (Once(s, Raw) => IF e.type \in Raw THEN Without(Tail(s), Raw) ELSE Once(Tail(s), Raw))
      /\ \A i \in 1..Len(Tail(s)) : i + 1 \in 1..Len(s) /\ Tail(s)[i] = s[i + 1]
  BY <1>1, OneOfRest
<1>3. h # <<>> => Whole(h) /\ read[j] = Total
  BY <1>1 DEF BodyTold
<1>4. /\ e.type = "error" => read[j] = 0
      /\ e.type = "close" => Len(s) = 1
  <2>1. e.type = "error" => st[j] = "error"
    BY <1>2 DEF Closing
  <2>2. read[j] \in {0, Total} /\ (st[j] = "error" => read[j] < Total)
    BY DEF Course, Progress
  <2>3. e.type = "close" => Len(s) = 1
    BY <1>2 DEF Closing
  <2> QED
    BY <2>1, <2>2, <2>3, TotalIsSix
<1>5. \/ Without(s, Raw)
      \/ /\ read[j] = Total /\ h = <<>> /\ Once(s, Raw)
         /\ \E i \in 1..Len(s) : Only(i, s, Raw) /\ s[i].from = 0 /\ s[i].to = Total
  BY DEF BodyTold, Once
<1>6. Total # 0 /\ Halves(<<>>) = 0
  BY TotalIsSix, HalvesOfNone
<1> HIDE DEF h, s, e
<1> SUFFICES /\ \/ Without(Tail(s), Raw)
                \/ /\ read[j] = Total /\ Collected(h, e) = <<>>
                   /\ \E i \in 1..Len(Tail(s)) : Only(i, Tail(s), Raw) /\ Tail(s)[i].from = 0 /\ Tail(s)[i].to = Total
             /\ ~closed'[j] /\ Collected(h, e) # <<>> => Whole(Collected(h, e)) /\ read[j] = Total
             /\ closed'[j] => Last(Collected(h, e)).type = (IF Whole(Collected(h, e)) THEN "200" ELSE "502")
  BY <1>1 DEF BodyTold, BodyEnds
<1>7. CASE e.type = "raw"
  <2>1. ~ Without(s, Raw)
    BY <1>2, <1>7 DEF Without, Raw
  <2>2. PICK i \in 1..Len(s) : Only(i, s, Raw) /\ s[i].from = 0 /\ s[i].to = Total
    BY <1>5, <2>1
  <2>3. e.from = 0 /\ e.to = Total
    BY <1>2, <1>7, <2>2 DEF Only, Raw
  <2>4. h = <<>> /\ read[j] = Total /\ Without(Tail(s), Raw)
    BY <1>2, <1>5, <1>7, <2>1 DEF Raw
  <2>5. Collected(h, e) = Joined(h, e)
    BY <1>7 DEF Collected
  <2>6. Halves(Joined(h, e)) = Follow(Halves(h), e)
    BY <1>1, <1>7, JoinedIs
  <2>7. Whole(Collected(h, e))
    BY <1>6, <1>7, <2>3, <2>4, <2>5, <2>6 DEF Follow, Whole
  <2>8. ~closed'[j]
    BY <1>1, <1>7, CloseIs
  <2> QED
    BY <2>4, <2>7, <2>8
<1>8. CASE e.type = "error"
  <2>1. read[j] # Total
    BY <1>4, <1>6, <1>8
  <2>2. h = <<>> /\ Without(s, Raw)
    BY <1>3, <1>5, <2>1
  <2>3. Without(Tail(s), Raw)
    BY <1>2, <2>2
  <2>4. Collected(h, e) = Append(h, [type |-> "502"]) /\ Halves(Collected(h, e)) = Halves(h)
    BY <1>1, <1>8, PlainSent DEF Collected
  <2>5. ~ Whole(Collected(h, e))
    BY <1>6, <2>2, <2>4 DEF Whole
  <2>6. Last(Collected(h, e)).type = "502"
    BY <2>2, <2>4 DEF Last
  <2>7. closed'[j]
    BY <1>1, <1>8
  <2> QED
    BY <2>3, <2>5, <2>6, <2>7
<1>9. CASE e.type = "close"
  <2>1. Without(Tail(s), Raw)
    <3>1. Len(s) = 1
      BY <1>4, <1>9
    <3>2. Len(Tail(s)) = 0
      BY <1>2, <3>1
    <3>3. Tail(s) = <<>>
      BY <1>2, <3>2, EmptySeq
    <3>4. Without(<<>>, Raw)
      BY DEF Without
    <3> QED
      BY <3>3, <3>4
  <2> DEFINE f == [type |-> IF h = <<>> THEN "502" ELSE "200"]
  <2>2. Collected(h, e) = Append(h, f) /\ Halves(Collected(h, e)) = Halves(h)
    BY <1>1, <1>9, PlainSent DEF Collected
  <2>3. Last(Append(h, f)) = f
    <3> HIDE DEF f
    <3>1. Len(Append(h, f)) = Len(h) + 1 /\ Append(h, f)[Len(h) + 1] = f
      BY <1>1
    <3> QED
      BY <3>1 DEF Last
  <2>4. Whole(Collected(h, e)) <=> h # <<>>
    BY <1>3, <1>6, <2>2 DEF Whole
  <2>5. closed'[j]
    BY <1>1, <1>9, CloseIs
  <2> QED
    BY <2>1, <2>2, <2>3, <2>4, <2>5
<1>10. CASE e.type \notin {"raw", "error", "close"}
  <2>1. Collected(h, e) = h
    BY <1>10 DEF Collected
  <2>2. ~closed'[j]
    BY <1>1, <1>10, CloseIs
  <2>3. ASSUME NEW i \in 1..Len(s), Only(i, s, Raw), s[i].from = 0, s[i].to = Total
        PROVE  \E k \in 1..Len(Tail(s)) : Only(k, Tail(s), Raw) /\ Tail(s)[k].from = 0 /\ Tail(s)[k].to = Total
    <3>1. i # 1
      BY <1>2, <1>10, <2>3 DEF Only, Raw
    <3>2. i - 1 \in 1..Len(Tail(s)) /\ (i - 1) + 1 = i
      BY <1>2, <3>1
    <3>3. Tail(s)[i - 1] = s[i]
      BY <1>2, <3>2
    <3>4. ASSUME NEW k \in 1..Len(Tail(s)), Tail(s)[k].type \in Raw PROVE k = i - 1
      <4>1. k + 1 = i
        BY <1>2, <2>3, <3>4 DEF Only
      <4> QED
        BY <4>1
    <3>5. Only(i - 1, Tail(s), Raw)
      BY <2>3, <3>2, <3>3, <3>4 DEF Only
    <3> QED
      BY <2>3, <3>2, <3>3, <3>5
  <2> QED
    BY <1>2, <1>3, <1>5, <2>1, <2>2, <2>3
<1> QED
  BY <1>7, <1>8, <1>9, <1>10

\* Whatever is read, the client is told, or about to be told, what it should.
LEMMA ReadTells ==
  ASSUME JobTypes, EndTypes, NEW j \in Jobs, Read(j), Closing(j), Course(j), Telling(j)
  PROVE  Telling(j)'
<1> SUFFICES ASSUME client[j] = "there" PROVE Telling(j)'
  BY DEF Telling, Read
<1>1. kind' = kind
  BY ReadIs
<1>2. Verbatim(j)'
  BY ReadVerbatim DEF Telling
<1>3. ASSUME kind[j] \in Chatty PROVE ChatTold(j)'
  BY <1>3, ReadChat DEF Telling
<1>4. ASSUME kind[j] = "stream" PROVE StreamTold(j)'
  BY <1>4, ReadStream DEF Telling
<1>5. ASSUME kind[j] = "body" PROVE BodyTold(j)'
  BY <1>5, ReadBody DEF Telling
<1> QED
  BY <1>1, <1>2, <1>3, <1>4, <1>5 DEF Telling

-----------------------------------------------------------------------------
(* All of it *)

\* How a job's stream is, and how the jobs and their streams are.
Stream(j) == Closing(j) /\ Telling(j)
Streaming == Typed /\ Courses /\ \A j \in Jobs : Stream(j)

\* A stream follows its job alone.
LEMMA OthersStream ==
  ASSUME NEW j \in Jobs, NEW i \in Jobs,
         channel'[i] = channel[i], client'[i] = client[i], heard'[i] = heard[i], closed'[i] = closed[i],
         kind'[i] = kind[i], st'[i] = st[i], read'[i] = read[i], stop'[i] = stop[i],
         active' = i <=> active = i,
         Stream(i)
  PROVE  Stream(i)'
<1>1. Sealed(i)' <=> Sealed(i)
  BY DEF Sealed
<1>2. Dropped(i)' <=> Dropped(i)
  BY DEF Dropped
<1>3. Closing(i)'
  BY <1>1 DEF Closing, Stream
<1>4. Verbatim(i) => Verbatim(i)'
  BY DEF Verbatim
<1>5. ChatTold(i) => ChatTold(i)'
  BY DEF ChatTold
<1>6. StreamTold(i) => StreamTold(i)'
  BY <1>2 DEF StreamTold
<1>7. BodyTold(i) => BodyTold(i)'
  BY DEF BodyTold, BodyEnds
<1> QED
  BY <1>3, <1>4, <1>5, <1>6, <1>7 DEF Stream, Telling

\* Every stream stays as it should be when a job says something.
LEMMA SaysStreams ==
  ASSUME JobTypes, EndTypes, \A i \in Jobs : Stream(i), NEW j \in Jobs, NEW c \in Seq(Event), Says(j, c),
         OthersMind(j), \A i \in Jobs \ {j} : channel'[i] = channel[i],
         UNCHANGED <<heard, client>>,
         \/ closed' = closed
         \/ /\ client[j] = "gone" /\ kind[j] \notin {None, "summary"}
            /\ \A i \in Jobs \ {j} : closed'[i] = closed[i]
  PROVE  \A i \in Jobs : Stream(i)'
<1>1. Stream(j)'
  BY SaysCloses, SaysTells DEF Stream
<1>2. ASSUME NEW i \in Jobs, i # j PROVE Stream(i)'
  BY <1>2, OthersStream DEF OthersMind
<1> QED
  BY <1>1, <1>2

\* Nothing is said.
LEMMA SilentStreams ==
  ASSUME \A i \in Jobs : Stream(i),
         UNCHANGED <<channel, client, heard, closed, kind, st, read, stop, active>>
  PROVE  \A i \in Jobs : Stream(i)'
  BY OthersStream

\* So it does when a job is new: nothing was said of it yet.
LEMMA SubmitStreams ==
  ASSUME JobTypes, EndTypes, Courses, \A i \in Jobs : Stream(i), NEW j \in Jobs, Submit(j)
  PROVE  \A i \in Jobs : Stream(i)'
<1>1. OthersMind(j) /\ UNCHANGED <<channel, client, heard, closed, active, read>>
  BY SubmitCourse DEF Submit
<1>2. ASSUME NEW i \in Jobs, i # j PROVE Stream(i)'
  BY <1>1, <1>2, OthersStream DEF OthersMind
<1>3. /\ st[j] = "new" /\ kind[j] = None /\ read[j] = 0 /\ channel[j] = <<>> /\ heard[j] = <<>>
      /\ Closing(j)
  BY DEF Submit, Courses, Course, Place, Progress, Stream, Closing
<1>4. ~closed[j] /\ st'[j] = "queued"
  BY <1>3 DEF Closing, Submit, JobTypes
<1>5. Closing(j)'
  BY <1>1, <1>3, <1>4 DEF Closing
<1>6. Without(<<>>, LastWords) /\ Without(<<>>, Marker) /\ Without(<<>>, Broken) /\ Without(<<>>, Raw)
      /\ <<>> \o <<>> = <<>>
  BY DEF Without
<1>7. Verbatim(j)'
  BY <1>1, <1>3, <1>6, HalvesOfNone DEF Verbatim
<1>8. ChatTold(j)'
  BY <1>1, <1>3, <1>4, <1>6 DEF ChatTold, EndTold, Terminal
<1>9. StreamTold(j)'
  BY <1>1, <1>3, <1>4, <1>6 DEF StreamTold, Dropped
<1>10. BodyTold(j)'
  BY <1>1, <1>3, <1>4, <1>6 DEF BodyTold, BodyEnds
<1>11. Stream(j)'
  BY <1>5, <1>7, <1>8, <1>9, <1>10 DEF Stream, Telling
<1> QED
  BY <1>2, <1>11

\* Every step leaves every stream as it should be.
LEMMA NextStreams ==
  ASSUME JobTypes, EndTypes, Courses, \A i \in Jobs : Stream(i), [Next]_vars
  PROVE  \A i \in Jobs : Stream(i)'
<1>0. Places /\ \A i \in Jobs : Course(i)
  BY DEF Courses
<1>1. CASE Take
  <2>1. PICK j \in Jobs, c \in Seq(Event) : Says(j, c) /\ OthersHear(j) /\ OthersMind(j) /\ SameEnds
    BY <1>1, TakeSays
  <2> QED
    BY <2>1, SaysStreams DEF OthersHear, SameEnds
<1>2. ASSUME NEW j \in Jobs, Upstream(j) \/ Worker(j) PROVE \A i \in Jobs : Stream(i)'
  <2>1. PICK c \in Seq(Event) : Says(j, c) /\ OthersHear(j)
    BY <1>2, UpstreamSays, WorkerSays
  <2>2. OthersMind(j)
    BY <1>2, UpstreamCourse, WorkerCourse
  <2>3. UNCHANGED endVars
    BY <1>2 DEF Upstream, RawChunk, ChatChunk, Posted, Fail, Worker, Begin, Post, Answer, Title, Finish
  <2> QED
    BY <2>1, <2>2, <2>3, SaysStreams DEF OthersHear
<1>3. ASSUME NEW j \in Jobs, Stop(j) PROVE \A i \in Jobs : Stream(i)'
  <2>1. Cancel(j) /\ UNCHANGED endVars
    BY <1>3 DEF Stop
  <2>2. OthersMind(j)
    BY <2>1, CancelCourse
  <2> QED
    BY <2>1, <2>2, CancelSays, SaysStreams, SilentStreams
<1>4. ASSUME NEW j \in Jobs, Notice(j) PROVE \A i \in Jobs : Stream(i)'
  <2>1. /\ Cancel(j) /\ client[j] = "gone" /\ kind[j] \notin {None, "summary", "body"}
        /\ closed'[j] /\ \A i \in Jobs \ {j} : closed'[i] = closed[i]
        /\ UNCHANGED <<client, heard>>
    BY <1>4, StreamsAssumption DEF Notice, Streamed, Kinds, Chatty, EndTypes
  <2>2. OthersMind(j)
    BY <2>1, CancelCourse
  <2>3. CASE UNCHANGED <<jobVars, channel>>
    <3>1. ASSUME NEW i \in Jobs, i # j PROVE Stream(i)'
      BY <2>1, <2>3, <3>1, OthersStream
    <3>2. Closing(j)'
      BY <2>1, <2>3 DEF Stream, Closing, Sealed
    <3>3. Telling(j)'
      BY <2>1 DEF Telling
    <3> QED
      BY <3>1, <3>2, <3>3 DEF Stream
  <2> QED
    BY <2>1, <2>2, <2>3, CancelSays, SaysStreams
<1>5. ASSUME NEW j \in Jobs, Leave(j) PROVE \A i \in Jobs : Stream(i)'
  <2>1. /\ client'[j] = "gone" /\ heard'[j] = <<>> /\ UNCHANGED <<jobVars, channel, closed>>
        /\ \A i \in Jobs \ {j} : client'[i] = client[i] /\ heard'[i] = heard[i]
        /\ ~closed[j]
    BY <1>5 DEF Leave, EndTypes
  <2>2. ASSUME NEW i \in Jobs, i # j PROVE Stream(i)'
    BY <2>1, <2>2, OthersStream
  <2>3. Closing(j)'
    BY <2>1 DEF Stream, Closing, Sealed
  <2>4. Telling(j)'
    BY <2>1 DEF Telling
  <2> QED
    BY <2>2, <2>3, <2>4 DEF Stream
<1>6. ASSUME NEW j \in Jobs, Read(j) PROVE \A i \in Jobs : Stream(i)'
  <2>1. /\ UNCHANGED <<jobVars, client>>
        /\ \A i \in Jobs \ {j} : channel'[i] = channel[i] /\ heard'[i] = heard[i] /\ closed'[i] = closed[i]
    BY <1>6 DEF Read, EndTypes
  <2>2. ASSUME NEW i \in Jobs, i # j PROVE Stream(i)'
    BY <2>1, <2>2, OthersStream
  <2>3. Stream(j)'
    BY <1>0, <1>6, ReadCloses, ReadTells DEF Stream
  <2> QED
    BY <2>2, <2>3
<1>7. CASE Unload \/ Subscribe \/ Show \/ LeavePage \/ UNCHANGED vars
  BY <1>7, SilentStreams DEF Unload, Subscribe, Show, LeavePage, vars
<1> QED
  BY <1>1, <1>2, <1>3, <1>4, <1>5, <1>6, <1>7, SubmitStreams DEF Next, Response

\* At first nothing was said.
LEMMA InitStreaming == Init => Streaming
<1> SUFFICES ASSUME Init PROVE \A j \in Jobs : Stream(j)
  BY InitTyped, InitCourses DEF Streaming
<1> SUFFICES ASSUME NEW j \in Jobs PROVE Stream(j)
  OBVIOUS
<1>1. /\ channel[j] = <<>> /\ heard[j] = <<>> /\ ~closed[j] /\ kind[j] = None /\ st[j] = "new" /\ read[j] = 0
  BY DEF Init
<1>2. None \notin Kinds
  BY StreamsAssumption
<1>3. Closing(j)
  BY <1>1 DEF Closing
<1>4. Telling(j)
  BY <1>1, <1>2 DEF Telling, Verbatim, Kinds, Chatty
<1> QED
  BY <1>3, <1>4 DEF Stream

\* Every step leaves the jobs and their streams as they should be.
LEMMA NextStreaming == Streaming /\ [Next]_vars => Streaming'
<1> SUFFICES ASSUME Streaming, [Next]_vars PROVE Streaming'
  OBVIOUS
<1>1. Typed /\ JobTypes /\ EndTypes
  BY TypesInParts DEF Streaming, Typed
<1> QED
  BY <1>1, NextTyped, NextCourses, NextStreams DEF Streaming

\* What is told when all of it was read is what the property asks for.
LEMMA StreamingIsWhole == Streaming => StreamsAreWhole
<1> SUFFICES ASSUME Streaming PROVE HeardAsSent /\ BillingFactsSurvive
  BY DEF StreamsAreWhole
<1>1. JobTypes /\ EndTypes
  BY TypesInParts DEF Streaming, Typed
<1>2. BillingFactsSurvive
  BY <1>1, TotalIsSix DEF BillingFactsSurvive, Streaming, Courses, Course, Progress
<1>3. ASSUME NEW j \in Jobs, client[j] = "there"
      PROVE  /\ Verbatim(j)
             /\ CASE kind[j] \in Chatty -> ChatEnds(j)
                  [] kind[j] = "stream" -> StreamEnds(j)
                  [] OTHER -> BodyEnds(j)
  <2>1. Course(j) /\ Closing(j) /\ Telling(j)
    BY DEF Streaming, Courses, Stream
  <2>2. heard[j] \in Seq(Event) /\ heard[j] \o <<>> = heard[j]
    BY <1>1, ConcatEmptySeq DEF EndTypes
  <2>3. closed[j] /\ kind[j] # "body" => channel[j] = <<>> /\ st[j] \in Terminal
    BY <1>3, <2>1 DEF Closing, Sealed
  <2>4. ASSUME kind[j] \in Chatty PROVE ChatEnds(j)
    <3> SUFFICES ASSUME closed[j]
                 PROVE  \E i \in 1..Len(heard[j]) :
                          /\ Those(heard[j], {"done", "error", "cancelled"}) = {i}
                          /\ st[j] = IF heard[j][i].type = "done" THEN heard[j][i].state ELSE heard[j][i].type
      BY DEF ChatEnds
    <3>1. EndTold(heard[j], st[j]) /\ st[j] \in Terminal
      BY <1>3, <2>1, <2>2, <2>3, <2>4 DEF Telling, ChatTold, Chatty
    <3>2. PICK i \in 1..Len(heard[j]) : Only(i, heard[j], LastWords) /\ st[j] = EndOf(heard[j][i])
      BY <3>1 DEF EndTold
    <3>3. Those(heard[j], LastWords) = {i}
      BY <3>2 DEF Those, Only
    <3> QED
      BY <3>2, <3>3 DEF LastWords, EndOf
  <2>5. ASSUME kind[j] = "stream" PROVE StreamEnds(j)
    <3> SUFFICES ASSUME closed[j]
                 PROVE  Cardinality(Those(heard[j], Marker))
                          = IF Cut(j) \/ Whole(heard[j]) THEN 0 ELSE 1
      BY DEF StreamEnds, Marker
    <3>1. channel[j] = <<>> /\ st[j] \in Terminal /\ StreamTold(j) /\ Halves(heard[j]) = read[j]
      BY <1>3, <2>1, <2>2, <2>3, <2>5 DEF Telling, Verbatim
    <3>2. ~ Once(channel[j], Broken)
      BY <3>1 DEF Once
    <3>3. CASE st[j] = "done"
      <4>1. Whole(heard[j])
        BY <2>1, <3>1, <3>3 DEF Whole, Course, Progress
      <4>2. Without(heard[j], Marker)
        BY <3>1, <3>3 DEF StreamTold, Dropped
      <4>3. Those(heard[j], Marker) = {}
        BY <4>2 DEF Those, Without
      <4> QED
        BY <4>1, <4>3, FS_EmptySet
    <3>0. CASE Cut(j)
      <4>1. Without(heard[j], Marker)
        BY <3>0, <3>1 DEF StreamTold, Dropped, Cut
      <4>2. Those(heard[j], Marker) = {}
        BY <4>1 DEF Those, Without
      <4> QED
        BY <3>0, <4>2, FS_EmptySet
    <3>4. CASE st[j] # "done" /\ ~Cut(j)
      <4>1. st[j] = "error" \/ Dropped(j)
        BY <3>1, <3>4 DEF Dropped, Cut, Terminal
      <4>2. ~ Whole(heard[j])
        BY <1>1, <2>1, <3>1, <4>1, TotalIsSix DEF Whole, Course, Progress, JobTypes
      <4>3. Once(heard[j], Marker)
        BY <3>1, <3>2, <4>1 DEF StreamTold
      <4>4. PICK i \in 1..Len(heard[j]) : Only(i, heard[j], Marker)
        BY <4>3 DEF Once
      <4>5. Those(heard[j], Marker) = {i}
        BY <4>4 DEF Those, Only
      <4>6. Cardinality({i}) = 1
        BY FS_Singleton
      <4> QED
        BY <3>4, <4>2, <4>5, <4>6
    <3> QED
      BY <3>0, <3>3, <3>4
  <2>6. ASSUME kind[j] \notin Chatty \cup {"stream"} PROVE BodyEnds(j)
    <3>1. CASE kind[j] = "body"
      BY <1>3, <2>1, <3>1 DEF Telling, BodyTold
    <3>2. CASE kind[j] # "body"
      <4>1. ~closed[j]
        BY <1>1, <2>1, <2>6, <3>2 DEF Closing, JobTypes, Kinds
      <4> QED
        BY <4>1 DEF BodyEnds
    <3> QED
      BY <3>1, <3>2
  <2>7. Verbatim(j)
    BY <1>3, <2>1 DEF Telling
  <2> QED
    BY <2>4, <2>5, <2>6, <2>7 DEF Chatty
<1> QED
  BY <1>2, <1>3 DEF HeardAsSent

\* What upstream said reaches the client whole and once, and the meter as well, for any
\* jobs and kinds of jobs, however bytes are cut, jobs stopped and clients lost; a /v1
\* stream that is stopped while it runs is the one that gets no [DONE] of the box's.
THEOREM WhatIsSentIsHeard == Spec => []StreamsAreWhole
  BY InitStreaming, NextStreaming, StreamingIsWhole, PTL DEF Spec
=============================================================================

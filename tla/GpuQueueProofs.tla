--------------------------- MODULE GpuQueueProofs ---------------------------
(***************************************************************************)
(* What GpuQueue guarantees for every number of jobs, users and chats,     *)
(* every cap and every number of database errors and restarts: first of    *)
(* the line and of the jobs' moves through it, then of a single job, its   *)
(* stream, its bill, its chat and its Stop, and last that the queue        *)
(* implements FifoLine.                                                    *)
(***************************************************************************)
EXTENDS GpuQueue, FiniteSetTheorems, SequenceTheorems, TLAPS

-----------------------------------------------------------------------------
(* The line                                                                *)

\* What Without returns: one element fewer, the others in their order.
LEMMA WithoutShape ==
  ASSUME NEW S, NEW s \in Seq(S), NEW i \in 1..Len(s)
  PROVE  /\ Without(s, i) \in Seq(S)
         /\ Len(Without(s, i)) = Len(s) - 1
         /\ \A k \in 1..(Len(s) - 1) : Without(s, i)[k] = IF k < i THEN s[k] ELSE s[k + 1]
<1> DEFINE w == Without(s, i)
           n == Len(s) - 1
<1>1. Len(s) \in Nat /\ n \in Nat /\ \A k \in 1..Len(s) : s[k] \in S
  BY LenProperties, ElementOfSeq
<1>2. w = [k \in 1..n |-> IF k < i THEN s[k] ELSE s[k + 1]]
  BY DEF Without
<1>3. \A k \in 1..n : (IF k < i THEN s[k] ELSE s[k + 1]) \in S
  BY <1>1
<1>4. w \in [1..n -> S]
  BY <1>2, <1>3
<1>5. w \in Seq(S)
  BY <1>1, <1>4, SeqDef
<1>6. Len(w) = n
  BY <1>1, <1>4, <1>5, LenProperties
<1> QED
  BY <1>2, <1>5, <1>6

LEMMA TwoAppended ==
  ASSUME NEW S, NEW s \in Seq(S), NEW a \in S, NEW b \in S
  PROVE  /\ Append(Append(s, a), b) \in Seq(S)
         /\ Len(Append(Append(s, a), b)) = Len(s) + 2
         /\ \A i \in 1..Len(s) : Append(Append(s, a), b)[i] = s[i]
         /\ Append(Append(s, a), b)[Len(s) + 1] = a
         /\ Append(Append(s, a), b)[Len(s) + 2] = b
<1>1. /\ Append(s, a) \in Seq(S)
      /\ Len(Append(s, a)) = Len(s) + 1
      /\ \A i \in 1..Len(s) : Append(s, a)[i] = s[i]
      /\ Append(s, a)[Len(s) + 1] = a
      /\ Len(s) \in Nat
  BY AppendProperties, LenProperties
<1> QED
  BY <1>1, AppendProperties

-----------------------------------------------------------------------------
(* Types and the slot *)

\* A process that ended took its worker with it.
DownMeansStopped == service = "down" => worker = "stopped"

Basic == TypeOK /\ SlotDiscipline /\ DownMeansStopped

LEMMA BasicInit == Init => Basic
<1> SUFFICES ASSUME Init PROVE Basic
  OBVIOUS
<1>1. LineTypes
  BY EmptySeq DEF Init, LineTypes, Phase
<1>2. \A j \in Jobs : stream[j] \in Seq(Event)
  BY EmptySeq DEF Init
<1>3. JobTypes
  BY <1>2, QueueAssumption DEF Init, JobTypes, JobState
<1>4. DbTypes
  BY DEF Init, DbTypes, JobState
<1>5. CounterTypes
  BY DEF Init, CounterTypes
<1>6. SlotDiscipline /\ DownMeansStopped
  BY DEF Init, SlotDiscipline, DownMeansStopped, Running
<1> QED
  BY <1>1, <1>3, <1>4, <1>5, <1>6 DEF Basic, TypeOK

\* What one action does to the types is proved group by group.
LEMMA BasicNext == Basic /\ [Next]_vars => Basic'
<1> SUFFICES ASSUME Basic, [Next]_vars PROVE Basic'
  OBVIOUS
<1> DEFINE SlotOK == SlotDiscipline /\ DownMeansStopped
<1> USE QueueAssumption
<1> USE DEF Basic, TypeOK, DbOk, DbRaises, Persisted
<1>1. ASSUME NEW j \in Jobs, Submit(j)
      PROVE  Basic'
  <2>1. pending' \in Seq(Jobs)
    BY <1>1, AppendProperties DEF Submit, LineTypes
  <2>2. wake' \in BOOLEAN /\ arrived' \in BOOLEAN
    BY <1>1 DEF Submit, Notify, LineTypes
  <2>3. LineTypes'
    BY <1>1, <2>1, <2>2 DEF Submit, LineTypes
  <2>4. JobTypes'
    BY <1>1 DEF Submit, JobTypes, JobState
  <2>5. DbTypes'
    BY <1>1 DEF Submit, DbTypes, JobState, dbVars
  <2>6. CounterTypes'
    BY <1>1 DEF Submit, CounterTypes, serviceVars, ticketVars
  <2>7. SlotOK'
    BY <1>1 DEF Submit, LineTypes, SlotDiscipline, DownMeansStopped, Running, lineVars, syncVars, serviceVars
  <2> QED
    BY <2>1, <2>2, <2>3, <2>4, <2>5, <2>6, <2>7
<1>2. ASSUME NEW j \in Jobs, Refuse(j)
      PROVE  Basic'
  <2>1. LineTypes'
    BY <1>2 DEF Refuse, LineTypes, Phase, lineVars, syncVars
  <2>2. JobTypes'
    BY <1>2 DEF Refuse, JobTypes, JobState
  <2>3. DbTypes'
    BY <1>2 DEF Refuse, DbTypes, JobState
  <2>4. CounterTypes'
    BY <1>2 DEF Refuse, CounterTypes, serviceVars, ticketVars
  <2>5. SlotOK'
    BY <1>2 DEF Refuse, LineTypes, SlotDiscipline, DownMeansStopped, Running, lineVars, syncVars, serviceVars
  <2> QED
    BY <2>1, <2>2, <2>3, <2>4, <2>5
<1>3. ASSUME NEW j \in Jobs, DropQueued(j), deleting' \in Chats \cup {NoChat}
      PROVE  Basic'
  <2>1. pending' \in Seq(Jobs)
    BY <1>3, WithoutShape DEF DropQueued, LineTypes
  <2>2. stream' \in [Jobs -> Seq(Event)]
    BY <1>3, TwoAppended DEF DropQueued, JobTypes, Event
  <2>3. LineTypes'
    BY <1>3, <2>1 DEF DropQueued, LineTypes, syncVars
  <2>4. JobTypes'
    BY <1>3, <2>2 DEF DropQueued, JobTypes, JobState
  <2>5. DbTypes'
    BY <1>3 DEF DropQueued, DbTypes, JobState
  <2>6. CounterTypes'
    BY <1>3 DEF DropQueued, CounterTypes, serviceVars, ticketVars
  <2>7. SlotOK'
    BY <1>3 DEF DropQueued, LineTypes, SlotDiscipline, DownMeansStopped, Running, lineVars, syncVars, serviceVars
  <2> QED
    BY <2>1, <2>2, <2>3, <2>4, <2>5, <2>6, <2>7
<1>4. ASSUME NEW j \in Jobs, SetStop(j), UNCHANGED deleting
      PROVE  Basic'
  <2>1. LineTypes'
    BY <1>4 DEF SetStop, LineTypes, Phase, lineVars, syncVars
  <2>2. JobTypes'
    BY <1>4 DEF SetStop, JobTypes, jobVars
  <2>3. DbTypes'
    BY <1>4 DEF SetStop, DbTypes, dbVars
  <2>4. CounterTypes'
    BY <1>4 DEF SetStop, CounterTypes, serviceVars, ticketVars
  <2>5. SlotOK'
    BY <1>4 DEF SetStop, LineTypes, SlotDiscipline, DownMeansStopped, Running, lineVars, syncVars, serviceVars
  <2> QED
    BY <2>1, <2>2, <2>3, <2>4, <2>5
<1>5. ASSUME NEW c \in Chats, DeleteBegin(c)
      PROVE  Basic'
  <2>1. LineTypes'
    BY <1>5 DEF DeleteBegin, LineTypes, Phase, lineVars, syncVars
  <2>2. JobTypes'
    BY <1>5 DEF DeleteBegin, JobTypes, jobVars
  <2>3. DbTypes'
    BY <1>5 DEF DeleteBegin, DbTypes, dbVars
  <2>4. CounterTypes'
    BY <1>5 DEF DeleteBegin, CounterTypes, serviceVars, ticketVars
  <2>5. SlotOK'
    BY <1>5 DEF DeleteBegin, LineTypes, SlotDiscipline, DownMeansStopped, Running, lineVars, syncVars, serviceVars
  <2> QED
    BY <2>1, <2>2, <2>3, <2>4, <2>5
<1>6. ASSUME DeleteEnd
      PROVE  Basic'
  <2>1. LineTypes'
    BY <1>6 DEF DeleteEnd, LineTypes, Phase, lineVars, syncVars
  <2>2. JobTypes'
    BY <1>6 DEF DeleteEnd, JobTypes, jobVars
  <2>3. DbTypes'
    BY <1>6 DEF DeleteEnd, DbTypes, dbVars
  <2>4. CounterTypes'
    BY <1>6 DEF DeleteEnd, CounterTypes, serviceVars, ticketVars
  <2>5. SlotOK'
    BY <1>6 DEF DeleteEnd, LineTypes, SlotDiscipline, DownMeansStopped, Running, lineVars, syncVars, serviceVars
  <2> QED
    BY <2>1, <2>2, <2>3, <2>4, <2>5
<1>7. ASSUME Awake, TakeHead
      PROVE  Basic'
  <2>1. pending[1] \in Jobs /\ pending' \in Seq(Jobs)
    BY <1>7, EmptySeq, ElementOfSeq, WithoutShape DEF TakeHead, Turn, LineTypes
  <2>2. LineTypes'
    BY <1>7, <2>1 DEF TakeHead, Turn, LineTypes, Phase
  <2>3. JobTypes'
    BY <1>7, <2>1 DEF TakeHead, Turn, JobTypes
  <2>4. DbTypes'
    BY <1>7 DEF TakeHead, DbTypes, dbVars
  <2>5. CounterTypes'
    BY <1>7 DEF TakeHead, CounterTypes, serviceVars, ticketVars
  <2>6. SlotOK'
    BY <1>7, <2>1 DEF Awake, TakeHead, Turn, LineTypes, SlotDiscipline, DownMeansStopped, Running, serviceVars
  <2> QED
    BY <2>1, <2>2, <2>3, <2>4, <2>5, <2>6
<1>8. ASSUME NEW st \in JobState, NEW s \in Seq(Event), NEW p \in {"ready", "stopped"},
             worker \in Running, Finally(st, s, p), sampling' \subseteq Jobs,
             service' \in {"up", "stopping"}
      PROVE  Basic'
  <2>1. active \in Jobs
    BY <1>8 DEF LineTypes, SlotDiscipline
  <2>2. stream' \in [Jobs -> Seq(Event)]
    BY <1>8, <2>1, AppendProperties DEF Finally, JobTypes, Event
  <2>3. LineTypes'
    BY <1>8 DEF Finally, LineTypes, Phase
  <2>4. JobTypes'
    BY <1>8, <2>1, <2>2 DEF Finally, JobTypes
  <2>5. row' \in [Jobs -> JobState]
    BY <1>8, <2>1 DEF Finally, DbTypes
  <2>6. replies' \subseteq Jobs
    BY <1>8, <2>1 DEF Finally, DbTypes
  <2>7. DbTypes'
    BY <1>8, <2>1, <2>5, <2>6 DEF Finally, Charge, DbTypes
  <2>8. CounterTypes'
    BY <1>8 DEF Finally, CounterTypes, ticketVars
  <2>9. SlotOK'
    BY <1>8 DEF Finally, SlotDiscipline, DownMeansStopped, Running
  <2> QED
    BY <2>1, <2>2, <2>3, <2>4, <2>5, <2>6, <2>7, <2>8, <2>9
<1>9. ASSUME LoopTop \/ WakeUp \/ SlotGranted, ~TakeHead
      PROVE  Basic'
  <2>1. LineTypes'
    BY <1>9 DEF Awake, LoopTop, WakeUp, SlotGranted, LineTypes, Phase, lineVars, syncVars
  <2>2. JobTypes'
    BY <1>9 DEF Awake, LoopTop, WakeUp, SlotGranted, JobTypes, jobVars
  <2>3. DbTypes'
    BY <1>9 DEF Awake, LoopTop, WakeUp, SlotGranted, DbTypes, dbVars
  <2>4. CounterTypes'
    BY <1>9 DEF Awake, LoopTop, WakeUp, SlotGranted, CounterTypes, serviceVars, ticketVars
  <2>5. SlotOK'
    BY <1>9 DEF Awake, LoopTop, WakeUp, SlotGranted, LineTypes, SlotDiscipline, DownMeansStopped, Running, lineVars, syncVars, serviceVars
  <2> QED
    BY <2>1, <2>2, <2>3, <2>4, <2>5
<1>10. ASSUME AnswerLoaded
      PROVE  Basic'
  <2>1. LineTypes'
    BY <1>10 DEF Awake, AnswerLoaded, LineTypes, Phase, lineVars, syncVars
  <2>2. JobTypes'
    BY <1>10 DEF AnswerLoaded, JobTypes, JobState
  <2>3. DbTypes'
    BY <1>10 DEF Awake, AnswerLoaded, DbTypes, dbVars
  <2>4. CounterTypes'
    BY <1>10 DEF Awake, AnswerLoaded, CounterTypes, serviceVars, ticketVars
  <2>5. SlotOK'
    BY <1>10 DEF Awake, AnswerLoaded, LineTypes, SlotDiscipline, DownMeansStopped, Running, lineVars, syncVars, serviceVars
  <2> QED
    BY <2>1, <2>2, <2>3, <2>4, <2>5
<1>11. ASSUME Output
      PROVE  Basic'
  <2>1. active \in Jobs
    BY <1>11 DEF Output, LineTypes, SlotDiscipline, Running
  <2>2. wrote' \in [Jobs -> {"nothing", "thinking", "answer"}]
    BY <1>11, <2>1 DEF Output, JobTypes
  <2>3. state' \in [Jobs -> JobState]
    BY <1>11, <2>1 DEF Output, JobTypes, JobState
  <2>4. LineTypes'
    BY <1>11 DEF Awake, Output, LineTypes, Phase, lineVars, syncVars
  <2>5. JobTypes'
    BY <1>11, <2>1, <2>2, <2>3 DEF Output, JobTypes
  <2>6. DbTypes'
    BY <1>11 DEF Awake, Output, DbTypes, dbVars
  <2>7. CounterTypes'
    BY <1>11 DEF Awake, Output, CounterTypes, serviceVars, ticketVars
  <2>8. SlotOK'
    BY <1>11 DEF Awake, Output, LineTypes, SlotDiscipline, DownMeansStopped, Running, lineVars, syncVars, serviceVars
  <2> QED
    BY <2>1, <2>2, <2>3, <2>4, <2>5, <2>6, <2>7, <2>8
<1>12. ASSUME Awake, worker = "pumping", AfterPump
      PROVE  Basic'
  <2>1. state' \in [Jobs -> JobState]
    BY <1>12 DEF AfterPump, Outcome, JobTypes, JobState
  <2>2. stream' \in [Jobs -> Seq(Event)]
    BY <1>12, AppendProperties DEF AfterPump, JobTypes, Event
  <2>3. LineTypes'
    BY <1>12 DEF Awake, AfterPump, LineTypes, Phase, lineVars, syncVars
  <2>4. JobTypes'
    BY <1>12, <2>1, <2>2 DEF AfterPump, JobTypes
  <2>5. DbTypes'
    BY <1>12 DEF Awake, AfterPump, DbTypes, dbVars
  <2>6. CounterTypes'
    BY <1>12 DEF Awake, AfterPump, CounterTypes, serviceVars, ticketVars
  <2>7. SlotOK'
    BY <1>12 DEF Awake, AfterPump, LineTypes, SlotDiscipline, DownMeansStopped, Running, lineVars, syncVars, serviceVars
  <2> QED
    BY <2>1, <2>2, <2>3, <2>4, <2>5, <2>6, <2>7
<1>13. ASSUME RunFails
      PROVE  Basic'
  <2>1. active \in Jobs /\ stream[active] \in Seq(Event)
    BY <1>13 DEF RunFails, LineTypes, JobTypes, SlotDiscipline, Running
  <2>2. Append(stream[active], "error") \in Seq(Event)
    BY <2>1, AppendProperties DEF Event
  <2>3. Basic'
    BY <1>8, <1>13, <2>2 DEF RunFails, Awake, Running, JobState, JobTypes, CounterTypes
  <2> QED
    BY <2>1, <2>2, <2>3
<1>14. ASSUME NameChat
      PROVE  Basic'
  <2>1. active # NoJob /\ active \in Jobs
    BY <1>14 DEF NameChat, LineTypes, SlotDiscipline, Running
  <2>2. stream' \in [Jobs -> Seq(Event)]
    <3>1. Append(stream[active], "title") \in Seq(Event)
      BY <2>1, AppendProperties DEF JobTypes, Event
    <3> QED
      BY <1>14, <2>1, <3>1 DEF NameChat, JobTypes
  <2>3. named' \subseteq Chats
    BY <1>14, <2>1 DEF NameChat, JobTypes, DbTypes
  <2>4. LineTypes'
    BY <1>14 DEF NameChat, LineTypes, Phase, lineVars
  <2>5. JobTypes'
    BY <1>14, <2>2 DEF NameChat, JobTypes
  <2>6. DbTypes'
    BY <1>14, <2>3 DEF NameChat, DbTypes
  <2>7. CounterTypes'
    BY <1>14 DEF NameChat, CounterTypes, serviceVars, ticketVars
  <2>8. SlotOK'
    BY <1>14 DEF NameChat, Awake, LineTypes, SlotDiscipline, DownMeansStopped, Running, lineVars, serviceVars
  <2> QED
    BY <2>1, <2>2, <2>3, <2>4, <2>5, <2>6, <2>7, <2>8
<1>15. ASSUME TitleRaises
      PROVE  Basic'
  <2>1. active \in Jobs /\ stream[active] \in Seq(Event)
    BY <1>15 DEF TitleRaises, LineTypes, JobTypes, SlotDiscipline, Running
  <2>2. Append(stream[active], "error") \in Seq(Event)
    BY <2>1, AppendProperties DEF Event
  <2>3. Basic'
    BY <1>8, <1>15, <2>2 DEF TitleRaises, Awake, Running, JobState, JobTypes, CounterTypes
  <2> QED
    BY <2>1, <2>2, <2>3
<1>16. ASSUME Settle
      PROVE  Basic'
  <2>1. active \in Jobs /\ stream[active] \in Seq(Event) /\ state[active] \in JobState
    BY <1>16 DEF Settle, LineTypes, JobTypes, SlotDiscipline, Running
  <2>2. Basic'
    BY <1>8, <1>16, <2>1 DEF Settle, Awake, Running, JobTypes, CounterTypes
  <2> QED
    BY <2>1, <2>2
<1>17. ASSUME TouchBegin
      PROVE  Basic'
  <2>1. LineTypes'
    BY <1>17 DEF Awake, TouchBegin, LineTypes, Phase, lineVars, syncVars
  <2>2. JobTypes'
    BY <1>17 DEF Awake, TouchBegin, JobTypes, jobVars
  <2>3. DbTypes'
    BY <1>17 DEF Awake, TouchBegin, DbTypes, dbVars
  <2>4. CounterTypes'
    BY <1>17 DEF Awake, TouchBegin, CounterTypes, serviceVars, ticketVars
  <2>5. SlotOK'
    BY <1>17 DEF Awake, TouchBegin, LineTypes, SlotDiscipline, DownMeansStopped, Running, lineVars, syncVars, serviceVars
  <2> QED
    BY <2>1, <2>2, <2>3, <2>4, <2>5
<1>18. ASSUME NEW kind \in {"preload", "keepalive"}, TouchEnd(kind)
      PROVE  Basic'
  <2>1. LineTypes'
    BY <1>18 DEF Awake, TouchEnd, LineTypes, Phase, lineVars, syncVars
  <2>2. JobTypes'
    BY <1>18 DEF Awake, TouchEnd, JobTypes, jobVars
  <2>3. DbTypes'
    BY <1>18 DEF Awake, TouchEnd, DbTypes, dbVars
  <2>4. CounterTypes'
    BY <1>18 DEF Awake, TouchEnd, CounterTypes, serviceVars, ticketVars
  <2>5. SlotOK'
    BY <1>18 DEF Awake, TouchEnd, LineTypes, SlotDiscipline, DownMeansStopped, Running, lineVars, syncVars, serviceVars
  <2> QED
    BY <2>1, <2>2, <2>3, <2>4, <2>5
<1>19. ASSUME StopService, worker \in {"ready", "asleep", "waiting"}
      PROVE  Basic'
  <2>1. LineTypes'
    BY <1>19 DEF Free, StopService, LineTypes, Phase, lineVars, syncVars
  <2>2. JobTypes'
    BY <1>19 DEF Free, StopService, JobTypes, jobVars
  <2>3. DbTypes'
    BY <1>19 DEF Free, StopService, DbTypes, dbVars
  <2>4. CounterTypes'
    BY <1>19 DEF Free, StopService, CounterTypes, serviceVars, ticketVars
  <2>5. SlotOK'
    BY <1>19 DEF Free, StopService, LineTypes, SlotDiscipline, DownMeansStopped, Running, lineVars, syncVars, serviceVars
  <2> QED
    BY <2>1, <2>2, <2>3, <2>4, <2>5
<1>20. ASSUME StopService, worker \in {"asking", "pumping", "naming"}
      PROVE  Basic'
  <2>1. active \in Jobs /\ stream[active] \in Seq(Event) /\ state[active] \in JobState
    BY <1>20 DEF LineTypes, JobTypes, SlotDiscipline, Running
  <2>2. Finally(state[active], stream[active], "stopped") /\ sampling' = sampling /\ service' = "stopping"
    BY <1>20 DEF StopService
  <2>3. Basic'
    BY <1>8, <1>20, <2>1, <2>2 DEF Running, JobTypes
  <2> QED
    BY <2>1, <2>2, <2>3
<1>21. ASSUME StopService, worker = "settling"
      PROVE  Basic'
  <2>1. LineTypes'
    BY <1>21 DEF Free, StopService, LineTypes, Phase, lineVars, syncVars
  <2>2. JobTypes'
    BY <1>21 DEF Free, StopService, JobTypes, jobVars
  <2>3. DbTypes'
    BY <1>21 DEF Free, StopService, DbTypes, dbVars
  <2>4. CounterTypes'
    BY <1>21 DEF Free, StopService, CounterTypes, serviceVars, ticketVars
  <2>5. SlotOK'
    BY <1>21 DEF Free, StopService, LineTypes, SlotDiscipline, DownMeansStopped, Running, lineVars, syncVars, serviceVars
  <2> QED
    BY <2>1, <2>2, <2>3, <2>4, <2>5
<1>22. ASSUME Vanish
      PROVE  Basic'
  <2>1. InLine \subseteq Jobs
    BY ElementOfSeq DEF InLine, LineTypes
  <2>2. LineTypes'
    BY EmptySeq, <1>22 DEF Vanish, LineTypes, Phase
  <2>3. JobTypes'
    BY <1>22 DEF Vanish, JobTypes, jobVars
  <2>4. DbTypes'
    BY <1>22 DEF Vanish, DbTypes, dbVars
  <2>5. CounterTypes'
    BY <1>22, <2>1 DEF Vanish, CounterTypes, LineTypes, ticketVars
  <2>6. SlotOK'
    BY <1>22 DEF Vanish, LineTypes, SlotDiscipline, DownMeansStopped, Running, lineVars, syncVars, serviceVars
  <2> QED
    BY <2>1, <2>2, <2>3, <2>4, <2>5, <2>6
<1>23. ASSUME StartService
      PROVE  Basic'
  <2>1. LineTypes'
    BY <1>23 DEF StartService, LineTypes, Phase, lineVars, syncVars
  <2>2. JobTypes'
    BY <1>23 DEF StartService, JobTypes, jobVars
  <2>3. DbTypes'
    BY <1>23 DEF StartService, DbTypes, dbVars
  <2>4. CounterTypes'
    BY <1>23 DEF StartService, CounterTypes, serviceVars, ticketVars
  <2>5. SlotOK'
    BY <1>23 DEF StartService, LineTypes, SlotDiscipline, DownMeansStopped, Running, lineVars, syncVars, serviceVars
  <2> QED
    BY <2>1, <2>2, <2>3, <2>4, <2>5
<1>24. ASSUME UNCHANGED vars
      PROVE  Basic'
  <2>1. LineTypes'
    BY <1>24 DEF vars, LineTypes, Phase, lineVars, syncVars
  <2>2. JobTypes'
    BY <1>24 DEF vars, JobTypes, jobVars
  <2>3. DbTypes'
    BY <1>24 DEF vars, DbTypes, dbVars
  <2>4. CounterTypes'
    BY <1>24 DEF vars, CounterTypes, serviceVars, ticketVars
  <2>5. SlotOK'
    BY <1>24 DEF vars, LineTypes, SlotDiscipline, DownMeansStopped, Running, lineVars, syncVars, serviceVars
  <2> QED
    BY <2>1, <2>2, <2>3, <2>4, <2>5
<1>25. ASSUME StopService PROVE Basic'
  BY <1>25, <1>19, <1>20, <1>21 DEF StopService
<1>26. CASE Handlers
  <2>1. ASSUME NEW j \in Jobs, SetStop(j) \/ DropQueued(j), UNCHANGED deleting PROVE Basic'
    BY <1>3, <1>4, <2>1 DEF DbTypes
  <2>2. ASSUME DeleteDrop PROVE Basic'
    <3>1. PICK j \in Jobs : DropQueued(j) /\ deleting' \in {deleting, NoChat}
      BY <2>2, ElementOfSeq DEF DeleteDrop, WaitingIn, InLine, LineTypes
    <3> QED
      BY <1>3, <3>1 DEF DbTypes
  <2> QED
    BY <1>1, <1>2, <1>5, <1>6, <1>26, <2>1, <2>2 DEF Handlers, Cancel, Kill
<1>27. CASE WorkerStep
  <2>1. ASSUME LoopTop \/ WakeUp \/ SlotGranted PROVE Basic'
    BY <1>7, <1>9, <2>1 DEF LoopTop, WakeUp, SlotGranted
  <2>2. ASSUME PumpDrained \/ StopNoticed PROVE Basic'
    BY <1>12, <2>2 DEF PumpDrained, StopNoticed
  <2> QED
    BY <1>10, <1>11, <1>13, <1>14, <1>15, <1>16, <1>27, <2>1, <2>2 DEF WorkerStep
<1>28. CASE TouchStep
  BY <1>17, <1>18, <1>28 DEF TouchStep, PreloadEnd, KeepaliveEnd, PreloadYield
<1>29. CASE ServiceStep
  BY <1>22, <1>23, <1>25, <1>29 DEF ServiceStep, Exit, Crash
<1> QED
  BY <1>24, <1>26, <1>27, <1>28, <1>29 DEF Next

\* The types, and "exactly one inference runs at a time".
THEOREM TypeCorrect == Spec => []TypeOK
<1>1. Spec => []Basic
  BY BasicInit, BasicNext, PTL DEF Spec
<1> QED
  BY <1>1, PTL DEF Basic

\* The worker is inside a job exactly while the slot is its own.
THEOREM OneAtATime == Spec => []SlotDiscipline
<1>1. Spec => []Basic
  BY BasicInit, BasicNext, PTL DEF Spec
<1> QED
  BY <1>1, PTL DEF Basic

-----------------------------------------------------------------------------
(* What a step does to the line *)

\* A step that neither moves a job nor ends one ...
QuietLine ==
  /\ UNCHANGED <<pending, active, picked, ended, charged, lost, ticket, tickets>>
  /\ \A j \in Jobs : state'[j] # state[j] =>
       \/ j = active /\ state'[j] # "none" /\ (state'[j] = "done" => ~stop[j])
       \/ state[j] = "none" /\ state'[j] = "limit_exceeded"
  /\ \A j \in Jobs : stream'[j] # stream[j] =>
       j = active /\ \E e \in Event \ {"close"} : stream'[j] = Append(stream[j], e)

\* ... leaves the rows of what is in the line, and does not go to sleep or
\* start a preload on a line that is not empty ...
QuietEvents ==
  /\ \A j \in Jobs : row'[j] # row[j] => state[j] = "none" /\ state'[j] # "none"
  /\ worker' = "asleep" => pending = <<>> \/ (worker = "asleep" /\ wake' = wake)
  /\ slot' = "preload" => pending = <<>> \/ (slot = "preload" /\ arrived' = arrived)

\* ... and writes a title at most, unless it deletes a chat.
QuietChats ==
  \/ /\ UNCHANGED <<chats, chat, replies>>
     /\ \/ UNCHANGED named
        \/ /\ active \in Jobs /\ chat[active] # NoChat
           /\ named' = named \cup {chat[active]}
  \/ DeleteEnd

Quiet == QuietLine /\ QuietEvents /\ QuietChats

\* The job in the slot ends: in its own state, or in an error it is told of.
Ending ==
  /\ active \in Jobs
  /\ \E p \in {"ready", "stopped"} :
       \/ Finally(state[active], stream[active], p)
       \/ Finally("error", Append(stream[active], "error"), p)

LEMMA Moves ==
  ASSUME Basic, [Next]_vars
  PROVE  \/ \E j \in Jobs : Submit(j) \/ DropQueued(j)
         \/ TakeHead
         \/ Ending
         \/ Vanish
         \/ Quiet
<1> USE DEF Basic, TypeOK, LineTypes, JobTypes, SlotDiscipline, Running
<1>1. ASSUME NEW j \in Jobs, Refuse(j) PROVE Quiet
  <2>1. QuietLine
    BY <1>1 DEF Refuse, Persisted, QuietLine, lineVars, syncVars, jobVars, dbVars, serviceVars, ticketVars
  <2>2. QuietEvents
    BY <1>1 DEF Refuse, Persisted, QuietEvents, DbTypes, syncVars
  <2>3. QuietChats
    BY <1>1 DEF Refuse, Persisted, QuietChats, lineVars, syncVars, jobVars, dbVars, serviceVars, ticketVars
  <2> QED
    BY <2>1, <2>2, <2>3 DEF Quiet
<1>2. ASSUME NEW j \in Jobs, SetStop(j) PROVE Quiet
  <2>1. QuietLine
    BY <1>2 DEF SetStop, QuietLine, lineVars, syncVars, jobVars, dbVars, serviceVars, ticketVars
  <2>2. QuietEvents
    BY <1>2 DEF SetStop, QuietEvents, lineVars, syncVars, jobVars, dbVars, serviceVars, ticketVars
  <2>3. QuietChats
    BY <1>2 DEF SetStop, QuietChats, lineVars, syncVars, jobVars, dbVars, serviceVars, ticketVars
  <2> QED
    BY <2>1, <2>2, <2>3 DEF Quiet
<1>3. ASSUME NEW c \in Chats, DeleteBegin(c) PROVE Quiet
  <2>1. QuietLine
    BY <1>3 DEF DeleteBegin, QuietLine, lineVars, syncVars, jobVars, dbVars, serviceVars, ticketVars
  <2>2. QuietEvents
    BY <1>3 DEF DeleteBegin, QuietEvents, lineVars, syncVars, jobVars, dbVars, serviceVars, ticketVars
  <2>3. QuietChats
    BY <1>3 DEF DeleteBegin, QuietChats, lineVars, syncVars, jobVars, dbVars, serviceVars, ticketVars
  <2> QED
    BY <2>1, <2>2, <2>3 DEF Quiet
<1>4. ASSUME DeleteEnd PROVE Quiet
  <2>1. QuietLine
    BY <1>4 DEF DeleteEnd, QuietLine, lineVars, syncVars, jobVars, dbVars, serviceVars, ticketVars
  <2>2. QuietEvents
    BY <1>4 DEF DeleteEnd, QuietEvents, lineVars, syncVars, jobVars, dbVars, serviceVars, ticketVars
  <2>3. QuietChats
    BY <1>4 DEF QuietChats
  <2> QED
    BY <2>1, <2>2, <2>3 DEF Quiet
<1>5. ASSUME DeleteDrop PROVE \E j \in Jobs : DropQueued(j)
  BY <1>5, ElementOfSeq DEF DeleteDrop, WaitingIn, InLine
<1>6. ASSUME LoopTop \/ WakeUp \/ SlotGranted, ~TakeHead PROVE Quiet
  <2>1. QuietLine
    BY <1>6 DEF LoopTop, WakeUp, SlotGranted, QuietLine, lineVars, syncVars, jobVars, dbVars, serviceVars, ticketVars
  <2>2. QuietEvents
    <3>1. row' = row
      BY <1>6 DEF LoopTop, WakeUp, SlotGranted, dbVars
    <3>2. worker' = "asleep" => pending = <<>> \/ (worker = "asleep" /\ wake' = wake)
      <4>1. CASE LoopTop
        BY <1>6, <4>1 DEF LoopTop
      <4>2. CASE WakeUp \/ SlotGranted
        BY <1>6, <4>2 DEF WakeUp, SlotGranted
      <4> QED
        BY <1>6, <4>1, <4>2
    <3>3. slot' = "preload" => pending = <<>> \/ (slot = "preload" /\ arrived' = arrived)
      BY <1>6 DEF LoopTop, WakeUp, SlotGranted
    <3> QED
      BY <3>1, <3>2, <3>3 DEF QuietEvents
  <2>3. QuietChats
    BY <1>6 DEF LoopTop, WakeUp, SlotGranted, QuietChats, lineVars, syncVars, jobVars, dbVars, serviceVars, ticketVars
  <2> QED
    BY <2>1, <2>2, <2>3 DEF Quiet
<1>7. ASSUME AnswerLoaded PROVE Quiet
  <2>1. QuietLine
    BY <1>7 DEF AnswerLoaded, QuietLine, lineVars, syncVars, jobVars, dbVars, serviceVars, ticketVars
  <2>2. QuietEvents
    BY <1>7 DEF AnswerLoaded, QuietEvents, lineVars, syncVars, jobVars, dbVars, serviceVars, ticketVars
  <2>3. QuietChats
    BY <1>7 DEF AnswerLoaded, QuietChats, lineVars, syncVars, jobVars, dbVars, serviceVars, ticketVars
  <2> QED
    BY <2>1, <2>2, <2>3 DEF Quiet
<1>8. ASSUME Output PROVE Quiet
  <2>1. QuietLine
    BY <1>8 DEF Output, QuietLine, lineVars, syncVars, jobVars, dbVars, serviceVars, ticketVars
  <2>2. QuietEvents
    BY <1>8 DEF Output, QuietEvents, lineVars, syncVars, jobVars, dbVars, serviceVars, ticketVars
  <2>3. QuietChats
    BY <1>8 DEF Output, QuietChats, lineVars, syncVars, jobVars, dbVars, serviceVars, ticketVars
  <2> QED
    BY <2>1, <2>2, <2>3 DEF Quiet
<1>9. ASSUME PumpDrained \/ StopNoticed PROVE Quiet
  <2>1. QuietLine
    <3>1. active \in Jobs
      BY <1>9 DEF PumpDrained, StopNoticed
    <3>2. \E e \in Event \ {"close"} :
            stream' = [stream EXCEPT ![active] = Append(stream[active], e)]
      BY <1>9 DEF PumpDrained, StopNoticed, AfterPump, Event
    <3>3. /\ state' = [state EXCEPT ![active] = Outcome(active)]
          /\ Outcome(active) # "none" /\ (Outcome(active) = "done" => ~stop[active])
      BY <1>9 DEF PumpDrained, StopNoticed, AfterPump, Outcome
    <3>4. UNCHANGED <<pending, active, picked, ended, charged, lost, ticket, tickets>>
      BY <1>9 DEF PumpDrained, StopNoticed, AfterPump, lineVars, dbVars, serviceVars, ticketVars
    <3> QED
      BY <3>1, <3>2, <3>3, <3>4 DEF QuietLine
  <2>2. QuietEvents
    BY <1>9 DEF PumpDrained, StopNoticed, AfterPump, QuietEvents, lineVars, syncVars, jobVars, dbVars, serviceVars, ticketVars
  <2>3. QuietChats
    BY <1>9 DEF PumpDrained, StopNoticed, AfterPump, QuietChats, lineVars, syncVars, jobVars, dbVars, serviceVars, ticketVars
  <2> QED
    BY <2>1, <2>2, <2>3 DEF Quiet
<1>10. ASSUME NameChat PROVE Quiet
  <2>1. QuietLine
    <3>1. UNCHANGED <<pending, active, picked, ended, charged, lost, ticket, tickets, state>>
      BY <1>10 DEF NameChat, lineVars, serviceVars, ticketVars
    <3>2. \/ stream' = stream
          \/ /\ active \in Jobs /\ "title" \in Event \ {"close"}
             /\ stream' = [stream EXCEPT ![active] = Append(stream[active], "title")]
      BY <1>10 DEF NameChat, Event, Running
    <3> QED
      BY <3>1, <3>2 DEF QuietLine
  <2>2. QuietEvents
    BY <1>10 DEF NameChat, Event, QuietEvents, lineVars, syncVars, jobVars, dbVars, serviceVars, ticketVars
  <2>3. QuietChats
    BY <1>10 DEF NameChat, Event, QuietChats, lineVars, syncVars, jobVars, dbVars, serviceVars, ticketVars
  <2> QED
    BY <2>1, <2>2, <2>3 DEF Quiet
<1>11. ASSUME RunFails \/ TitleRaises \/ Settle PROVE Ending
  BY <1>11 DEF RunFails, TitleRaises, Settle, Ending
<1>12. ASSUME TouchStep PROVE Quiet
  <2>1. QuietLine
    BY <1>12 DEF TouchStep, TouchBegin, PreloadEnd, KeepaliveEnd, PreloadYield, TouchEnd, QuietLine, lineVars, syncVars, jobVars, dbVars, serviceVars, ticketVars
  <2>2. QuietEvents
    <3>1. row' = row
      BY <1>12 DEF TouchStep, TouchBegin, PreloadEnd, KeepaliveEnd, PreloadYield, TouchEnd, dbVars
    <3>2. worker' = "asleep" => pending = <<>> \/ (worker = "asleep" /\ wake' = wake)
      BY <1>12 DEF TouchStep, TouchBegin, PreloadEnd, KeepaliveEnd, PreloadYield, TouchEnd
    <3>3. slot' = "preload" => pending = <<>> \/ (slot = "preload" /\ arrived' = arrived)
      <4>1. CASE TouchBegin
        BY <4>1 DEF TouchBegin
      <4>2. CASE PreloadEnd \/ KeepaliveEnd \/ PreloadYield
        BY <4>2 DEF PreloadEnd, KeepaliveEnd, PreloadYield, TouchEnd
      <4> QED
        BY <1>12, <4>1, <4>2 DEF TouchStep
    <3> QED
      BY <3>1, <3>2, <3>3 DEF QuietEvents
  <2>3. QuietChats
    BY <1>12 DEF TouchStep, TouchBegin, PreloadEnd, KeepaliveEnd, PreloadYield, TouchEnd, QuietChats, lineVars, syncVars, jobVars, dbVars, serviceVars, ticketVars
  <2> QED
    BY <2>1, <2>2, <2>3 DEF Quiet
<1>13. ASSUME StopService, ~Ending PROVE Quiet
  <2>1. QuietLine
    BY <1>13 DEF StopService, Ending, QuietLine, lineVars, syncVars, jobVars, dbVars, serviceVars, ticketVars
  <2>2. QuietEvents
    BY <1>13 DEF StopService, Ending, QuietEvents, lineVars, syncVars, jobVars, dbVars, serviceVars, ticketVars
  <2>3. QuietChats
    BY <1>13 DEF StopService, Ending, QuietChats, lineVars, syncVars, jobVars, dbVars, serviceVars, ticketVars
  <2> QED
    BY <2>1, <2>2, <2>3 DEF Quiet
<1>14. ASSUME StartService PROVE Quiet
  <2>1. QuietLine
    BY <1>14 DEF StartService, QuietLine, lineVars, syncVars, jobVars, dbVars, serviceVars, ticketVars
  <2>2. QuietEvents
    BY <1>14 DEF StartService, QuietEvents, lineVars, syncVars, jobVars, dbVars, serviceVars, ticketVars
  <2>3. QuietChats
    BY <1>14 DEF StartService, QuietChats, lineVars, syncVars, jobVars, dbVars, serviceVars, ticketVars
  <2> QED
    BY <2>1, <2>2, <2>3 DEF Quiet
<1>15. ASSUME UNCHANGED vars PROVE Quiet
  <2>1. QuietLine
    BY <1>15 DEF vars, QuietLine, lineVars, syncVars, jobVars, dbVars, serviceVars, ticketVars
  <2>2. QuietEvents
    BY <1>15 DEF vars, QuietEvents, lineVars, syncVars, jobVars, dbVars, serviceVars, ticketVars
  <2>3. QuietChats
    BY <1>15 DEF vars, QuietChats, lineVars, syncVars, jobVars, dbVars, serviceVars, ticketVars
  <2> QED
    BY <2>1, <2>2, <2>3 DEF Quiet
<1>16. CASE Handlers
  BY <1>1, <1>2, <1>3, <1>4, <1>5, <1>16 DEF Handlers, Cancel, Kill
<1>17. CASE WorkerStep
  BY <1>6, <1>7, <1>8, <1>9, <1>10, <1>11, <1>17 DEF WorkerStep
<1>18. CASE ServiceStep
  BY <1>13, <1>14, <1>18 DEF ServiceStep, Exit, Crash
<1> QED
  BY <1>12, <1>15, <1>16, <1>17, <1>18 DEF Next

-----------------------------------------------------------------------------
(* The order of the line *)

\* What the line and the slot know of a job.
Known ==
  /\ \A i \in 1..Len(pending) : state[pending[i]] # "none" /\ ticket[pending[i]] <= tickets
  /\ \A j \in picked : state[j] # "none" /\ ticket[j] <= tickets
  /\ \A j \in Jobs : ended[j] => state[j] # "none"
  /\ active # NoJob => active \in picked

LostKnown == \A j \in lost : state[j] # "none"

Ordered == Known /\ LostKnown /\ FifoOrder /\ EveryJobAccounted

\* The line holds no job twice, so taking one element out takes the job out.
LEMMA LeavingTheLine ==
  ASSUME pending \in Seq(Jobs), FifoOrder, NEW i \in 1..Len(pending),
         ticket \in [Jobs -> Nat], pending' = Without(pending, i)
  PROVE  InLine' = InLine \ {pending[i]}
<1>1. /\ Len(pending) \in Nat
      /\ \A k \in 1..Len(pending) : pending[k] \in Jobs
  BY LenProperties, ElementOfSeq
<1>2. /\ Len(pending') = Len(pending) - 1
      /\ \A k \in 1..(Len(pending) - 1) :
           pending'[k] = IF k < i THEN pending[k] ELSE pending[k + 1]
  BY WithoutShape
<1>3. \A k, l \in 1..Len(pending) : k # l => pending[k] # pending[l]
  BY <1>1 DEF FifoOrder
<1>4. ASSUME NEW k \in 1..Len(pending') PROVE pending'[k] \in InLine \ {pending[i]}
  <2>1. CASE k < i
    <3>1. k \in 1..Len(pending) /\ k # i /\ pending'[k] = pending[k]
      BY <1>1, <1>2, <1>4, <2>1
    <3> QED
      BY <1>3, <3>1 DEF InLine
  <2>2. CASE ~(k < i)
    <3>1. k + 1 \in 1..Len(pending) /\ k + 1 # i /\ pending'[k] = pending[k + 1]
      BY <1>1, <1>2, <1>4, <2>2
    <3> QED
      BY <1>3, <3>1 DEF InLine
  <2> QED
    BY <2>1, <2>2
<1>5. ASSUME NEW k \in 1..Len(pending), k # i PROVE pending[k] \in InLine'
  <2>1. \E l \in 1..Len(pending') : pending[k] = pending'[l]
    <3>1. CASE k < i
      <4>1. k \in 1..Len(pending') /\ pending'[k] = pending[k]
        BY <1>1, <1>2, <3>1
      <4> QED
        BY <4>1
    <3>2. CASE k > i
      <4>1. k - 1 \in 1..Len(pending') /\ pending'[k - 1] = pending[k]
        BY <1>1, <1>2, <3>2
      <4> QED
        BY <4>1
    <3> QED
      BY <1>1, <1>5, <3>1, <3>2
  <2> QED
    BY <2>1 DEF InLine
<1>6. InLine' \subseteq InLine \ {pending[i]}
  BY <1>4 DEF InLine
<1>7. InLine \ {pending[i]} \subseteq InLine'
  <2> SUFFICES ASSUME NEW p \in InLine, p # pending[i] PROVE p \in InLine'
    OBVIOUS
  <2>1. PICK k \in 1..Len(pending) : p = pending[k]
    BY DEF InLine
  <2> QED
    BY <1>5, <2>1
<1> QED
  BY <1>6, <1>7

LEMMA JoiningTheLine ==
  ASSUME pending \in Seq(Jobs), NEW j \in Jobs, pending' = Append(pending, j)
  PROVE  /\ InLine' = InLine \cup {j}
         /\ Len(pending') = Len(pending) + 1
         /\ \A k \in 1..Len(pending) : pending'[k] = pending[k]
         /\ pending'[Len(pending) + 1] = j
<1>1. /\ Len(pending) \in Nat
      /\ Len(pending') = Len(pending) + 1
      /\ \A k \in 1..Len(pending) : pending'[k] = pending[k]
      /\ pending'[Len(pending) + 1] = j
  BY LenProperties, AppendProperties
<1> QED
  BY <1>1 DEF InLine

\* The others keep their order when one job leaves the line.
LEMMA OrderSurvivesLeaving ==
  ASSUME pending \in Seq(Jobs), FifoOrder, NEW i \in 1..Len(pending),
         picked \subseteq Jobs, ticket \in [Jobs -> Nat],
         pending' = Without(pending, i), ticket' = ticket
  PROVE  /\ \A k, l \in 1..Len(pending') : k < l => ticket'[pending'[k]] < ticket'[pending'[l]]
         /\ \A k \in 1..Len(pending') : \E l \in 1..Len(pending) :
              pending'[k] = pending[l] /\ (i = 1 => l > 1)
<1>1. /\ Len(pending) \in Nat
      /\ Len(pending') = Len(pending) - 1
      /\ \A k \in 1..(Len(pending) - 1) :
           pending'[k] = IF k < i THEN pending[k] ELSE pending[k + 1]
  BY WithoutShape, LenProperties
<1> DEFINE from == [k \in 1..Len(pending') |-> IF k < i THEN k ELSE k + 1]
<1>2. \A k \in 1..Len(pending') :
        /\ from[k] \in 1..Len(pending)
        /\ pending'[k] = pending[from[k]]
        /\ (i = 1 => from[k] > 1)
  BY <1>1
<1>3. \A k, l \in 1..Len(pending') : k < l => from[k] < from[l]
  BY <1>1
<1> HIDE DEF from
<1>4. ASSUME NEW k \in 1..Len(pending'), NEW l \in 1..Len(pending'), k < l
      PROVE  ticket'[pending'[k]] < ticket'[pending'[l]]
  <2>1. /\ from[k] \in 1..Len(pending) /\ from[l] \in 1..Len(pending)
        /\ from[k] < from[l]
        /\ pending'[k] = pending[from[k]] /\ pending'[l] = pending[from[l]]
    BY <1>2, <1>3, <1>4
  <2> QED
    BY <2>1 DEF FifoOrder
<1>5. ASSUME NEW k \in 1..Len(pending')
      PROVE  \E l \in 1..Len(pending) : pending'[k] = pending[l] /\ (i = 1 => l > 1)
  <2>1. from[k] \in 1..Len(pending) /\ pending'[k] = pending[from[k]] /\ (i = 1 => from[k] > 1)
    BY <1>2
  <2> QED
    BY <2>1
<1> QED
  BY <1>4, <1>5

LEMMA OrderedInit == Init => Ordered
  BY EmptySeq DEF Init, Ordered, Known, LostKnown, FifoOrder, EveryJobAccounted, InLine

LEMMA OrderedNext == Basic /\ Basic' /\ Ordered /\ [Next]_vars => Ordered'
<1> SUFFICES ASSUME Basic, Basic', Ordered, [Next]_vars PROVE Ordered'
  OBVIOUS
<1>a. /\ pending \in Seq(Jobs) /\ pending' \in Seq(Jobs)
      /\ state \in [Jobs -> JobState] /\ ended \in [Jobs -> BOOLEAN]
      /\ ticket \in [Jobs -> Nat] /\ tickets \in Nat
      /\ picked \subseteq Jobs /\ lost \subseteq Jobs /\ active \in Jobs \cup {NoJob} /\ NoJob \notin Jobs
  BY QueueAssumption DEF Basic, TypeOK, LineTypes, JobTypes, CounterTypes
<1>b. Known /\ LostKnown /\ FifoOrder /\ EveryJobAccounted
  BY DEF Ordered
<1>0. /\ Len(pending) \in Nat /\ Len(pending') \in Nat
      /\ \A k \in 1..Len(pending) : pending[k] \in Jobs
      /\ \A j \in InLine : \E k \in 1..Len(pending) : j = pending[k]
      /\ \A k \in 1..Len(pending) : pending[k] \in InLine
      /\ InLine \subseteq Jobs
  BY <1>a, LenProperties, ElementOfSeq DEF InLine
<1>1. ASSUME NEW j \in Jobs, Submit(j) PROVE Ordered'
  <2>1. /\ state[j] = "none" /\ state' = [state EXCEPT ![j] = "queued"]
        /\ ticket' = [ticket EXCEPT ![j] = tickets + 1] /\ tickets' = tickets + 1
        /\ UNCHANGED <<active, picked, ended, lost>>
    BY <1>1 DEF Submit, serviceVars
  <2>2. /\ InLine' = InLine \cup {j}
        /\ Len(pending') = Len(pending) + 1
        /\ \A k \in 1..Len(pending) : pending'[k] = pending[k]
        /\ pending'[Len(pending) + 1] = j
    BY <1>a, <1>1, JoiningTheLine DEF Submit
  <2>3. j \notin picked /\ \A k \in 1..Len(pending) : pending[k] # j
    BY <1>b, <2>1 DEF Known
  <2>4. /\ ticket'[j] = tickets + 1 /\ state'[j] = "queued"
        /\ tickets' = tickets + 1 /\ picked' = picked
        /\ \A k \in 1..Len(pending) :
             /\ ticket'[pending[k]] = ticket[pending[k]] /\ ticket[pending[k]] \in Nat
             /\ state'[pending[k]] = state[pending[k]]
        /\ \A p \in picked :
             /\ ticket'[p] = ticket[p] /\ ticket[p] \in Nat
             /\ state'[p] = state[p]
    BY <1>a, <1>0, <2>1, <2>3
  <2>5. \A k \in 1..Len(pending') :
          \/ k = Len(pending) + 1 /\ pending'[k] = j
          \/ k \in 1..Len(pending) /\ pending'[k] = pending[k]
    BY <1>0, <2>2
  <2>6. Known'
    <3>1. \A k \in 1..Len(pending') : state'[pending'[k]] # "none" /\ ticket'[pending'[k]] <= tickets'
      <4> TAKE k \in 1..Len(pending')
      <4>1. CASE pending'[k] = j
        BY <1>a, <2>4, <4>1
      <4>2. CASE k \in 1..Len(pending) /\ pending'[k] = pending[k]
        BY <1>a, <1>b, <2>4, <4>2 DEF Known
      <4> QED
        BY <2>5, <4>1, <4>2
    <3>2. \A p \in picked' : state'[p] # "none" /\ ticket'[p] <= tickets'
      BY <1>a, <1>b, <2>1, <2>4 DEF Known
    <3>3. \A p \in Jobs : ended'[p] => state'[p] # "none"
      BY <1>a, <1>b, <2>1 DEF Known
    <3> QED
      BY <1>b, <2>1, <3>1, <3>2, <3>3 DEF Known
  <2>7. FifoOrder'
    <3>1. \A i, k \in 1..Len(pending') : i < k => ticket'[pending'[i]] < ticket'[pending'[k]]
      <4> TAKE i, k \in 1..Len(pending')
      <4>1. CASE k \in 1..Len(pending) /\ pending'[k] = pending[k]
        BY <1>b, <1>0, <2>4, <2>5, <4>1 DEF FifoOrder
      <4>2. CASE k = Len(pending) + 1 /\ pending'[k] = j
        <5> HAVE i < k
        <5>1. i \in 1..Len(pending) /\ pending'[i] = pending[i]
          BY <1>0, <2>5, <4>2
        <5>2. ticket[pending[i]] <= tickets
          BY <1>b, <5>1 DEF Known
        <5>3. ticket'[pending[i]] = ticket[pending[i]] /\ ticket[pending[i]] \in Nat
          BY <2>4, <5>1
        <5>4. ticket'[pending'[k]] = tickets + 1
          BY <2>4, <4>2
        <5>5. ticket'[pending'[i]] = ticket[pending[i]]
          BY <5>1, <5>3
        <5>6. tickets \in Nat
          BY <1>a
        <5>7. ticket[pending[i]] < tickets + 1
          BY <5>2, <5>3, <5>6
        <5> QED
          BY <5>4, <5>5, <5>7
      <4>3. (k = Len(pending) + 1 /\ pending'[k] = j) \/ (k \in 1..Len(pending) /\ pending'[k] = pending[k])
        BY <2>5
      <4> QED
        BY <4>1, <4>2, <4>3
    <3>2. \A p \in picked', i \in 1..Len(pending') : ticket'[p] < ticket'[pending'[i]]
      <4> TAKE p \in picked', i \in 1..Len(pending')
      <4>1. CASE i \in 1..Len(pending) /\ pending'[i] = pending[i]
        BY <1>b, <2>4, <4>1 DEF FifoOrder
      <4>2. CASE pending'[i] = j
        BY <1>a, <1>b, <2>4, <4>2 DEF Known
      <4> QED
        BY <2>5, <4>1, <4>2
    <3> QED
      BY <3>1, <3>2 DEF FifoOrder
  <2>8. EveryJobAccounted'
    BY <1>a, <1>b, <2>1, <2>2 DEF EveryJobAccounted, Known
  <2>9. LostKnown'
    BY <1>a, <1>b, <2>1 DEF LostKnown
  <2> QED
    BY <2>6, <2>7, <2>8, <2>9 DEF Ordered
<1>2. ASSUME NEW j \in Jobs, DropQueued(j) PROVE Ordered'
  <2>1. PICK i \in 1..Len(pending) : pending[i] = j /\ pending' = Without(pending, i)
    BY <1>2 DEF DropQueued
  <2>2. /\ state' = [state EXCEPT ![j] = "cancelled"]
        /\ ended' = [ended EXCEPT ![j] = TRUE]
        /\ UNCHANGED <<active, picked, lost, ticket, tickets>>
    BY <1>2 DEF DropQueued, serviceVars, ticketVars
  <2>3. InLine' = InLine \ {j}
    BY <1>a, <1>b, <2>1, LeavingTheLine
  <2>4. /\ \A k, l \in 1..Len(pending') : k < l => ticket'[pending'[k]] < ticket'[pending'[l]]
        /\ \A k \in 1..Len(pending') : \E l \in 1..Len(pending) : pending'[k] = pending[l]
    BY <1>a, <1>b, <2>1, <2>2, OrderSurvivesLeaving
  <2>5. Known'
    <3>1. \A p \in Jobs : state[p] # "none" => state'[p] # "none"
      BY <1>a, <2>2
    <3>2. state'[j] # "none" /\ \A p \in Jobs : p # j => ended'[p] = ended[p]
      BY <1>a, <2>2
    <3>3. active' = active /\ picked' = picked /\ ticket' = ticket /\ tickets' = tickets
      BY <2>2
    <3>4. ASSUME NEW k \in 1..Len(pending')
          PROVE  state'[pending'[k]] # "none" /\ ticket'[pending'[k]] <= tickets'
      <4>1. PICK l \in 1..Len(pending) : pending'[k] = pending[l]
        BY <2>4
      <4>2. pending[l] \in Jobs
        BY <1>a
      <4>3. state[pending[l]] # "none" /\ ticket[pending[l]] <= tickets
        BY <1>b DEF Known
      <4> QED
        BY <3>1, <3>3, <4>1, <4>2, <4>3
    <3>5. \A p \in picked' : state'[p] # "none" /\ ticket'[p] <= tickets'
      BY <1>a, <1>b, <3>1, <3>3 DEF Known
    <3>6. \A p \in Jobs : ended'[p] => state'[p] # "none"
      BY <1>b, <3>1, <3>2 DEF Known
    <3> QED
      BY <1>b, <3>3, <3>4, <3>5, <3>6 DEF Known
  <2>6. FifoOrder'
    BY <1>a, <1>b, <2>2, <2>4 DEF FifoOrder
  <2>7. j # active
    BY <1>a, <1>b, <2>1 DEF FifoOrder, Known
  <2>8. EveryJobAccounted'
    BY <1>a, <1>b, <2>2, <2>3, <2>7 DEF EveryJobAccounted
  <2>9. LostKnown'
    BY <1>a, <1>b, <2>2 DEF LostKnown
  <2> QED
    BY <2>5, <2>6, <2>8, <2>9 DEF Ordered
<1>3. ASSUME TakeHead PROVE Ordered'
  <2>1. /\ 1 \in 1..Len(pending) /\ pending' = Without(pending, 1)
        /\ active' = pending[1] /\ picked' = picked \cup {pending[1]}
        /\ UNCHANGED <<state, ended, lost, ticket, tickets>>
    BY <1>a, <1>b, <1>0, <1>3, EmptySeq DEF TakeHead, Turn, serviceVars, ticketVars
  <2>2. InLine' = InLine \ {pending[1]}
    BY <1>a, <1>b, <2>1, LeavingTheLine
  <2>3. /\ \A k, l \in 1..Len(pending') : k < l => ticket'[pending'[k]] < ticket'[pending'[l]]
        /\ \A k \in 1..Len(pending') :
             \E l \in 1..Len(pending) : pending'[k] = pending[l] /\ (1 = 1 => l > 1)
    BY <1>a, <1>b, <2>1, OrderSurvivesLeaving
  <2>4. Known'
    <3>1. \A k \in 1..Len(pending') : state'[pending'[k]] # "none" /\ ticket'[pending'[k]] <= tickets'
      BY <1>b, <2>1, <2>3 DEF Known
    <3>2. \A p \in picked' : state'[p] # "none" /\ ticket'[p] <= tickets'
      BY <1>b, <2>1 DEF Known
    <3> QED
      BY <1>b, <2>1, <3>1, <3>2 DEF Known
  <2>5. FifoOrder'
    <3>1. ASSUME NEW p \in picked', NEW k \in 1..Len(pending')
          PROVE  ticket'[p] < ticket'[pending'[k]]
      <4>1. PICK l \in 1..Len(pending) : pending'[k] = pending[l] /\ l > 1
        BY <2>3
      <4>2. CASE p \in picked
        BY <1>b, <2>1, <4>1, <4>2 DEF FifoOrder
      <4>3. CASE p = pending[1]
        BY <1>b, <2>1, <4>1, <4>3 DEF FifoOrder
      <4> QED
        BY <2>1, <4>2, <4>3
    <3> QED
      BY <2>3, <3>1 DEF FifoOrder
  <2>6. EveryJobAccounted'
    <3>1. active = NoJob
      BY <1>3 DEF TakeHead, Basic, SlotDiscipline
    <3>2. ~ended[pending[1]]
      BY <1>a, <1>b, <1>0, <2>1 DEF EveryJobAccounted
    <3> QED
      BY <1>a, <1>b, <1>0, <2>1, <2>2, <3>1, <3>2 DEF EveryJobAccounted
  <2>9. LostKnown'
    BY <1>a, <1>b, <2>1 DEF LostKnown
  <2> QED
    BY <2>4, <2>5, <2>6, <2>9 DEF Ordered
<1>4. ASSUME Ending PROVE Ordered'
  <2>1. /\ active \in Jobs /\ active' = NoJob
        /\ \E st \in {state[active], "error"} : state' = [state EXCEPT ![active] = st]
        /\ ended' = [ended EXCEPT ![active] = TRUE]
        /\ UNCHANGED <<pending, picked, lost, ticket, tickets>>
    BY <1>4 DEF Ending, Finally, ticketVars
  <2>2. active \notin InLine /\ InLine' = InLine
    <3>1. active \in picked
      BY <1>a, <1>b, <2>1 DEF Known
    <3>2. \A i \in 1..Len(pending) : ticket[active] < ticket[pending[i]]
      BY <1>b, <3>1 DEF FifoOrder
    <3>3. \A i \in 1..Len(pending) : active # pending[i]
      BY <1>a, <2>1, <3>2
    <3> QED
      BY <2>1, <3>3 DEF InLine
  <2>3. state[active] # "none"
    BY <1>a, <1>b, <2>1 DEF Known
  <2>4. Known' /\ FifoOrder'
    <3>1. \A p \in Jobs : state[p] # "none" => state'[p] # "none"
      BY <1>a, <2>1, <2>3
    <3>2. \A i \in 1..Len(pending) : pending[i] \in Jobs
      BY <1>a
    <3>3. \A i \in 1..Len(pending') : state'[pending'[i]] # "none" /\ ticket'[pending'[i]] <= tickets'
      BY <1>b, <2>1, <3>1, <3>2 DEF Known
    <3>4. \A p \in picked' : state'[p] # "none" /\ ticket'[p] <= tickets'
      BY <1>a, <1>b, <2>1, <3>1 DEF Known
    <3>5. \A p \in Jobs : ended'[p] => state'[p] # "none"
      BY <1>a, <1>b, <2>1, <2>3, <3>1 DEF Known
    <3>6. active' # NoJob => active' \in picked'
      BY <2>1
    <3>7. FifoOrder'
      BY <1>b, <2>1 DEF FifoOrder
    <3> QED
      BY <3>3, <3>4, <3>5, <3>6, <3>7 DEF Known
  <2>5. EveryJobAccounted'
    BY <1>a, <1>b, <2>1, <2>2 DEF EveryJobAccounted
  <2>9. LostKnown'
    BY <1>a, <1>b, <2>1, <2>3 DEF LostKnown
  <2> QED
    BY <2>4, <2>5, <2>9 DEF Ordered
<1>5. ASSUME Vanish PROVE Ordered'
  <2>1. /\ pending' = <<>> /\ active' = NoJob
        /\ lost' = lost \cup InLine \cup ({active} \ {NoJob})
        /\ UNCHANGED <<state, picked, ended, ticket, tickets>>
    BY <1>5 DEF Vanish, ticketVars
  <2>2. InLine' = {} /\ Len(pending') = 0
    BY <2>1, EmptySeq DEF InLine
  <2>3. Known' /\ FifoOrder'
    BY <1>a, <1>b, <2>1, <2>2 DEF Known, FifoOrder
  <2>4. EveryJobAccounted'
    BY <1>a, <1>b, <2>1, <2>2 DEF EveryJobAccounted
  <2>9. LostKnown'
    BY <1>a, <1>b, <1>0, <2>1 DEF LostKnown, Known
  <2> QED
    BY <2>3, <2>4, <2>9 DEF Ordered
<1>6. ASSUME Quiet PROVE Ordered'
  <2>1. /\ UNCHANGED <<pending, active, picked, ended, lost, ticket, tickets>>
        /\ InLine' = InLine
    BY <1>6 DEF Quiet, QuietLine, InLine
  <2>2. \A j \in Jobs : state[j] # "none" => state'[j] # "none"
    BY <1>6 DEF Quiet, QuietLine
  <2>3. Known' /\ FifoOrder'
    BY <1>a, <1>b, <1>0, <2>1, <2>2 DEF Known, FifoOrder
  <2>4. \A j \in Jobs : state'[j] \notin {"none", "limit_exceeded"} =>
          j = active \/ state[j] = state'[j]
    BY <1>6 DEF Quiet, QuietLine
  <2>5. EveryJobAccounted'
    BY <1>a, <1>b, <2>1, <2>4 DEF EveryJobAccounted
  <2>9. LostKnown'
    BY <1>a, <1>b, <2>1, <2>2 DEF LostKnown
  <2> QED
    BY <2>3, <2>5, <2>9 DEF Ordered
<1> QED
  BY <1>1, <1>2, <1>3, <1>4, <1>5, <1>6, Moves

LEMMA Invariants == Spec => [](Basic /\ Ordered)
<1>1. Init => Basic /\ Ordered
  BY BasicInit, OrderedInit
<1>2. Basic /\ Ordered /\ [Next]_vars => (Basic /\ Ordered)'
  BY BasicNext, OrderedNext
<1> QED
  BY <1>1, <1>2, PTL DEF Spec

\* "Strict global FIFO": the line is in order of arrival, and whatever was
\* taken from it arrived before everything still in it.
THEOREM StrictFifo == Spec => []FifoOrder
<1>1. Basic /\ Ordered => FifoOrder
  BY DEF Ordered
<1> QED
  BY <1>1, Invariants, PTL

\* The line is strictly first come, first served, and one job has the slot.
THEOREM LineAndSlot == Spec => []QueueDiscipline
  BY StrictFifo, OneAtATime, PTL DEF QueueDiscipline

\* No job falls between the line, the slot and its end.
THEOREM NoJobIsForgotten == Spec => []EveryJobAccounted
<1>1. Basic /\ Ordered => EveryJobAccounted
  BY DEF Ordered
<1> QED
  BY <1>1, Invariants, PTL

-----------------------------------------------------------------------------
(* What each move needs to know *)

LEMMA MoveFacts ==
  ASSUME Basic, Basic', Ordered
  PROVE  /\ NoJob \notin Jobs /\ active \in Jobs \cup {NoJob} /\ InLine \subseteq Jobs
         /\ state \in [Jobs -> JobState] /\ row \in [Jobs -> JobState]
         /\ ended \in [Jobs -> BOOLEAN] /\ stream \in [Jobs -> Seq(Event)]
         /\ picked \subseteq Jobs /\ lost \subseteq Jobs
         /\ \A j \in InLine : j \notin picked /\ j # active /\ ~ended[j] /\ state[j] # "none"
         /\ active # NoJob => active \in picked /\ ~ended[active] /\ state[active] # "none"
         /\ \A j \in Jobs : Submit(j) => InLine' = InLine \cup {j}
         /\ \A j \in Jobs : DropQueued(j) => j \in InLine /\ InLine' = InLine \ {j}
         /\ TakeHead => pending[1] \in InLine /\ InLine' = InLine \ {pending[1]}
         /\ Vanish => InLine' = {}
         /\ pending = <<>> => InLine = {}
<1>1. /\ NoJob \notin Jobs /\ active \in Jobs \cup {NoJob}
      /\ state \in [Jobs -> JobState] /\ row \in [Jobs -> JobState]
      /\ ended \in [Jobs -> BOOLEAN] /\ stream \in [Jobs -> Seq(Event)]
      /\ picked \subseteq Jobs /\ lost \subseteq Jobs
      /\ pending \in Seq(Jobs) /\ ticket \in [Jobs -> Nat]
  BY QueueAssumption DEF Basic, TypeOK, LineTypes, JobTypes, DbTypes, CounterTypes
<1>2. /\ Len(pending) \in Nat
      /\ \A k \in 1..Len(pending) : pending[k] \in Jobs
      /\ \A j \in InLine : \E k \in 1..Len(pending) : j = pending[k]
      /\ \A k \in 1..Len(pending) : pending[k] \in InLine
      /\ InLine \subseteq Jobs
  BY <1>1, LenProperties, ElementOfSeq DEF InLine
<1>3. Known /\ FifoOrder /\ EveryJobAccounted
  BY DEF Ordered
<1>4. \A j \in InLine : j \notin picked /\ ~ended[j] /\ state[j] # "none"
  BY <1>1, <1>2, <1>3 DEF Known, FifoOrder, EveryJobAccounted
<1>5. active # NoJob => active \in picked /\ ~ended[active] /\ state[active] # "none"
  BY <1>1, <1>3 DEF Known, EveryJobAccounted
<1>6. \A j \in Jobs : Submit(j) => InLine' = InLine \cup {j}
  BY <1>1, JoiningTheLine DEF Submit
<1>7. ASSUME NEW j \in Jobs, DropQueued(j) PROVE j \in InLine /\ InLine' = InLine \ {j}
  <2>1. PICK i \in 1..Len(pending) : pending[i] = j /\ pending' = Without(pending, i)
    BY <1>7 DEF DropQueued
  <2> QED
    BY <1>1, <1>2, <1>3, <2>1, LeavingTheLine
<1>8. ASSUME TakeHead PROVE pending[1] \in InLine /\ InLine' = InLine \ {pending[1]}
  <2>1. 1 \in 1..Len(pending) /\ pending' = Without(pending, 1)
    BY <1>1, <1>2, <1>8, EmptySeq DEF TakeHead, Turn
  <2> QED
    BY <1>1, <1>2, <1>3, <2>1, LeavingTheLine
<1>9. (Vanish => InLine' = {}) /\ (pending = <<>> => InLine = {})
  BY EmptySeq DEF Vanish, InLine
<1> QED
  BY <1>1, <1>2, <1>4, <1>5, <1>6, <1>7, <1>8, <1>9

-----------------------------------------------------------------------------
(* Wake-ups *)

\* Only a submitted or refused job has a row.
RowKnown == \A j \in Jobs : row[j] # "none" => state[j] # "none"

Woken == RowKnown /\ NoLostWakeup /\ NoLostArrival

LEMMA WokenNext == Basic /\ Basic' /\ Ordered /\ Woken /\ [Next]_vars => Woken'
<1> SUFFICES ASSUME Basic, Basic', Ordered, Woken, [Next]_vars PROVE Woken'
  OBVIOUS
<1>a. RowKnown /\ NoLostWakeup /\ NoLostArrival
  BY DEF Woken
<1> DEFINE Told == \E j \in InLine : row[j] # "none"
<1>b. /\ NoLostWakeup <=> (worker = "asleep" /\ Told => wake)
      /\ NoLostArrival <=> (slot = "preload" /\ Told => arrived)
      /\ NoLostWakeup' <=> (worker' = "asleep" /\ Told' => wake')
      /\ NoLostArrival' <=> (slot' = "preload" /\ Told' => arrived')
  BY DEF NoLostWakeup, NoLostArrival
<1>1. ASSUME NEW j \in Jobs, Submit(j) PROVE Woken'
  <2>1. /\ state[j] = "none" /\ state' = [state EXCEPT ![j] = "queued"]
        /\ InLine' = InLine \cup {j}
        /\ UNCHANGED <<worker, slot>>
        /\ \/ row' = [row EXCEPT ![j] = "queued"] /\ wake' = TRUE /\ arrived' = TRUE
           \/ row' = row /\ wake' = wake /\ arrived' = arrived
    BY <1>1, MoveFacts DEF Submit, Persisted, Notify
  <2>2. RowKnown'
    BY <1>a, <2>1, MoveFacts DEF RowKnown
  <2>3. CASE wake' = TRUE /\ arrived' = TRUE
    BY <1>b, <2>2, <2>3 DEF Woken
  <2>4. CASE row' = row /\ wake' = wake /\ arrived' = arrived
    <3>1. Told' => Told
      BY <1>a, <2>1, <2>4 DEF RowKnown
    <3> QED
      BY <1>a, <1>b, <2>1, <2>2, <2>4, <3>1 DEF Woken
  <2> QED
    BY <2>1, <2>3, <2>4
<1>2. ASSUME NEW j \in Jobs, DropQueued(j) PROVE Woken'
  <2>1. /\ InLine' = InLine \ {j}
        /\ UNCHANGED <<worker, slot, wake, arrived>>
        /\ state' = [state EXCEPT ![j] = "cancelled"]
        /\ row' = row \/ row' = [row EXCEPT ![j] = "cancelled"]
    BY <1>2, MoveFacts DEF DropQueued, Persisted, syncVars
  <2>2. RowKnown'
    BY <1>a, <2>1, MoveFacts DEF RowKnown
  <2>3. Told' => Told
    BY <2>1, MoveFacts
  <2> QED
    BY <1>a, <1>b, <2>1, <2>2, <2>3 DEF Woken
<1>3. ASSUME TakeHead PROVE Woken'
  <2>1. slot' = "worker" /\ worker' = "asking" /\ UNCHANGED <<row, state>>
    BY <1>3 DEF TakeHead, dbVars
  <2> QED
    BY <1>a, <1>b, <2>1 DEF Woken, RowKnown
<1>4. ASSUME Ending PROVE Woken'
  <2>1. /\ slot' = "free" /\ worker' \in {"ready", "stopped"} /\ active \in Jobs
        /\ \E st \in {state[active], "error"} :
             /\ state' = [state EXCEPT ![active] = st]
             /\ row' = row \/ row' = [row EXCEPT ![active] = st]
    BY <1>4 DEF Ending, Finally, Persisted
  <2>2. RowKnown'
    BY <1>a, <2>1, MoveFacts DEF RowKnown
  <2> QED
    BY <1>b, <2>1, <2>2 DEF Woken
<1>5. ASSUME Vanish PROVE Woken'
  <2>1. InLine' = {} /\ UNCHANGED <<row, state>>
    BY <1>5, MoveFacts DEF Vanish, dbVars
  <2> QED
    BY <1>a, <1>b, <2>1 DEF Woken, RowKnown
<1>6. ASSUME Quiet PROVE Woken'
  <2>1. /\ InLine' = InLine
        /\ \A j \in Jobs : row'[j] # row[j] => state[j] = "none" /\ state'[j] # "none"
        /\ \A j \in Jobs : state[j] # "none" => state'[j] # "none"
        /\ worker' = "asleep" => pending = <<>> \/ (worker = "asleep" /\ wake' = wake)
        /\ slot' = "preload" => pending = <<>> \/ (slot = "preload" /\ arrived' = arrived)
    BY <1>6 DEF Quiet, QuietLine, QuietEvents, InLine
  <2>2. RowKnown'
    BY <1>a, <2>1 DEF RowKnown
  <2>3. (Told' => Told) /\ (pending = <<>> => ~Told')
    BY <2>1, MoveFacts
  <2> QED
    BY <1>a, <1>b, <2>1, <2>2, <2>3 DEF Woken
<1> QED
  BY <1>1, <1>2, <1>3, <1>4, <1>5, <1>6, Moves

LEMMA WokenInvariant == Spec => []Woken
<1>1. Init => Woken
  BY DEF Init, Woken, RowKnown, NoLostWakeup, NoLostArrival
<1>2. Basic /\ Basic' /\ Ordered /\ Woken /\ [Next]_vars => Woken'
  BY WokenNext
<1> QED
  BY <1>1, <1>2, Invariants, PTL DEF Spec

\* A worker asleep has been woken if a submission that went through waits.
THEOREM NoWakeupIsLost == Spec => []NoLostWakeup
<1>1. Woken => NoLostWakeup
  BY DEF Woken
<1> QED
  BY <1>1, WokenInvariant, PTL

\* A preload in progress knows of every submission that went through.
THEOREM NoArrivalIsLost == Spec => []NoLostArrival
<1>1. Woken => NoLostArrival
  BY DEF Woken
<1> QED
  BY <1>1, WokenInvariant, PTL

\* Worker and preload hear of every submission that went through.
THEOREM SubmissionsGetThrough == Spec => []SubmissionsAreHeard
  BY NoWakeupIsLost, NoArrivalIsLost, PTL DEF SubmissionsAreHeard

-----------------------------------------------------------------------------
(* The bill *)

LEMMA ChargedNext ==
  Basic /\ Basic' /\ Ordered /\ ChargedIffTaken /\ [Next]_vars => ChargedIffTaken'
<1> SUFFICES ASSUME Basic, Basic', Ordered, ChargedIffTaken, [Next]_vars
             PROVE  ChargedIffTaken'
  OBVIOUS
<1> USE DEF ChargedIffTaken
<1>1. ASSUME NEW j \in Jobs, Submit(j) PROVE ChargedIffTaken'
  BY <1>1 DEF Submit
<1>2. ASSUME NEW j \in Jobs, DropQueued(j) PROVE ChargedIffTaken'
  <2>1. j \notin picked /\ ended' = [ended EXCEPT ![j] = TRUE] /\ UNCHANGED <<picked, charged>>
    BY <1>2, MoveFacts DEF DropQueued
  <2> QED
    BY <2>1, MoveFacts
<1>3. ASSUME TakeHead PROVE ChargedIffTaken'
  <2>1. /\ ~ended[pending[1]] /\ picked' = picked \cup {pending[1]}
        /\ UNCHANGED <<ended, charged>>
    BY <1>3, MoveFacts DEF TakeHead, Turn, dbVars
  <2> QED
    BY <2>1
<1>4. ASSUME Ending PROVE ChargedIffTaken'
  <2>1. /\ active \in picked /\ charged' = charged \cup {active}
        /\ ended' = [ended EXCEPT ![active] = TRUE] /\ picked' = picked
    BY <1>4, MoveFacts DEF Ending, Finally, Charge
  <2> QED
    BY <2>1, MoveFacts
<1>5. ASSUME Vanish PROVE ChargedIffTaken'
  BY <1>5 DEF Vanish, dbVars
<1>6. ASSUME Quiet PROVE ChargedIffTaken'
  BY <1>6 DEF Quiet, QuietLine
<1> QED
  BY <1>1, <1>2, <1>3, <1>4, <1>5, <1>6, Moves

\* "Queue waiting time -> never charged": billing sees a job if and only if
\* the worker took it.
THEOREM WaitingIsFree == Spec => []ChargedIffTaken
<1>1. Init => ChargedIffTaken
  BY DEF Init, ChargedIffTaken
<1> QED
  BY <1>1, ChargedNext, Invariants, PTL DEF Spec

-----------------------------------------------------------------------------
(* The stream *)

LEMMA OneMoreEvent ==
  ASSUME NEW s \in Seq(Event), \A i \in 1..Len(s) : s[i] # "close",
         NEW e \in Event, e # "close"
  PROVE  /\ Append(s, e) \in Seq(Event)
         /\ \A i \in 1..Len(Append(s, e)) : Append(s, e)[i] # "close"
<1>1. /\ Append(s, e) \in Seq(Event) /\ Len(s) \in Nat
      /\ Len(Append(s, e)) = Len(s) + 1
      /\ \A i \in 1..Len(s) : Append(s, e)[i] = s[i]
      /\ Append(s, e)[Len(s) + 1] = e
  BY AppendProperties, LenProperties
<1> QED
  BY <1>1

LEMMA ClosingEvent ==
  ASSUME NEW s \in Seq(Event), \A i \in 1..Len(s) : s[i] # "close",
         NEW t, t = Append(s, "close")
  PROVE  /\ \A i \in 1..Len(t) : t[i] = "close" => i = Len(t)
         /\ t # <<>> /\ t[Len(t)] = "close"
<1>1. /\ Len(s) \in Nat
      /\ Len(t) = Len(s) + 1 /\ t # <<>>
      /\ \A i \in 1..Len(s) : t[i] = s[i]
      /\ t[Len(s) + 1] = "close"
  BY AppendProperties, LenProperties DEF Event
<1> QED
  BY <1>1

\* The stream of a job that has not ended holds no close.
Open(j) == \A i \in 1..Len(stream[j]) : stream[j][i] # "close"
Shut(j) ==
  /\ \A i \in 1..Len(stream[j]) : stream[j][i] = "close" => i = Len(stream[j])
  /\ stream[j] # <<>> /\ stream[j][Len(stream[j])] = "close"
Streams == \A j \in Jobs : IF ended[j] THEN Shut(j) ELSE Open(j)

LEMMA StreamsNext == Basic /\ Basic' /\ Ordered /\ Streams /\ [Next]_vars => Streams'
<1> SUFFICES ASSUME Basic, Basic', Ordered, Streams, [Next]_vars PROVE Streams'
  OBVIOUS
<1>a. /\ stream \in [Jobs -> Seq(Event)] /\ ended \in [Jobs -> BOOLEAN]
      /\ \A j \in Jobs : ~ended[j] => Open(j)
  BY MoveFacts DEF Streams
<1>b. ASSUME NEW k \in Jobs, stream'[k] = stream[k], ended'[k] = ended[k]
      PROVE  IF ended'[k] THEN Shut(k)' ELSE Open(k)'
  BY <1>b DEF Streams, Shut, Open
<1>c. ASSUME NEW k \in Jobs, NEW s \in Seq(Event), \A i \in 1..Len(s) : s[i] # "close",
             stream'[k] = Append(s, "close"), ended'[k] = TRUE
      PROVE  IF ended'[k] THEN Shut(k)' ELSE Open(k)'
  BY <1>c, ClosingEvent DEF Shut
<1>1. ASSUME NEW j \in Jobs, Submit(j) PROVE Streams'
  BY <1>1, <1>b DEF Submit, Streams
<1>2. ASSUME NEW j \in Jobs, DropQueued(j) PROVE Streams'
  <2>1. /\ ~ended[j] /\ ended' = [ended EXCEPT ![j] = TRUE]
        /\ stream' = [stream EXCEPT ![j] = Append(Append(@, "cancelled"), "close")]
    BY <1>2, MoveFacts DEF DropQueued
  <2>2. /\ Append(stream[j], "cancelled") \in Seq(Event)
        /\ \A i \in 1..Len(Append(stream[j], "cancelled")) :
             Append(stream[j], "cancelled")[i] # "close"
    BY <1>a, <2>1, OneMoreEvent DEF Open, Event
  <2>3. IF ended'[j] THEN Shut(j)' ELSE Open(j)'
    BY <1>a, <1>c, <2>1, <2>2
  <2>4. \A k \in Jobs : k # j => stream'[k] = stream[k] /\ ended'[k] = ended[k]
    BY <1>a, <2>1
  <2> QED
    BY <1>b, <2>3, <2>4 DEF Streams
<1>3. ASSUME TakeHead PROVE Streams'
  BY <1>3, <1>b DEF TakeHead, Streams
<1>4. ASSUME Ending PROVE Streams'
  <2>1. PICK j \in Jobs : j = active
    BY <1>4 DEF Ending
  <2> DEFINE told == Append(stream[j], "error")
  <2>2. ~ended[j] /\ ended' = [ended EXCEPT ![j] = TRUE]
    BY <1>4, <2>1, MoveFacts DEF Ending, Finally
  <2>3. PICK s \in {stream[j], told} : stream' = [stream EXCEPT ![j] = Append(s, "close")]
    BY <1>4, <2>1 DEF Ending, Finally
  <2>4. Open(j) /\ stream[j] \in Seq(Event)
    BY <1>a, <2>2
  <2>5. told \in Seq(Event) /\ \A i \in 1..Len(told) : told[i] # "close"
    BY <2>4, OneMoreEvent DEF Open, Event
  <2> HIDE DEF told
  <2>6. s \in Seq(Event) /\ \A i \in 1..Len(s) : s[i] # "close"
    BY <2>3, <2>4, <2>5 DEF Open
  <2>7. stream'[j] = Append(s, "close") /\ ended'[j] = TRUE
    BY <1>a, <2>2, <2>3
  <2>8. IF ended'[j] THEN Shut(j)' ELSE Open(j)'
    BY <1>c, <2>6, <2>7
  <2>9. \A k \in Jobs : k # j => stream'[k] = stream[k] /\ ended'[k] = ended[k]
    BY <1>a, <2>2, <2>3
  <2> QED
    BY <1>b, <2>8, <2>9 DEF Streams
<1>5. ASSUME Vanish PROVE Streams'
  BY <1>5, <1>b DEF Vanish, Streams
<1>6. ASSUME Quiet PROVE Streams'
  <2>1. /\ ended' = ended
        /\ \A k \in Jobs : stream'[k] # stream[k] =>
             k = active /\ \E e \in Event \ {"close"} : stream'[k] = Append(stream[k], e)
    BY <1>6 DEF Quiet, QuietLine
  <2>2. ASSUME NEW k \in Jobs, stream'[k] # stream[k]
        PROVE  IF ended'[k] THEN Shut(k)' ELSE Open(k)'
    <3>1. ~ended[k] /\ ~ended'[k]
      BY <2>1, <2>2, MoveFacts
    <3>2. PICK e \in Event \ {"close"} : stream'[k] = Append(stream[k], e)
      BY <2>1, <2>2
    <3>3. \A i \in 1..Len(stream'[k]) : stream'[k][i] # "close"
      BY <1>a, <3>1, <3>2, OneMoreEvent DEF Open
    <3> QED
      BY <3>1, <3>3 DEF Open
  <2> QED
    BY <1>b, <2>1, <2>2 DEF Streams
<1> QED
  BY <1>1, <1>2, <1>3, <1>4, <1>5, <1>6, Moves

LEMMA StreamsInvariant == Spec => [](Basic /\ Streams)
<1>1. Init => Streams
  BY EmptySeq DEF Init, Streams, Open
<1> QED
  BY <1>1, StreamsNext, Invariants, PTL DEF Spec

\* A stream is closed exactly when its job ends, once, and nothing follows.
THEOREM StreamsCloseOnce == Spec => []ClosedOnce
<1>1. Basic /\ Streams => ClosedOnce
  <2> SUFFICES ASSUME Basic, Streams, NEW j \in Jobs
               PROVE  /\ \A i \in 1..Len(stream[j]) : stream[j][i] = "close" => i = Len(stream[j])
                      /\ ended[j] <=> (stream[j] # <<>> /\ stream[j][Len(stream[j])] = "close")
    BY DEF ClosedOnce
  <2>1. /\ stream[j] \in Seq(Event) /\ ended[j] \in BOOLEAN
        /\ stream[j] # <<>> => Len(stream[j]) \in 1..Len(stream[j])
    BY EmptySeq DEF Basic, TypeOK, JobTypes
  <2>2. CASE ended[j]
    BY <2>2 DEF Streams, Shut
  <2>3. CASE ~ended[j]
    BY <2>1, <2>3 DEF Streams, Open
  <2> QED
    BY <2>2, <2>3
<1> QED
  BY <1>1, StreamsInvariant, PTL

\* Whoever waits for a job that ended was released, once.
THEOREM NobodyWaitsForEver == Spec => []WaitersReleased
  BY NoJobIsForgotten, StreamsCloseOnce, PTL DEF WaitersReleased

-----------------------------------------------------------------------------
(* The chat *)

\* A job belongs to the chat it was submitted in, or was cut loose from it.
ChatKept == \A j \in Jobs : chat[j] \in {ChatOf[j], NoChat}

Chatted == ChatKept /\ NothingIntoDeletedChats

LEMMA ChattedNext == Basic /\ Basic' /\ Ordered /\ Chatted /\ [Next]_vars => Chatted'
<1> SUFFICES ASSUME Basic, Basic', Ordered, Chatted, [Next]_vars PROVE Chatted'
  OBVIOUS
<1> USE DEF Chatted
<1>a. /\ ChatKept /\ InLine \subseteq Jobs /\ active \in Jobs \cup {NoJob} /\ NoJob \notin Jobs
      /\ chat \in [Jobs -> Chats \cup {NoChat}]
      /\ chats \subseteq Chats /\ NoChat \notin Chats
      /\ \A j \in Jobs : j \in InLine \/ j = active => chat[j] \in chats \cup {NoChat}
      /\ \A j \in replies : ChatOf[j] \in chats
      /\ named \subseteq chats /\ replies \subseteq Jobs
  BY MoveFacts, QueueAssumption DEF NothingIntoDeletedChats, Basic, TypeOK, JobTypes, DbTypes
<1>b. ASSUME UNCHANGED <<chat, chats, replies, named>>,
             \A j \in Jobs : j \in InLine' \/ j = active' => j \in InLine \/ j = active
      PROVE  Chatted'
  BY <1>a, <1>b DEF ChatKept, NothingIntoDeletedChats
<1>1. ASSUME NEW j \in Jobs, Submit(j) PROVE Chatted'
  <2>1. /\ UNCHANGED <<active, chat, chats, replies, named>>
        /\ ChatOf[j] \in chats \cup {NoChat} /\ InLine' = InLine \cup {j}
    BY <1>1, MoveFacts DEF Submit
  <2> QED
    BY <1>a, <2>1 DEF ChatKept, NothingIntoDeletedChats
<1>2. ASSUME NEW j \in Jobs, DropQueued(j) PROVE Chatted'
  <2>1. InLine' = InLine \ {j} /\ UNCHANGED <<active, chat, chats, replies, named>>
    BY <1>2, MoveFacts DEF DropQueued
  <2> QED
    BY <1>b, <2>1
<1>3. ASSUME TakeHead PROVE Chatted'
  <2>1. /\ pending[1] \in InLine /\ InLine' = InLine \ {pending[1]} /\ active' = pending[1]
        /\ UNCHANGED <<chat, chats, replies, named>>
    BY <1>3, MoveFacts DEF TakeHead, Turn, dbVars
  <2> QED
    BY <1>b, <2>1
<1>4. ASSUME Ending PROVE Chatted'
  <2>1. /\ active \in Jobs /\ active' = NoJob
        /\ UNCHANGED <<pending, chat, chats, named>>
        /\ \/ replies' = replies
           \/ chat[active] # NoChat /\ replies' = replies \cup {active}
    BY <1>4 DEF Ending, Finally, HasReply
  <2>2. InLine' = InLine
    BY <2>1 DEF InLine
  <2>3. chat[active] # NoChat => ChatOf[active] \in chats
    BY <1>a, <2>1 DEF ChatKept
  <2> QED
    BY <1>a, <2>1, <2>2, <2>3 DEF ChatKept, NothingIntoDeletedChats
<1>5. ASSUME Vanish PROVE Chatted'
  <2>1. InLine' = {} /\ active' = NoJob /\ UNCHANGED <<chat, chats, replies, named>>
    BY <1>5, MoveFacts DEF Vanish, dbVars
  <2> QED
    BY <1>a, <1>b, <2>1
<1>6. ASSUME DeleteEnd PROVE Chatted'
  <2>1. InLine' = InLine /\ active' = active
    BY <1>6 DEF DeleteEnd, InLine, lineVars
  <2>2. /\ chat' = chat \/ chat' = [chat EXCEPT ![active] = NoChat]
        /\ active # NoJob => chat'[active] # deleting
        /\ \A j \in InLine : chat[j] # deleting
    BY <1>a, <1>6 DEF DeleteEnd, WaitingIn
  <2>3. \/ UNCHANGED <<chats, replies, named>>
        \/ /\ chats' = chats \ {deleting}
           /\ replies' = {j \in replies : ChatOf[j] # deleting}
           /\ named' = named \ {deleting}
    BY <1>6 DEF DeleteEnd
  <2>4. ChatKept'
    BY <1>a, <2>2 DEF ChatKept
  <2>5. \A j \in Jobs : j \in InLine' \/ j = active' => chat'[j] \in chats' \cup {NoChat}
    BY <1>a, <2>1, <2>2, <2>3
  <2>6. (\A j \in replies' : ChatOf[j] \in chats') /\ named' \subseteq chats'
    BY <1>a, <2>3
  <2> QED
    BY <2>4, <2>5, <2>6 DEF NothingIntoDeletedChats
<1>7. ASSUME Quiet, ~DeleteEnd PROVE Chatted'
  <2>1. /\ UNCHANGED <<pending, active, chats, chat, replies>>
        /\ \/ named' = named
           \/ /\ active \in Jobs /\ chat[active] # NoChat
              /\ named' = named \cup {chat[active]}
    BY <1>7 DEF Quiet, QuietLine, QuietChats
  <2>2. InLine' = InLine /\ named' \subseteq chats
    BY <1>a, <2>1 DEF InLine
  <2> QED
    BY <1>a, <2>1, <2>2 DEF ChatKept, NothingIntoDeletedChats
<1> QED
  BY <1>1, <1>2, <1>3, <1>4, <1>5, <1>6, <1>7, Moves

LEMMA ChattedInvariant == Spec => []Chatted
<1>1. Init => Chatted
  BY EmptySeq, QueueAssumption DEF Init, Chatted, ChatKept, NothingIntoDeletedChats, InLine
<1> QED
  BY <1>1, ChattedNext, Invariants, PTL DEF Spec

\* A reply or a title is never written into a chat that was deleted.
THEOREM DeletedStaysDeleted == Spec => []NothingIntoDeletedChats
<1>1. Chatted => NothingIntoDeletedChats
  BY DEF Chatted
<1> QED
  BY <1>1, ChattedInvariant, PTL

-----------------------------------------------------------------------------
(* Stop *)

\* A job that was stopped while its answer was written is never "done".
THEOREM StopsAreHonoured == Spec => StopIsHonoured
<1>1. Basic /\ Basic' /\ Ordered /\ [Next]_vars =>
        \A j \in Jobs : stop[j] /\ state[j] \notin TERMINAL => state'[j] # "done"
  <2> SUFFICES ASSUME Basic, Basic', Ordered, [Next]_vars,
                      NEW j \in Jobs, stop[j], state[j] \notin TERMINAL
               PROVE  state'[j] # "done"
    OBVIOUS
  <2> USE MoveFacts DEF TERMINAL
  <2>1. CASE \E k \in Jobs : Submit(k)
    BY <2>1 DEF Submit
  <2>2. CASE \E k \in Jobs : DropQueued(k)
    BY <2>2 DEF DropQueued
  <2>3. CASE TakeHead
    BY <2>3 DEF TakeHead
  <2>4. CASE Ending
    <3>1. \E st \in {state[active], "error"} : state' = [state EXCEPT ![active] = st]
      BY <2>4 DEF Ending, Finally
    <3> QED
      BY <3>1
  <2>5. CASE Vanish
    BY <2>5 DEF Vanish
  <2>6. CASE Quiet
    BY <2>6 DEF Quiet, QuietLine
  <2> QED
    BY <2>1, <2>2, <2>3, <2>4, <2>5, <2>6, Moves
<1>2. Basic /\ Basic' /\ Ordered /\ [Next]_vars =>
        [\A j \in Jobs : stop[j] /\ state[j] \notin TERMINAL => state'[j] # "done"]_vars
  BY <1>1
<1> QED
  BY <1>2, Invariants, PTL DEF Spec, StopIsHonoured
-----------------------------------------------------------------------------
(* The course of a job, while no database call raises *)

\* A step that leaves every job where it is.
Still ==
  /\ UNCHANGED <<pending, active, state, stream, ended, wrote, chat, chats, row, replies>>
  /\ worker' = worker \/ (worker \notin Running /\ worker' \notin Running)

\* The three ways a job leaves the slot alive to tell: it fails, it is settled,
\* or stop() interrupts it.
Failed ==
  /\ worker \in {"asking", "pumping"}
  /\ Finally("error", Append(stream[active], "error"), "ready")
Settled == worker = "settling" /\ Finally(state[active], stream[active], "ready")
Interrupted ==
  /\ starts < MaxStarts /\ worker \in {"asking", "pumping", "naming"}
  /\ Finally(state[active], stream[active], "stopped")

LEMMA Courses ==
  ASSUME Basic, MaxDbFaults = 0, [Next]_vars
  PROVE  \/ \E j \in Jobs : Submit(j) \/ Refuse(j) \/ DropQueued(j)
         \/ TakeHead \/ AnswerLoaded \/ Output \/ NameChat \/ DeleteEnd
         \/ worker = "pumping" /\ AfterPump
         \/ Failed \/ Settled \/ Interrupted
         \/ Vanish /\ (starts < MaxStarts \/ service = "stopping")
         \/ Still
<1>1. ASSUME NEW j \in Jobs, SetStop(j) PROVE Still
  BY <1>1 DEF SetStop, Still, lineVars, syncVars, dbVars
<1>2. ASSUME NEW c \in Chats, DeleteBegin(c) PROVE Still
  BY <1>2 DEF DeleteBegin, Still, lineVars, syncVars, jobVars, dbVars
<1>3. ASSUME DeleteDrop PROVE \E j \in Jobs : DropQueued(j)
  BY <1>3, ElementOfSeq DEF DeleteDrop, WaitingIn, InLine, Basic, TypeOK, LineTypes
<1>4. ASSUME LoopTop \/ WakeUp \/ SlotGranted, ~TakeHead PROVE Still
  <2>1. UNCHANGED <<pending, active, state, stream, ended, wrote, chat, chats, row, replies>>
    BY <1>4 DEF LoopTop, WakeUp, SlotGranted, lineVars, jobVars, dbVars
  <2>2. worker \notin Running /\ worker' \notin Running
    BY <1>4 DEF LoopTop, WakeUp, SlotGranted, Running
  <2> QED
    BY <2>1, <2>2 DEF Still
<1>5. ASSUME RunFails \/ Settle PROVE Failed \/ Settled
  BY <1>5 DEF RunFails, Settle, Failed, Settled
<1>6. ~TitleRaises
  BY DEF TitleRaises, Basic, TypeOK, CounterTypes
<1>7. ASSUME TouchStep PROVE Still
  BY <1>7 DEF TouchStep, TouchBegin, PreloadEnd, KeepaliveEnd, PreloadYield, TouchEnd,
              Still, lineVars, jobVars, dbVars
<1>8. ASSUME StopService PROVE Interrupted \/ Still
  <2>1. CASE worker \in {"ready", "asleep", "waiting"}
    <3>1. worker' = "stopped" /\ UNCHANGED <<lineVars, jobVars, dbVars>>
      BY <1>8, <2>1 DEF StopService
    <3> QED
      BY <2>1, <3>1 DEF Still, Running, lineVars, jobVars, dbVars
  <2>2. CASE worker \in {"asking", "pumping", "naming"}
    BY <1>8, <2>2 DEF StopService, Interrupted
  <2>3. CASE worker = "settling"
    <3>1. UNCHANGED <<lineVars, syncVars, jobVars, dbVars>>
      BY <1>8, <2>3 DEF StopService
    <3> QED
      BY <3>1 DEF Still, lineVars, syncVars, jobVars, dbVars
  <2> QED
    BY <1>8, <2>1, <2>2, <2>3 DEF StopService
<1>9. ASSUME StartService PROVE Still
  BY <1>9 DEF StartService, Still, Running, Basic, DownMeansStopped, lineVars, jobVars, dbVars
<1>10. ASSUME UNCHANGED vars PROVE Still
  BY <1>10 DEF vars, Still, lineVars, syncVars, jobVars, dbVars
<1>11. CASE Handlers
  BY <1>1, <1>2, <1>3, <1>11 DEF Handlers, Cancel, Kill
<1>12. CASE WorkerStep
  BY <1>4, <1>5, <1>6, <1>12 DEF WorkerStep, PumpDrained, StopNoticed
<1>13. CASE ServiceStep
  BY <1>8, <1>9, <1>13 DEF ServiceStep, Exit, Crash
<1> QED
  BY <1>7, <1>10, <1>11, <1>12, <1>13 DEF Next

Unfinished == {"queued", "loading_model", "generating"}

\* Where the worker is tells how far its job has come.
Phases ==
  /\ \A j \in InLine : state[j] = "queued"
  /\ worker \in {"asking", "pumping"} => state[active] \in Unfinished
  /\ worker = "naming" => state[active] = "done"
  /\ worker = "settling" => state[active] \in {"done", "cancelled"}
  /\ \A j \in Jobs : ended[j] => state[j] # "limit_exceeded"

LEMMA PhasesNext ==
  ASSUME Basic, Basic', Ordered, MaxDbFaults = 0, Phases, [Next]_vars
  PROVE  Phases'
<1> USE DEF Phases, Unfinished
<1>a. /\ NoJob \notin Jobs /\ active \in Jobs \cup {NoJob} /\ InLine \subseteq Jobs
      /\ state \in [Jobs -> JobState] /\ ended \in [Jobs -> BOOLEAN]
      /\ \A j \in InLine : j # active /\ state[j] # "none"
      /\ active # NoJob => state[active] # "none" /\ ~ended[active]
      /\ (active # NoJob) <=> (worker \in Running)
  BY MoveFacts DEF Basic, SlotDiscipline
<1>1. ASSUME NEW j \in Jobs, Submit(j) PROVE Phases'
  <2>1. /\ state[j] = "none" /\ state' = [state EXCEPT ![j] = "queued"]
        /\ InLine' = InLine \cup {j} /\ UNCHANGED <<worker, active, ended>>
    BY <1>1, MoveFacts DEF Submit
  <2> QED
    BY <1>a, <2>1 DEF Running
<1>2. ASSUME NEW j \in Jobs, Refuse(j) PROVE Phases'
  <2>1. /\ state[j] = "none" /\ state' = [state EXCEPT ![j] = "limit_exceeded"]
        /\ InLine' = InLine /\ UNCHANGED <<worker, active, ended>>
    BY <1>2 DEF Refuse, InLine, lineVars, syncVars
  <2>2. ~ended[j]
    BY <2>1 DEF Ordered, Known
  <2> QED
    BY <1>a, <2>1, <2>2 DEF Running
<1>3. ASSUME NEW j \in Jobs, DropQueued(j) PROVE Phases'
  <2>1. /\ j \in InLine /\ state' = [state EXCEPT ![j] = "cancelled"]
        /\ InLine' = InLine \ {j} /\ ended' = [ended EXCEPT ![j] = TRUE]
        /\ UNCHANGED <<worker, active>>
    BY <1>3, MoveFacts DEF DropQueued, syncVars
  <2> QED
    BY <1>a, <2>1 DEF Running
<1>4. ASSUME TakeHead PROVE Phases'
  <2>1. /\ pending[1] \in InLine /\ InLine' = InLine \ {pending[1]} /\ active' = pending[1]
        /\ worker' = "asking" /\ UNCHANGED <<state, ended>>
    BY <1>4, MoveFacts DEF TakeHead, Turn
  <2> QED
    BY <1>a, <2>1
<1>5. ASSUME AnswerLoaded \/ Output PROVE Phases'
  <2>1. /\ worker \in {"asking", "pumping"} /\ worker' = "pumping"
        /\ UNCHANGED <<pending, active, ended>>
        /\ \E st \in {state[active], "loading_model", "generating"} :
             state' = [state EXCEPT ![active] = st]
    BY <1>5, <1>a DEF AnswerLoaded, Output, lineVars, syncVars
  <2>2. active \in Jobs /\ InLine' = InLine
    BY <1>a, <2>1 DEF InLine, Running
  <2> QED
    BY <1>a, <2>1, <2>2
<1>6. ASSUME worker = "pumping", AfterPump PROVE Phases'
  <2>1. /\ UNCHANGED <<pending, active, ended>>
        /\ state' = [state EXCEPT ![active] = Outcome(active)]
        /\ Outcome(active) \in {"done", "cancelled"}
        /\ worker' = "settling" \/ (worker' = "naming" /\ Outcome(active) = "done")
    BY <1>6 DEF AfterPump, Outcome, lineVars
  <2>2. active \in Jobs /\ InLine' = InLine
    BY <1>6, <1>a, <2>1 DEF InLine, Running
  <2> QED
    BY <1>a, <2>1, <2>2
<1>7. ASSUME NameChat PROVE Phases'
  <2>1. /\ worker = "naming" /\ worker' = "settling"
        /\ UNCHANGED <<pending, active, state, ended>>
    BY <1>7 DEF NameChat, lineVars
  <2>2. InLine' = InLine
    BY <2>1 DEF InLine
  <2> QED
    BY <2>1, <2>2
<1>8. ASSUME Failed \/ Settled \/ Interrupted PROVE Phases'
  <2>1. /\ worker \in Running /\ worker' \in {"ready", "stopped"}
        /\ UNCHANGED pending /\ ended' = [ended EXCEPT ![active] = TRUE]
        /\ \E st \in {state[active], "error"} : state' = [state EXCEPT ![active] = st]
    BY <1>8 DEF Failed, Settled, Interrupted, Finally, Running
  <2>2. active \in Jobs /\ InLine' = InLine /\ state[active] # "limit_exceeded"
    BY <1>a, <2>1 DEF InLine, Running
  <2> QED
    BY <1>a, <2>1, <2>2
<1>9. ASSUME Vanish PROVE Phases'
  BY <1>9, MoveFacts DEF Vanish
<1>10. ASSUME Still \/ DeleteEnd PROVE Phases'
  <2>1. /\ UNCHANGED <<pending, active, state, ended>>
        /\ worker' = worker \/ worker' \notin Running
    BY <1>10 DEF Still, DeleteEnd, lineVars, syncVars
  <2>2. InLine' = InLine
    BY <2>1 DEF InLine
  <2> QED
    BY <2>1, <2>2 DEF Running
<1> QED
  BY <1>1, <1>2, <1>3, <1>4, <1>5, <1>6, <1>7, <1>8, <1>9, <1>10, Courses

LEMMA PhasesInvariant ==
  ASSUME MaxDbFaults = 0
  PROVE  Spec => [](Basic /\ Ordered /\ Phases)
<1>1. Init => Phases
  BY EmptySeq DEF Init, Phases, InLine
<1>2. Basic /\ Basic' /\ Ordered /\ Phases /\ [Next]_vars => Phases'
  BY PhasesNext
<1> QED
  BY <1>1, <1>2, Invariants, PTL DEF Spec

\* What a stream says of its job's end: nothing, or one thing.
Unsaid(s) == \A i \in 1..Len(s) : s[i] \notin Endings
Says(s, E) ==
  \E i \in 1..Len(s) : s[i] \in E /\ \A k \in 1..Len(s) : s[k] \in Endings => k = i

LEMMA SaidNoMore ==
  ASSUME NEW s \in Seq(Event), NEW e \in Event, e \notin Endings
  PROVE  /\ Unsaid(s) => Unsaid(Append(s, e))
         /\ \A E : Says(s, E) => Says(Append(s, e), E)
<1>1. /\ Len(s) \in Nat /\ Len(Append(s, e)) = Len(s) + 1
      /\ \A i \in 1..Len(s) : Append(s, e)[i] = s[i]
      /\ Append(s, e)[Len(s) + 1] = e
  BY AppendProperties, LenProperties
<1>2. Unsaid(s) => Unsaid(Append(s, e))
  BY <1>1 DEF Unsaid
<1>3. ASSUME NEW E, Says(s, E) PROVE Says(Append(s, e), E)
  <2>1. PICK i \in 1..Len(s) : s[i] \in E /\ \A k \in 1..Len(s) : s[k] \in Endings => k = i
    BY <1>3 DEF Says
  <2>2. i \in 1..Len(Append(s, e)) /\ Append(s, e)[i] \in E
    BY <1>1, <2>1
  <2>3. \A k \in 1..Len(Append(s, e)) : Append(s, e)[k] \in Endings => k = i
    BY <1>1, <2>1
  <2> QED
    BY <2>2, <2>3 DEF Says
<1> QED
  BY <1>2, <1>3

LEMMA SaidNow ==
  ASSUME NEW s \in Seq(Event), Unsaid(s), NEW E, NEW e \in E \cap Event
  PROVE  Says(Append(s, e), E)
<1>1. /\ Len(s) \in Nat /\ Len(Append(s, e)) = Len(s) + 1
      /\ \A i \in 1..Len(s) : Append(s, e)[i] = s[i]
      /\ Append(s, e)[Len(s) + 1] = e
  BY AppendProperties, LenProperties
<1>2. Len(s) + 1 \in 1..Len(Append(s, e))
  BY <1>1
<1>3. \A k \in 1..Len(Append(s, e)) : Append(s, e)[k] \in Endings => k = Len(s) + 1
  BY <1>1 DEF Unsaid
<1> QED
  BY <1>1, <1>2, <1>3 DEF Says

\* A job's stream says how it ended from the moment it has, and never before.
Heard(st, s) ==
  IF st \in {"done", "cancelled", "error"} THEN Says(s, EndingOf(st)) ELSE Unsaid(s)
Told == \A j \in Jobs : Heard(state[j], stream[j])

LEMMA ToldNext ==
  ASSUME Basic, Basic', Ordered, MaxDbFaults = 0, Phases, Told, [Next]_vars
  PROVE  Told'
<1>a. /\ NoJob \notin Jobs /\ active \in Jobs \cup {NoJob} /\ InLine \subseteq Jobs
      /\ state \in [Jobs -> JobState] /\ stream \in [Jobs -> Seq(Event)]
      /\ (active # NoJob) <=> (worker \in Running)
      /\ \A j \in InLine : state[j] = "queued"
      /\ worker \in {"asking", "pumping"} => state[active] \in Unfinished
  BY MoveFacts DEF Basic, SlotDiscipline, Phases
<1>b. \A j \in Jobs : state[j] \notin {"done", "cancelled", "error"} => Unsaid(stream[j])
  BY DEF Told, Heard
<1>c. ASSUME NEW j \in Jobs, NEW st, NEW s, state' = [state EXCEPT ![j] = st],
             stream' = [stream EXCEPT ![j] = s], Heard(st, s)
      PROVE  Told'
  BY <1>a, <1>c DEF Told, Heard
<1>d. ASSUME NEW j \in Jobs, NEW e \in Event, e \notin Endings
      PROVE  Heard(state[j], Append(stream[j], e))
  BY <1>a, <1>d, SaidNoMore DEF Told, Heard
<1>1. ASSUME NEW j \in Jobs, Submit(j) \/ Refuse(j) PROVE Told'
  <2>1. /\ state[j] = "none" /\ stream' = stream
        /\ \E st \in {"queued", "limit_exceeded"} : state' = [state EXCEPT ![j] = st]
    BY <1>1 DEF Submit, Refuse
  <2> QED
    BY <1>a, <2>1 DEF Told, Heard
<1>2. ASSUME NEW j \in Jobs, DropQueued(j) PROVE Told'
  <2> DEFINE s == Append(stream[j], "cancelled")
  <2>1. /\ state[j] = "queued" /\ state' = [state EXCEPT ![j] = "cancelled"]
        /\ stream' = [stream EXCEPT ![j] = Append(s, "close")]
    BY <1>2, <1>a, MoveFacts DEF DropQueued
  <2>2. s \in Seq(Event) /\ Says(s, EndingOf("cancelled"))
    BY <1>a, <1>b, <2>1, AppendProperties, SaidNow DEF EndingOf, Event
  <2>3. Says(Append(s, "close"), EndingOf("cancelled"))
    BY <2>2, SaidNoMore DEF Event, Endings
  <2> QED
    BY <1>c, <2>1, <2>3 DEF Heard
<1>3. ASSUME worker = "pumping", AfterPump PROVE Told'
  <2> DEFINE e == IF Outcome(active) = "done" THEN "done" ELSE "stopped"
  <2>1. /\ state' = [state EXCEPT ![active] = Outcome(active)]
        /\ Outcome(active) \in {"done", "cancelled"}
        /\ stream' = [stream EXCEPT ![active] = Append(stream[active], e)]
    BY <1>3 DEF AfterPump, Outcome
  <2>2. active \in Jobs /\ Unsaid(stream[active])
    BY <1>3, <1>a, <1>b DEF Running, Unfinished
  <2>3. e \in EndingOf(Outcome(active)) \cap Event
    BY <2>1 DEF EndingOf, Event
  <2>4. Says(Append(stream[active], e), EndingOf(Outcome(active)))
    BY <1>a, <2>2, <2>3, SaidNow
  <2> QED
    BY <1>c, <2>1, <2>2, <2>4 DEF Heard
<1>4. ASSUME NameChat PROVE Told'
  <2>1. /\ state' = state
        /\ stream' = stream \/ stream' = [stream EXCEPT ![active] = Append(@, "title")]
    BY <1>4 DEF NameChat
  <2>2. active \in Jobs
    BY <1>4, <1>a DEF NameChat, Running
  <2>3. Heard(state[active], Append(stream[active], "title"))
    BY <1>d, <2>2 DEF Event, Endings
  <2> QED
    BY <1>a, <2>1, <2>2, <2>3 DEF Told, Heard
<1>5. ASSUME Failed PROVE Told'
  <2> DEFINE s == Append(stream[active], "error")
  <2>1. /\ worker \in {"asking", "pumping"}
        /\ state' = [state EXCEPT ![active] = "error"]
        /\ stream' = [stream EXCEPT ![active] = Append(s, "close")]
    BY <1>5 DEF Failed, Finally
  <2>2. active \in Jobs /\ Unsaid(stream[active])
    BY <1>a, <1>b, <2>1 DEF Running, Unfinished
  <2>3. s \in Seq(Event) /\ Says(s, EndingOf("error"))
    BY <1>a, <2>2, AppendProperties, SaidNow DEF EndingOf, Event
  <2>4. Says(Append(s, "close"), EndingOf("error"))
    BY <2>3, SaidNoMore DEF Event, Endings
  <2> QED
    BY <1>c, <2>1, <2>2, <2>4 DEF Heard
<1>6. ASSUME Settled \/ Interrupted PROVE Told'
  <2>1. /\ worker \in Running
        /\ state' = [state EXCEPT ![active] = state[active]]
        /\ stream' = [stream EXCEPT ![active] = Append(stream[active], "close")]
    BY <1>6 DEF Settled, Interrupted, Finally, Running
  <2>2. active \in Jobs /\ Heard(state[active], Append(stream[active], "close"))
    BY <1>a, <1>d, <2>1 DEF Event, Endings
  <2> QED
    BY <1>c, <2>1, <2>2
<1>7. ASSUME AnswerLoaded \/ Output PROVE Told'
  <2>1. /\ worker \in {"asking", "pumping"} /\ stream' = stream
        /\ \E st \in {state[active], "loading_model", "generating"} :
             state' = [state EXCEPT ![active] = st]
    BY <1>7, <1>a DEF AnswerLoaded, Output
  <2> QED
    BY <1>a, <2>1 DEF Told, Heard, Unfinished, Running
<1>8. ASSUME TakeHead \/ Vanish \/ Still \/ DeleteEnd PROVE Told'
  BY <1>8 DEF TakeHead, Vanish, Still, DeleteEnd, Told, Heard
<1> QED
  BY <1>1, <1>2, <1>3, <1>4, <1>5, <1>6, <1>7, <1>8, Courses

LEMMA ToldInvariant ==
  ASSUME MaxDbFaults = 0
  PROVE  Spec => [](Basic /\ Phases /\ Told)
<1>1. Init => Told
  BY EmptySeq DEF Init, Told, Heard, Unsaid
<1>2. Basic /\ Basic' /\ Ordered /\ Phases /\ Told /\ [Next]_vars => Told'
  BY ToldNext
<1>3. Spec => [](Basic /\ Ordered /\ Phases)
  BY PhasesInvariant
<1> QED
  BY <1>1, <1>2, <1>3, PTL DEF Spec

\* While no database call raises, a client hears one ending, and the one its
\* job came to, through every stop and crash of the service.
THEOREM OneEndingIsHeard ==
  ASSUME MaxDbFaults = 0
  PROVE  Spec => []OneEnding
<1>1. Basic /\ Phases /\ Told => OneEnding
  <2> SUFFICES ASSUME Basic, Phases, Told, NEW j \in Jobs,
                      NEW said, said = {i \in 1..Len(stream[j]) : stream[j][i] \in Endings}
               PROVE  /\ Cardinality(said) <= 1
                      /\ ended[j] /\ state[j] \in TERMINAL =>
                           \E i \in said : stream[j][i] \in EndingOf(state[j])
    BY DEF OneEnding
  <2>1. CASE state[j] \in {"done", "cancelled", "error"}
    <3>1. PICK i \in 1..Len(stream[j]) :
               /\ stream[j][i] \in EndingOf(state[j])
               /\ \A k \in 1..Len(stream[j]) : stream[j][k] \in Endings => k = i
      BY <2>1 DEF Told, Heard, Says
    <3>2. EndingOf(state[j]) \subseteq Endings
      BY <2>1 DEF EndingOf, Endings
    <3>3. said = {i}
      BY <3>1, <3>2
    <3>4. Cardinality(said) = 1
      BY <3>3, FS_Singleton
    <3> QED
      BY <3>1, <3>3, <3>4
  <2>2. CASE state[j] \notin {"done", "cancelled", "error"}
    <3>1. said = {}
      BY <2>2 DEF Told, Heard, Unsaid
    <3>2. Cardinality(said) = 0
      BY <3>1, FS_EmptySet
    <3>3. ended[j] => state[j] \notin TERMINAL
      BY <2>2 DEF Phases, TERMINAL
    <3> QED
      BY <3>2, <3>3
  <2> QED
    BY <2>1, <2>2
<1>2. Spec => [](Basic /\ Phases /\ Told)
  BY ToldInvariant
<1> QED
  BY <1>1, <1>2, PTL

-----------------------------------------------------------------------------
(* The database, while it answers and the service is not stopped *)

Up == service = "up" /\ starts = 1

LEMMA UpInvariant ==
  ASSUME MaxStarts <= 1
  PROVE  Spec => []Up
<1>1. Init => Up
  BY DEF Init, Up
<1>2. ASSUME Up, [Next]_vars PROVE Up'
  <2> USE <1>2 DEF Up, serviceVars
  <2>1. ~ServiceStep
    BY QueueAssumption DEF ServiceStep, StopService, Exit, Crash, StartService
  <2>2. CASE Handlers
    BY <2>2 DEF Handlers, Submit, Refuse, Cancel, Kill, SetStop, DropQueued, DeleteBegin,
                DeleteDrop, DeleteEnd
  <2>3. CASE WorkerStep
    BY <2>3 DEF WorkerStep, LoopTop, TakeHead, WakeUp, SlotGranted, AnswerLoaded, Output,
                PumpDrained, StopNoticed, AfterPump, RunFails, NameChat, TitleRaises, Settle,
                Finally
  <2>4. CASE TouchStep
    BY <2>4 DEF TouchStep, TouchBegin, PreloadEnd, KeepaliveEnd, PreloadYield, TouchEnd
  <2>5. CASE UNCHANGED vars
    BY <2>5 DEF vars
  <2> QED
    BY <1>2, <2>1, <2>2, <2>3, <2>4, <2>5 DEF Next
<1> QED
  BY <1>1, <1>2, PTL DEF Spec

\* A job is cut loose from its chat only when the chat goes, and a reply is
\* stored only at a job's end: with these, the store agrees from step to step.
Whole ==
  /\ \A j \in Jobs : ChatOf[j] \in chats => chat[j] = ChatOf[j]
  /\ \A j \in replies : ended[j]
  /\ StoreAgrees

LEMMA WholeNext ==
  ASSUME Basic, Basic', Ordered, Phases, Chatted, Up, Whole,
         MaxDbFaults = 0, MaxStarts <= 1, [Next]_vars
  PROVE  Whole'
<1>a. /\ NoJob \notin Jobs /\ active \in Jobs \cup {NoJob} /\ InLine \subseteq Jobs
      /\ state \in [Jobs -> JobState] /\ row \in [Jobs -> JobState]
      /\ ended \in [Jobs -> BOOLEAN] /\ chat \in [Jobs -> Chats \cup {NoChat}]
      /\ wrote \in [Jobs -> {"nothing", "thinking", "answer"}]
      /\ replies \subseteq Jobs /\ chats \subseteq Chats /\ NoChat \notin Chats
      /\ (active # NoJob) <=> (worker \in Running)
      /\ \A j \in InLine : j # active /\ ~ended[j]
      /\ active # NoJob => ~ended[active]
  BY MoveFacts, QueueAssumption DEF Basic, TypeOK, JobTypes, DbTypes, SlotDiscipline
<1>b. /\ \A j \in Jobs : ChatOf[j] \in chats => chat[j] = ChatOf[j]
      /\ \A j \in replies : ended[j]
      /\ \A j \in Jobs : ended[j] /\ ChatOf[j] \in chats =>
           (j \in replies <=> state[j] = "done" /\ wrote[j] # "nothing")
      /\ \A j \in Jobs : row[j] = "queued" => j \in InLine \/ j = active
      /\ \A j \in Jobs : ended[j] => row[j] = state[j]
  BY DEF Whole, StoreAgrees, DoneMeansStored, RowsAgree
<1>c. ~DbRaises
  BY DEF DbRaises, Basic, TypeOK, CounterTypes
<1>d. ~Vanish \/ (service # "stopping" /\ ~(starts < MaxStarts))
  BY QueueAssumption DEF Up
<1>e. ASSUME UNCHANGED <<chats, chat, replies, ended>>,
             \A j \in Jobs : ended[j] => state'[j] = state[j] /\ row'[j] = row[j] /\ wrote'[j] = wrote[j],
             \A j \in Jobs : row'[j] = "queued" => j \in InLine' \/ j = active'
      PROVE  Whole'
  BY <1>a, <1>b, <1>e DEF Whole, StoreAgrees, DoneMeansStored, RowsAgree
<1>1. ASSUME NEW j \in Jobs, Submit(j) \/ Refuse(j) PROVE Whole'
  <2>1. state[j] = "none" /\ ~ended[j]
    BY <1>1 DEF Submit, Refuse, Ordered, Known
  <2>2. UNCHANGED <<active, chats, chat, replies, ended, wrote>>
    BY <1>1 DEF Submit, Refuse, lineVars
  <2>3. \E st \in {"queued", "limit_exceeded"} :
          /\ state' = [state EXCEPT ![j] = st] /\ row' = [row EXCEPT ![j] = st]
          /\ InLine' = IF st = "queued" THEN InLine \cup {j} ELSE InLine
    <3>1. CASE Submit(j)
      BY <3>1, <1>c, MoveFacts DEF Submit, Persisted
    <3>2. CASE Refuse(j)
      BY <3>2 DEF Refuse, Persisted, InLine, lineVars
    <3> QED
      BY <1>1, <3>1, <3>2
  <2> QED
    BY <1>a, <1>b, <1>e, <2>1, <2>2, <2>3
<1>2. ASSUME NEW j \in Jobs, DropQueued(j) PROVE Whole'
  <2>1. /\ j \in InLine /\ InLine' = InLine \ {j}
        /\ state' = [state EXCEPT ![j] = "cancelled"]
        /\ row' = [row EXCEPT ![j] = "cancelled"]
        /\ ended' = [ended EXCEPT ![j] = TRUE]
        /\ UNCHANGED <<active, chats, chat, replies, wrote>>
    BY <1>2, <1>c, MoveFacts DEF DropQueued, Persisted
  <2>2. j \notin replies
    BY <1>a, <1>b, <2>1
  <2> QED
    BY <1>a, <1>b, <2>1, <2>2 DEF Whole, StoreAgrees, DoneMeansStored, RowsAgree
<1>3. ASSUME TakeHead PROVE Whole'
  <2>1. /\ pending[1] \in InLine /\ InLine' = InLine \ {pending[1]} /\ active' = pending[1]
        /\ UNCHANGED <<state, row, ended, wrote, chats, chat, replies>>
    BY <1>3, MoveFacts DEF TakeHead, Turn, dbVars
  <2>2. active = NoJob
    BY <1>3 DEF TakeHead, Basic, SlotDiscipline
  <2> QED
    BY <1>a, <1>b, <1>e, <2>1, <2>2
<1>4. ASSUME Failed \/ Settled PROVE Whole'
  <2>1. /\ worker \in Running /\ active' = NoJob /\ UNCHANGED <<pending, chats, chat, wrote>>
        /\ ended' = [ended EXCEPT ![active] = TRUE]
    BY <1>4 DEF Failed, Settled, Finally, Running
  <2>2. \E st \in {"error", "done", "cancelled"} :
          /\ state' = [state EXCEPT ![active] = st] /\ row' = [row EXCEPT ![active] = st]
          /\ replies' = IF HasReply(active, st) THEN replies \cup {active} ELSE replies
    BY <1>4, <1>c DEF Failed, Settled, Finally, Persisted, Phases
  <2>3. PICK st \in {"error", "done", "cancelled"} :
          /\ state' = [state EXCEPT ![active] = st] /\ row' = [row EXCEPT ![active] = st]
          /\ replies' = IF HasReply(active, st) THEN replies \cup {active} ELSE replies
    BY <2>2
  <2>4. active \in Jobs /\ InLine' = InLine /\ active \notin replies
    BY <1>a, <1>b, <2>1 DEF InLine
  <2>5. ChatOf[active] \in chats => (HasReply(active, st) <=> st = "done" /\ wrote[active] # "nothing")
    BY <1>a, <1>b, <2>4 DEF HasReply
  <2>6. /\ \A k \in Jobs : k # active =>
             /\ state'[k] = state[k] /\ row'[k] = row[k] /\ ended'[k] = ended[k]
             /\ k \in replies' <=> k \in replies
        /\ state'[active] = st /\ row'[active] = st /\ ended'[active]
        /\ active \in replies' <=> HasReply(active, st)
    BY <1>a, <2>1, <2>3, <2>4
  <2>7. \A k \in replies' : ended'[k]
    BY <1>a, <1>b, <2>3, <2>4, <2>6
  <2>8. DoneMeansStored'
    BY <1>b, <2>1, <2>4, <2>5, <2>6 DEF DoneMeansStored
  <2>9. RowsAgree'
    BY <1>b, <2>1, <2>3, <2>4, <2>6 DEF RowsAgree
  <2> QED
    BY <1>b, <2>1, <2>7, <2>8, <2>9 DEF Whole, StoreAgrees
<1>5. ASSUME DeleteEnd PROVE Whole'
  <2>1. /\ InLine' = InLine /\ UNCHANGED <<active, state, row, ended, wrote>>
        /\ chats' = chats \ {deleting}
        /\ replies' = {j \in replies : ChatOf[j] # deleting}
        /\ chat' = chat \/ (active # NoJob /\ chat[active] = deleting
                            /\ chat' = [chat EXCEPT ![active] = NoChat])
    BY <1>5, <1>c DEF DeleteEnd, InLine, lineVars, syncVars
  <2>2. \A j \in Jobs : ChatOf[j] \in chats' => chat'[j] = ChatOf[j]
    BY <1>a, <1>b, <2>1
  <2>3. DoneMeansStored'
    BY <1>b, <2>1 DEF DoneMeansStored
  <2>4. RowsAgree'
    BY <1>b, <2>1 DEF RowsAgree
  <2> QED
    BY <1>b, <2>1, <2>2, <2>3, <2>4 DEF Whole, StoreAgrees
<1>6. ASSUME AnswerLoaded \/ Output \/ NameChat \/ (worker = "pumping" /\ AfterPump)
      PROVE  Whole'
  <2>1. /\ worker \in Running
        /\ UNCHANGED <<pending, active, row, ended, chats, chat, replies>>
    BY <1>6 DEF AnswerLoaded, Output, NameChat, AfterPump, Running, lineVars, dbVars
  <2>2. \A j \in Jobs : j # active => state'[j] = state[j] /\ wrote'[j] = wrote[j]
    BY <1>6, <1>a DEF AnswerLoaded, Output, NameChat, AfterPump
  <2>3. InLine' = InLine /\ ~ended[active]
    BY <1>a, <2>1 DEF InLine
  <2> QED
    BY <1>a, <1>b, <1>e, <2>1, <2>2, <2>3
<1>7. ASSUME Still PROVE Whole'
  <2>1. InLine' = InLine
    BY <1>7 DEF Still, InLine
  <2> QED
    BY <1>b, <1>e, <1>7, <2>1 DEF Still
<1>8. ~Interrupted
  BY QueueAssumption DEF Interrupted, Up
<1> QED
  BY <1>1, <1>2, <1>3, <1>4, <1>5, <1>6, <1>7, <1>8, <1>d, Courses

\* While no database call raises and the service is not stopped, a job's row
\* and its reply are what became of it and what its client was told.
THEOREM StoreKeepsUp ==
  ASSUME MaxDbFaults = 0, MaxStarts <= 1
  PROVE  Spec => []StoreAgrees
<1>1. Init => Whole
  BY EmptySeq, QueueAssumption DEF Init, Whole, StoreAgrees, DoneMeansStored, RowsAgree
<1>2. Basic /\ Basic' /\ Ordered /\ Phases /\ Chatted /\ Up /\ Whole /\ [Next]_vars => Whole'
  BY WholeNext
<1>3. Spec => [](Basic /\ Ordered /\ Phases)
  BY PhasesInvariant
<1>4. Spec => []Up
  BY UpInvariant
<1>5. Whole => StoreAgrees
  BY DEF Whole
<1> QED
  BY <1>1, <1>2, <1>3, <1>4, <1>5, ChattedInvariant, PTL DEF Spec

-----------------------------------------------------------------------------
(* The line: GpuQueue implements the safety part of FifoLine.  Each move of the
   line is the step of FifoLine it should be, and everything else a stutter. *)

Gone == {j \in Jobs : ended[j]} \cup lost

LEMMA HeadIsFirst ==
  ASSUME pending \in Seq(Jobs), pending # <<>>
  PROVE  Head(pending) = pending[1] /\ Tail(pending) = Without(pending, 1)
<1>1. Len(pending) \in Nat \ {0} /\ 1 \in 1..Len(pending)
  BY EmptySeq
<1>2. /\ Tail(pending) \in Seq(Jobs) /\ Len(Tail(pending)) = Len(pending) - 1
      /\ \A i \in 1..Len(Tail(pending)) : Tail(pending)[i] = pending[i + 1]
  BY HeadTailProperties
<1>3. /\ Without(pending, 1) \in Seq(Jobs) /\ Len(Without(pending, 1)) = Len(pending) - 1
      /\ \A k \in 1..(Len(pending) - 1) : Without(pending, 1)[k] = pending[k + 1]
  <2>1. \A k \in 1..(Len(pending) - 1) : ~(k < 1)
    BY <1>1
  <2> QED
    BY <1>1, <2>1, WithoutShape
<1>4. Tail(pending) = Without(pending, 1)
  BY <1>1, <1>2, <1>3, SeqEqual
<1> QED
  BY <1>4 DEF Head

LEMMA FifoInit == Init => Fifo!Init
  BY DEF Init, Fifo!Init

LEMMA FifoStep ==
  Basic /\ Basic' /\ Ordered /\ Ordered' /\ [Next]_vars => [Fifo!Next]_(Fifo!fifoVars)
<1> SUFFICES ASSUME Basic, Basic', Ordered, Ordered', [Next]_vars
             PROVE  Fifo!Next \/ UNCHANGED <<pending, active, Gone>>
  BY DEF Fifo!fifoVars, Gone
<1>a. pending \in Seq(Jobs) /\ Fifo!Waiting = InLine
  BY DEF Basic, TypeOK, LineTypes, Fifo!Waiting, InLine
<1>1. ASSUME NEW j \in Jobs, Submit(j) PROVE Fifo!Next
  <2>1. /\ state[j] = "none" /\ pending' = Append(pending, j)
        /\ UNCHANGED <<active, ended, lost>>
    BY <1>1 DEF Submit, serviceVars
  <2>2. j \notin InLine /\ j # active /\ j \notin Gone
    BY <2>1, MoveFacts DEF Ordered, Known, LostKnown, Gone
  <2>3. Fifo!Join(j)
    BY <1>a, <2>1, <2>2 DEF Fifo!Join, Gone
  <2> QED
    BY <2>3 DEF Fifo!Next
<1>2. ASSUME NEW j \in Jobs, DropQueued(j) PROVE Fifo!Next
  <2>1. PICK i \in 1..Len(pending) : pending[i] = j /\ pending' = Without(pending, i)
    BY <1>2 DEF DropQueued
  <2>2. ended' = [ended EXCEPT ![j] = TRUE] /\ UNCHANGED <<active, lost>>
    BY <1>2 DEF DropQueued, serviceVars
  <2>3. Gone' = Gone \cup {j}
    BY <2>2, MoveFacts DEF Gone
  <2>4. Fifo!Leave(i)
    BY <2>1, <2>2, <2>3 DEF Fifo!Leave, Without, Gone
  <2> QED
    BY <2>1, <2>4 DEF Fifo!Next
<1>3. ASSUME TakeHead PROVE Fifo!Next
  <2>1. /\ pending # <<>> /\ pending' = Without(pending, 1) /\ active' = pending[1]
        /\ UNCHANGED <<ended, lost>>
    BY <1>3 DEF TakeHead, Turn, serviceVars
  <2>2. active = NoJob
    BY <1>3 DEF TakeHead, Basic, SlotDiscipline
  <2>3. Fifo!Serve
    BY <1>a, <2>1, <2>2, HeadIsFirst DEF Fifo!Serve
  <2> QED
    BY <2>3 DEF Fifo!Next
<1>4. ASSUME Ending PROVE Fifo!Next
  <2>1. /\ active \in Jobs /\ active' = NoJob
        /\ ended' = [ended EXCEPT ![active] = TRUE] /\ UNCHANGED <<pending, lost>>
    BY <1>4 DEF Ending, Finally
  <2>2. Gone' = Gone \cup {active}
    BY <2>1, MoveFacts DEF Gone
  <2>3. Fifo!Finish
    BY <2>1, <2>2, MoveFacts DEF Fifo!Finish, Gone
  <2> QED
    BY <2>3 DEF Fifo!Next
<1>5. ASSUME Vanish PROVE Fifo!Next
  <2>1. /\ pending' = <<>> /\ active' = NoJob /\ ended' = ended
        /\ lost' = lost \cup InLine \cup ({active} \ {NoJob})
    BY <1>5 DEF Vanish
  <2>2. Gone' = Gone \cup InLine \cup ({active} \ {NoJob})
    BY <2>1 DEF Gone
  <2>3. Fifo!Outage
    BY <1>a, <2>1, <2>2 DEF Fifo!Outage, Gone
  <2> QED
    BY <2>3 DEF Fifo!Next
<1>6. ASSUME Quiet PROVE UNCHANGED <<pending, active, Gone>>
  BY <1>6 DEF Quiet, QuietLine, Gone
<1> QED
  BY <1>1, <1>2, <1>3, <1>4, <1>5, <1>6, Moves

\* The line, the slot and the jobs that are over behave as FifoLine says.
THEOREM ImplementsFifo == Spec => Fifo!Safety
<1>1. Basic /\ Ordered /\ Basic' /\ Ordered' /\ [Next]_vars => [Fifo!Next]_(Fifo!fifoVars)
  BY FifoStep
<1> QED
  BY <1>1, FifoInit, Invariants, PTL DEF Spec, Fifo!Safety
=============================================================================

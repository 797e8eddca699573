-------------------------- MODULE AgentTurnProofs --------------------------
(***************************************************************************)
(* Proofs about AgentTurn, for any number of rounds and calls, any budget,  *)
(* tools, addresses, files and document.                                    *)
(*                                                                          *)
(*   The budget: a turn writes no more than it and the least a request is   *)
(*     given, since a request that is not the last fits in what is left.    *)
(*   A document: every part is longer than half a part, since it ends on    *)
(*     the greatest line break of its second half, or where it must.        *)
(*   The files: what the turn did to a file, by whether it was there before.*)
(*   Types, and that tools run only in a round there is.                    *)
(*   The sources: numbering is a fold over what was found, which extends    *)
(*     what was known and gives no address two numbers.                     *)
(*   The conversation: its rows are right but for the calls being answered, *)
(*     whose results so far stand below them.                               *)
(*   The trail: its rows and the results are of rounds that are over or of  *)
(*     calls that are, so the next of either comes last in both; and who    *)
(*     spoke has a note in it or the answer.                                *)
(***************************************************************************)
EXTENDS AgentTurn, FiniteSetTheorems, SequenceTheorems, WellFoundedInduction, TLAPS

USE DEF loopVars, talkVars, boxVars, Allowance

\* Between two replies there is no request.
LEMMA NoRequestTyped == NoRequest \in [final : BOOLEAN, given : Int]
  BY DEF NoRequest

-----------------------------------------------------------------------------
(* The budget *)

\* Where the turn is, as far as its budget goes.
Loop ==
  /\ step \in Nat /\ out \in Int /\ spent \in Nat
  /\ cutOff \in BOOLEAN /\ guessed \in BOOLEAN
  /\ thinking \in BOOLEAN
  /\ request \in [final : BOOLEAN, given : Int]
  /\ phase \in {"asking", "streaming", "tools", "calling", "over"}
  /\ phase # "over" => ending = "none"

\* What the code counts is what was written, but for the one guess; a guess is
\* followed by the last request alone.
Count ==
  /\ -Slip <= out - spent /\ out - spent <= Slip
  /\ ~guessed => out = spent
  /\ guessed => cutOff
  /\ step = 0 /\ phase \in {"asking", "streaming"} => out = 0

\* A request in progress was given its share, and is not the last one only when
\* there is a step's worth left.
Share ==
  phase = "streaming" =>
    /\ request.given = Given(request.final)
    /\ ~request.final => ~cutOff /\ (step = 0 \/ Budget - out >= StepFloor)

\* While the turn runs it stays within its budget, or within the least a request
\* is given; its last reply alone may pass that.  Count holds until a cut reply's usage is lost.
Thrift ==
  /\ Loop /\ Share
  /\ phase # "over" => Count /\ spent <= Allowance
  /\ BudgetHolds

\* What a step leaves for the answer.
LEMMA ReserveIsNat == Reserve \in Nat
<1>1. Budget \div 4 \in Nat
  BY TurnAssumption
<1> QED
  BY <1>1, TurnAssumption DEF Reserve

\* A request is given something, and no more than what is left and the least.
LEMMA GivenIsBounded ==
  ASSUME Loop, NEW final \in BOOLEAN
  PROVE  /\ Given(final) \in Nat /\ MinGiven <= Given(final)
         /\ Given(final) <= MinGiven \/ Given(final) <= Budget - out
<1>1. Reserve \in Nat
  BY ReserveIsNat
<1>2. Budget \in Nat /\ MinGiven \in Nat /\ out \in Int
  BY TurnAssumption DEF Loop
<1> DEFINE left == Budget - out - (IF thinking /\ ~final THEN Reserve ELSE 0)
<1>3. left \in Int /\ left <= Budget - out
  BY <1>1, <1>2
<1> QED
  BY <1>2, <1>3 DEF Given

\* A reply that is not the last fits in the budget.
LEMMA NotLastFits ==
  ASSUME Thrift, phase = "streaming", ~request.final
  PROVE  /\ request.given \in Nat /\ spent + request.given <= Allowance
         /\ ~guessed /\ out = spent
<1>1. Loop /\ Count /\ request.given = Given(FALSE) /\ ~cutOff
      /\ (step = 0 \/ Budget - out >= StepFloor)
  BY DEF Thrift, Share, Loop
<1>2. ~guessed /\ out = spent
  BY <1>1 DEF Count
<1>3. /\ request.given \in Nat
      /\ request.given <= MinGiven \/ request.given <= Budget - out
  BY <1>1, GivenIsBounded
<1>4. out = 0 \/ MinGiven <= Budget - out
  BY <1>1, TurnAssumption DEF Count, Loop
<1>5. Budget \in Nat /\ MinGiven \in Nat /\ spent \in Nat
  BY <1>1, TurnAssumption DEF Loop
<1>6. spent + request.given <= Allowance
  BY <1>2, <1>3, <1>4, <1>5
<1> QED
  BY <1>2, <1>3, <1>5, <1>6

\* Nor does any reply pass the bound.
LEMMA AnyReplyIsBounded ==
  ASSUME Thrift, phase = "streaming"
  PROVE  request.given \in Nat /\ spent + request.given <= Allowance + MinGiven + Slip
<1>1. Loop /\ Count /\ spent <= Allowance /\ request.given = Given(request.final)
      /\ request.final \in BOOLEAN
  BY DEF Thrift, Share, Loop
<1>2. /\ request.given \in Nat
      /\ request.given <= MinGiven \/ request.given <= Budget - out
  BY <1>1, GivenIsBounded
<1> QED
  BY <1>1, <1>2, TurnAssumption DEF Count, Loop

\* What a reply used is part of what it was given.
LEMMA UsedIsBounded ==
  ASSUME NEW n \in Used, request.given \in Nat
  PROVE  n \in Nat /\ n <= request.given
  BY TurnAssumption DEF Used

\* A turn begins with its whole budget.
LEMMA InitThrift == Init => Thrift
<1> SUFFICES ASSUME Init PROVE Thrift
  OBVIOUS
<1>1. Loop /\ Share
  <2>1. request \in [final : BOOLEAN, given : Int]
    BY NoRequestTyped DEF Init
  <2>2. phase = "asking" /\ ending = "none" /\ thinking \in BOOLEAN
        /\ step = 0 /\ out = 0 /\ spent = 0 /\ cutOff = FALSE /\ guessed = FALSE
    BY DEF Init
  <2>3. Loop
    <3>1. step \in Nat /\ out \in Int /\ spent \in Nat
      BY <2>2
    <3>2. cutOff \in BOOLEAN /\ guessed \in BOOLEAN
      BY <2>2
    <3>3. phase \in {"asking", "streaming", "tools", "calling", "over"}
      BY <2>2
    <3> QED
      BY <2>1, <2>2, <3>1, <3>2, <3>3 DEF Loop
  <2>4. Share
    BY <2>2 DEF Share
  <2> QED
    BY <2>3, <2>4
<1>2. Count /\ spent <= Allowance
  BY TurnAssumption DEF Init, Count
<1>3. BudgetHolds
  BY TurnAssumption DEF Init, BudgetHolds
<1> QED
  BY <1>1, <1>2, <1>3 DEF Thrift

\* A step that leaves the count, and the request if there is one.
LEMMA CountStays ==
  ASSUME Thrift, Loop', ending' = ending, phase # "over", phase' # "over",
         out' = out, spent' = spent, guessed' = guessed, cutOff' = cutOff,
         thinking' = thinking,
         phase' = "streaming" => phase = "streaming" /\ request' = request /\ step' = step,
         step' = 0 /\ phase' \in {"asking", "streaming"} =>
           step = 0 /\ phase \in {"asking", "streaming"}
  PROVE  Thrift'
<1>1. Count' /\ spent' <= Allowance
  BY DEF Thrift, Count
<1>2. Share'
  BY DEF Thrift, Share, Given
<1>3. BudgetHolds'
  BY DEF Thrift, BudgetHolds
<1> QED
  BY <1>1, <1>2, <1>3 DEF Thrift

\* A step that asks the model.
LEMMA AskThrift == Thrift /\ Ask => Thrift'
<1> SUFFICES ASSUME Thrift, Ask PROVE Thrift'
  OBVIOUS
<1> USE DEF Ask
<1>1. PICK full \in BOOLEAN : request' = [final |-> Final(full), given |-> Given(Final(full))]
  OBVIOUS
<1>2. Loop /\ Count /\ spent <= Allowance /\ Final(full) \in BOOLEAN
  BY DEF Thrift, Final, Loop
<1>3. Given(Final(full)) \in Nat
  BY <1>2, GivenIsBounded
<1>4. Loop'
  BY <1>1, <1>2, <1>3 DEF Loop
<1>5. Count'
  BY <1>2 DEF Count
<1>6. Share'
  <2>1. request'.given = Given(Final(full)) /\ request'.final = Final(full)
    BY <1>1
  <2>2. Given(request.final)' = Given(Final(full))
    BY <2>1 DEF Given
  <2>3. ~Final(full) => ~cutOff /\ (step = 0 \/ Budget - out >= StepFloor)
    BY <1>2, TurnAssumption DEF Final, Loop
  <2> QED
    BY <1>1, <2>1, <2>2, <2>3 DEF Share
<1>7. BudgetHolds'
  BY DEF Thrift, BudgetHolds
<1> QED
  BY <1>2, <1>4, <1>5, <1>6, <1>7 DEF Thrift

\* Replies that are not the last one, counted or estimated.
LEMMA StepThrift ==
  Thrift /\ (CloseThinking \/ ThoughtThrough \/ CallCut \/ ToolStep) => Thrift'
<1> SUFFICES ASSUME Thrift, CloseThinking \/ ThoughtThrough \/ CallCut \/ ToolStep
             PROVE  Thrift'
  OBVIOUS
<1>1. phase = "streaming" /\ ~request.final
  BY DEF CloseThinking, ThoughtThrough, CallCut, ToolStep, Streaming
<1>2. /\ request.given \in Nat /\ spent + request.given <= Allowance
      /\ ~guessed /\ out = spent
  BY <1>1, NotLastFits
<1>3. Loop /\ ending = "none" /\ spent \in Nat /\ Budget \in Nat /\ MinGiven \in Nat /\ Slip \in Nat
  BY <1>1, TurnAssumption DEF Thrift, Loop
<1>4. CASE CloseThinking
  <2> USE DEF CloseThinking, NextStep
  <2>1. PICK n \in Used, slip \in -Slip..Slip :
          spent' = spent + n /\ out' = out + n + slip
    BY <1>4
  <2>2. n \in Nat /\ n <= request.given
    BY <1>2, UsedIsBounded
  <2>3. /\ spent' \in Nat /\ spent' <= Allowance /\ out' \in Int
        /\ -Slip <= out' - spent' /\ out' - spent' <= Slip
    BY <1>2, <1>3, <2>1, <2>2
  <2>4. Loop' /\ Share'
    BY <1>3, <1>4, <2>3, NoRequestTyped DEF Loop, Share
  <2>5. Count'
    BY <1>3, <1>4, <2>3 DEF Count, Loop
  <2>6. BudgetHolds'
    BY <1>3, <1>4, <2>3 DEF BudgetHolds
  <2> QED
    BY <2>3, <2>4, <2>5, <2>6 DEF Thrift
<1>5. CASE ThoughtThrough
  <2> USE DEF ThoughtThrough, NextStep, Counted
  <2>1. /\ spent' = spent + request.given /\ out' = spent' /\ spent' \in Nat
        /\ spent' <= Allowance /\ guessed' = FALSE
    BY <1>2, <1>3, <1>5 DEF Loop
  <2>2. Loop' /\ Share'
    BY <1>3, <1>5, <2>1, NoRequestTyped DEF Loop, Share
  <2>3. Count'
    BY <1>3, <1>5, <2>1 DEF Count, Loop
  <2>4. BudgetHolds'
    BY <1>3, <1>5, <2>1 DEF BudgetHolds
  <2> QED
    BY <2>1, <2>2, <2>3, <2>4 DEF Thrift
<1>6. CASE CallCut
  <2> USE DEF CallCut, NextStep, Over, Counted
  <2>1. /\ spent' = spent + request.given /\ out' = spent' /\ spent' \in Nat
        /\ spent' <= Allowance /\ guessed' = FALSE /\ cutOff'
    BY <1>2, <1>3, <1>6 DEF Loop
  <2>2. BudgetHolds'
    BY <1>3, <1>6, <2>1 DEF BudgetHolds
  <2>3. CASE stop
    <3>0. request' = NoRequest
      BY <1>6, <2>3
    <3>1. request' \in [final : BOOLEAN, given : Int]
      BY <3>0, NoRequestTyped
    <3>2. Loop' /\ Share' /\ phase' = "over"
      BY <1>3, <1>6, <2>1, <2>3, <3>1 DEF Loop, Share
    <3> QED
      BY <2>2, <3>2 DEF Thrift
  <2>4. CASE ~stop
    <3>0. request' = NoRequest
      BY <1>6, <2>4
    <3>1. request' \in [final : BOOLEAN, given : Int]
      BY <3>0, NoRequestTyped
    <3>2. Loop' /\ Share'
      BY <1>3, <1>6, <2>1, <2>4, <3>1 DEF Loop, Share
    <3>3. Count'
      BY <1>3, <1>6, <2>1, <2>4 DEF Count, Loop
    <3> QED
      BY <2>1, <2>2, <3>2, <3>3 DEF Thrift
  <2> QED
    BY <2>3, <2>4
<1>7. CASE ToolStep
  <2> USE DEF ToolStep, Counted
  <2>1. PICK n \in Used : spent' = spent + n /\ out' = out + n
    BY <1>7
  <2>2. n \in Nat /\ n <= request.given
    BY <1>2, UsedIsBounded
  <2>3. spent' \in Nat /\ spent' <= Allowance /\ out' = spent' /\ guessed' = FALSE
    BY <1>2, <1>3, <1>7, <2>1, <2>2 DEF Loop
  <2>4. Loop' /\ Share'
    BY <1>3, <1>7, <2>3, NoRequestTyped DEF Loop, Share
  <2>5. Count'
    BY <1>3, <1>7, <2>3 DEF Count, Loop
  <2>6. BudgetHolds'
    BY <1>3, <1>7, <2>3 DEF BudgetHolds
  <2> QED
    BY <2>3, <2>4, <2>5, <2>6 DEF Thrift
<1> QED
  BY <1>4, <1>5, <1>6, <1>7

\* Replies that end the turn.
LEMMA EndThrift == Thrift /\ (Answer \/ StopNoticed \/ UpstreamFails) => Thrift'
<1> SUFFICES ASSUME Thrift, Answer \/ StopNoticed \/ UpstreamFails PROVE Thrift'
  OBVIOUS
<1>1. /\ Loop /\ Count /\ ending = "none" /\ spent <= Allowance
      /\ spent \in Nat /\ Budget \in Nat /\ MinGiven \in Nat /\ Slip \in Nat
  BY TurnAssumption DEF Thrift, Loop, Answer, StopNoticed, UpstreamFails
<1>2. CASE Answer
  <2> USE DEF Answer, Over, Counted
  <2>1. PICK n \in Used : spent' = spent + n /\ out' = out + n
    BY <1>2
  <2>2. n \in Nat /\ n <= request.given /\ spent + request.given <= Allowance + MinGiven + Slip
    BY <1>2, AnyReplyIsBounded, UsedIsBounded
  <2>3. /\ spent' \in Nat /\ spent' <= Allowance + MinGiven + Slip /\ out' \in Int
        /\ ~guessed' => out' = spent'
    BY <1>1, <1>2, <2>1, <2>2, AnyReplyIsBounded DEF Loop, Count
  <2>4. Loop' /\ Share' /\ phase' = "over"
    BY <1>1, <1>2, <2>3, NoRequestTyped DEF Loop, Share
  <2>5. BudgetHolds'
    BY <1>2, <2>3 DEF BudgetHolds
  <2> QED
    BY <2>4, <2>5 DEF Thrift
<1>3. CASE phase = "streaming" /\ (StopNoticed \/ UpstreamFails)
  <2> USE DEF StopNoticed, UpstreamFails, Over
  <2>1. PICK n \in Used : spent' = spent + n
    BY <1>3
  <2>2. n \in Nat /\ n <= request.given /\ spent + request.given <= Allowance + MinGiven + Slip
    BY <1>3, AnyReplyIsBounded, UsedIsBounded
  <2>3. spent' \in Nat /\ spent' <= Allowance + MinGiven + Slip
    BY <1>1, <1>3, <2>1, <2>2, AnyReplyIsBounded
  <2>0. request' = NoRequest
    BY <1>3
  <2>4. request' \in [final : BOOLEAN, given : Int]
    BY <2>0, NoRequestTyped
  <2>5. Loop' /\ Share' /\ phase' = "over" /\ ending' \in {"stopped", "failed"}
    BY <1>1, <1>3, <2>3, <2>4 DEF Loop, Share
  <2>6. BudgetHolds'
    BY <2>3, <2>5 DEF BudgetHolds
  <2> QED
    BY <2>5, <2>6 DEF Thrift
<1>4. CASE phase # "streaming" /\ StopNoticed
  <2> USE DEF StopNoticed, Over
  <2>1. Loop' /\ Share' /\ phase' = "over" /\ ending' = "stopped" /\ spent' = spent
    BY <1>1, <1>4, NoRequestTyped DEF Loop, Share
  <2>2. BudgetHolds'
    BY <1>1, <2>1 DEF BudgetHolds
  <2> QED
    BY <2>1, <2>2 DEF Thrift
<1> QED
  BY <1>2, <1>3, <1>4 DEF UpstreamFails

\* Every tool returns in the same way.
LEMMA ToolReturns ==
  ASSUME RunTool
  PROVE  \E pics \in {0, 1} : Return(pics)
  BY DEF RunTool, Plain, WebSearch, ImageSearch, Found, ReadPage, ViewPhoto, ViewWebImage,
         ReadDocument, WriteFile

\* Everything else leaves the count alone.
LEMMA RestThrift ==
  Thrift /\ (Say \/ (\E t \in Tools : Call(t)) \/ StartTool \/ RunTool \/ Deadline \/ Stop)
    => Thrift'
<1>1. ASSUME Thrift, Say \/ \E t \in Tools : Call(t) PROVE Thrift'
  <2>1. Loop' /\ phase = "streaming"
    BY <1>1 DEF Thrift, Loop, Say, Call, Streaming
  <2> QED
    BY <1>1, <2>1, CountStays DEF Say, Call
<1>2. ASSUME Thrift, StartTool PROVE Thrift'
  <2>1. Loop' /\ phase = "tools"
    BY <1>2 DEF Thrift, Loop, StartTool
  <2> QED
    BY <1>2, <2>1, CountStays DEF StartTool
<1>3. ASSUME Thrift, RunTool PROVE Thrift'
  <2>1. PICK pics \in {0, 1} : Return(pics)
    BY <1>3, ToolReturns
  <2> USE DEF Return, NextStep
  <2>0. request' = NoRequest \/ request' = request
    BY <2>1
  <2>2. request' \in [final : BOOLEAN, given : Int]
    BY <1>3, <2>0, NoRequestTyped DEF Thrift, Loop
  <2>3. Loop' /\ phase = "calling" /\ phase' \in {"tools", "asking"}
        /\ (phase' = "asking" => step' # 0)
    BY <1>3, <2>1, <2>2 DEF Thrift, Loop
  <2> QED
    BY <1>3, <2>1, <2>3, CountStays
<1>4. ASSUME Thrift, Deadline \/ Stop PROVE Thrift'
  <2>1. Loop' /\ phase # "over" /\ phase' = phase
    BY <1>4 DEF Thrift, Loop, Deadline, Stop
  <2> QED
    BY <1>4, <2>1, CountStays DEF Deadline, Stop
<1> QED
  BY <1>1, <1>2, <1>3, <1>4

\* Nothing happens to the budget while nothing happens.
LEMMA StutterThrift == Thrift /\ UNCHANGED vars => Thrift'
  BY DEF vars, Thrift, Loop, Share, Count, Given, BudgetHolds

\* Every step leaves the turn within its budget.
LEMMA NextThrift == Thrift /\ [Next]_vars => Thrift'
  BY AskThrift, StepThrift, EndThrift, RestThrift, StutterThrift DEF Next

\* However many steps a turn takes and however they end, it writes no more than
\* its budget, the least a request is given and the error of one estimate; and
\* what it is billed for is what it wrote.
THEOREM BudgetIsShared == Spec => []BudgetHolds
<1>1. Init => Thrift
  BY InitThrift
<1>2. Thrift /\ [Next]_vars => Thrift'
  BY NextThrift
<1>3. Thrift => BudgetHolds
  BY DEF Thrift
<1> QED
  BY <1>1, <1>2, <1>3, PTL DEF Spec
-----------------------------------------------------------------------------
(* Reading a document *)

\* A set of numbers below a bound has a greatest.
LEMMA Greatest ==
  ASSUME NEW n \in Nat, NEW S \in SUBSET (0..n), S # {}
  PROVE  \E m \in S : \A k \in S : k <= m
<1> DEFINE T == {n - k : k \in S}
<1>1. T \in SUBSET Nat /\ T # {}
  <2>1. \A k \in S : n - k \in Nat
    OBVIOUS
  <2>2. T \in SUBSET Nat
    BY <2>1
  <2> QED
    BY <2>2
<1>2. PICK d \in T : \A e \in T : <<e, d>> \notin OpToRel(<, Nat)
  BY <1>1, NatLessThanWellFounded, WFMin
<1>3. PICK m \in S : d = n - m
  OBVIOUS
<1>4. \A k \in S : k <= m
  <2> TAKE k \in S
  <2>1. n - k \in T /\ n - k \in Nat /\ d \in Nat
    BY <1>1, <1>2
  <2>2. ~(n - k < d)
    BY <1>2, <2>1 DEF OpToRel
  <2> QED
    BY <1>3, <2>2
<1> QED
  BY <1>4

\* A part ends inside the document, and unless it ends with it, it is more than
\* half of what a part may be.
LEMMA PartIsLong ==
  ASSUME NEW start \in 0..DocChars
  PROVE  /\ WindowEnd(start) \in 0..DocChars
         /\ \/ WindowEnd(start) = DocChars
            \/ WindowEnd(start) >= start + (ReadChars \div 2 + 1)
<1> DEFINE h == ReadChars \div 2
           end == IF start + ReadChars < DocChars THEN start + ReadChars ELSE DocChars
           inside == {b \in Breaks : start + h <= b /\ b < end /\ b > start}
<1>1. DocChars \in Nat /\ ReadChars \in Nat /\ ReadChars >= 1
      /\ h \in Nat /\ h + 1 <= ReadChars /\ Breaks \subseteq 0..(DocChars - 1)
  BY TurnAssumption
<1>2. end \in 0..DocChars /\ (end = DocChars \/ end = start + ReadChars)
  BY <1>1
<1>3. CASE end < DocChars /\ inside # {}
  <2>1. inside \in SUBSET (0..DocChars)
    <3>1. 0..(DocChars - 1) \subseteq 0..DocChars
      BY <1>1
    <3>2. inside \subseteq Breaks
      OBVIOUS
    <3> QED
      BY <1>1, <3>1, <3>2, Zenon
  <2>2. \E b \in inside : \A c \in inside : c <= b
    BY <1>1, <1>3, <2>1, Greatest
  <2>3. PICK b \in inside : WindowEnd(start) = b + 1
    BY <1>3, <2>2 DEF WindowEnd
  <2> QED
    BY <1>1, <1>2, <2>3
<1>4. CASE ~(end < DocChars /\ inside # {})
  <2>1. WindowEnd(start) = end
    BY <1>4 DEF WindowEnd
  <2> QED
    BY <1>1, <1>2, <2>1
<1> QED
  BY <1>3, <1>4

Reading == at \in 0..DocChars /\ reads \in Nat /\ ReadingGetsThrough

\* Every step leaves the reader of a document further on.
LEMMA NextReading == Reading /\ [Next]_vars => Reading'
<1> SUFFICES ASSUME Reading, [Next]_vars PROVE Reading'
  OBVIOUS
<1>1. CASE \E start \in 0..DocChars : ReadDocument(start)
  <2>1. PICK start \in 0..DocChars : ReadDocument(start)
    BY <1>1
  <2>2. /\ start \in {0, at} /\ at' = WindowEnd(start)
        /\ reads' = (IF start = 0 THEN 0 ELSE reads) + 1
    BY <2>1 DEF ReadDocument
  <2> DEFINE h == ReadChars \div 2 + 1
  <2>3. h \in Nat /\ DocChars \in Nat
    BY TurnAssumption
  <2>4. /\ at \in 0..DocChars /\ reads \in Nat
        /\ at = DocChars \/ reads * h <= at
    BY DEF Reading, ReadingGetsThrough
  <2>5. /\ at' \in 0..DocChars
        /\ at' = DocChars \/ at' >= start + h
    BY <2>2, PartIsLong
  <2>6. CASE start = 0
    <3>1. reads' = 1 /\ 1 * h = h
      BY <2>2, <2>3, <2>6
    <3>2. at' = DocChars \/ reads' * h <= at'
      BY <2>3, <2>5, <2>6, <3>1
    <3> QED
      BY <2>5, <3>1, <3>2 DEF Reading, ReadingGetsThrough
  <2>7. CASE start # 0
    <3>1. start = at /\ reads' = reads + 1
      BY <2>2, <2>7
    <3>2. reads' \in Nat /\ reads' * h = reads * h + h /\ reads * h \in Nat
      BY <2>3, <2>4, <3>1
    <3>3. at' = DocChars \/ reads' * h <= at'
      <4>1. CASE at = DocChars
        BY <2>3, <2>5, <3>1, <4>1
      <4>2. CASE reads * h <= at
        BY <2>3, <2>4, <2>5, <3>1, <3>2, <4>2
      <4> QED
        BY <2>4, <4>1, <4>2
    <3> QED
      BY <2>5, <3>2, <3>3 DEF Reading, ReadingGetsThrough
  <2> QED
    BY <2>6, <2>7
<1>2. CASE UNCHANGED <<at, reads>>
  BY <1>2 DEF Reading, ReadingGetsThrough
<1>3. (\E start \in 0..DocChars : ReadDocument(start)) \/ UNCHANGED <<at, reads>>
  BY DEF Next, vars, Ask, Say, Call, CloseThinking, ThoughtThrough, CallCut, Answer, ToolStep,
         StartTool, RunTool, Plain, WebSearch, ImageSearch, Found, ReadPage, ViewPhoto,
         ViewWebImage, WriteFile, Deadline, Stop, StopNoticed, UpstreamFails
<1> QED
  BY <1>1, <1>2, <1>3

\* A model that follows "continues" gets through any document, whatever its line
\* breaks and the length of a part: it is never told to continue where it began.
THEOREM ReadingNeverStalls == Spec => []ReadingGetsThrough
<1>1. Init => Reading
  BY TurnAssumption DEF Init, Reading, ReadingGetsThrough
<1>2. Reading => ReadingGetsThrough
  BY DEF Reading
<1> QED
  BY <1>1, <1>2, NextReading, PTL DEF Spec

-----------------------------------------------------------------------------
(* The files a turn changed *)

Workspace ==
  /\ changed \in [Paths -> {"no", "created", "edited"}]
  /\ before \subseteq files
  /\ FilesAreTold

\* Every step leaves the list of files true.
LEMMA NextWorkspace == Workspace /\ [Next]_vars => Workspace'
<1> SUFFICES ASSUME Workspace, [Next]_vars PROVE Workspace'
  OBVIOUS
<1>1. CASE \E p \in Paths : WriteFile(p)
  <2>1. PICK p \in Paths : WriteFile(p)
    BY <1>1
  <2>2. /\ files' = files \cup {p} /\ before' = before
        /\ changed' = [changed EXCEPT ![p] = Change(p)]
    BY <2>1 DEF WriteFile, Return
  <2>3. Change(p) \in {"no", "created", "edited"}
    BY DEF Change, Workspace
  <2>4. changed' \in [Paths -> {"no", "created", "edited"}] /\ before' \subseteq files'
    BY <2>2, <2>3 DEF Workspace
  <2>5. /\ changed'[p] = "created" <=> p \in files' \ before'
        /\ changed'[p] = "edited" => p \in before'
    BY <2>2 DEF Workspace, FilesAreTold, Change
  <2>6. ASSUME NEW q \in Paths, q # p
        PROVE  /\ changed'[q] = "created" <=> q \in files' \ before'
               /\ changed'[q] = "edited" => q \in before'
    BY <2>2, <2>6 DEF Workspace, FilesAreTold
  <2> QED
    BY <2>4, <2>5, <2>6 DEF Workspace, FilesAreTold
<1>2. CASE UNCHANGED <<files, changed, before>>
  BY <1>2 DEF Workspace, FilesAreTold
<1>3. (\E p \in Paths : WriteFile(p)) \/ UNCHANGED <<files, changed, before>>
  BY DEF Next, vars, Ask, Say, Call, CloseThinking, ThoughtThrough, CallCut, Answer, ToolStep,
         StartTool, RunTool, Return, Plain, WebSearch, ImageSearch, Found, ReadPage, ViewPhoto,
         ViewWebImage, ReadDocument, Deadline, Stop, StopNoticed, UpstreamFails
<1> QED
  BY <1>1, <1>2, <1>3

\* The reply's list of files is true of any workspace: "created" are those that
\* were not there when the turn began, "edited" only files that were.
THEOREM FilesToldTruly == Spec => []FilesAreTold
<1>1. Init => Workspace
  BY DEF Init, Workspace, FilesAreTold
<1>2. Workspace => FilesAreTold
  BY DEF Workspace
<1> QED
  BY <1>1, <1>2, NextWorkspace, PTL DEF Spec

-----------------------------------------------------------------------------
(* The sources: numbering as a fold *)

\* Induction over the natural numbers, for a set.
LEMMA ByNumber ==
  ASSUME NEW S, 0 \in S, \A n \in Nat : n \in S => n + 1 \in S
  PROVE  Nat \subseteq S
<1> DEFINE rest == Nat \ S
<1> SUFFICES ASSUME rest # {} PROVE FALSE
  OBVIOUS
<1>1. PICK m \in rest : \A k \in rest : ~ (<<k, m>> \in OpToRel(<, Nat))
  BY NatLessThanWellFounded, WFMin
<1>2. m # 0 /\ m - 1 \in Nat /\ m - 1 \notin S
  OBVIOUS
<1>3. <<m - 1, m>> \in OpToRel(<, Nat)
  BY <1>2 DEF OpToRel
<1> QED
  BY <1>1, <1>2, <1>3

\* g cites the addresses us[i], i \in s, after those known, for any s: FoldLeft's
\* function.
Cites(known, us, g) ==
  g = [s \in SUBSET DOMAIN us |->
         IF s = {} THEN known ELSE Cite(g[s \ {Max(s)}], us[Max(s)])]

\* The greatest of finitely many numbers is one of them.
LEMMA MaxIsIn ==
  ASSUME NEW n \in Nat, NEW s \in SUBSET (1..n), s # {}
  PROVE  Max(s) \in s /\ \A k \in s : k <= Max(s)
<1>1. s \in SUBSET (0..n)
  <2>1. 1..n \subseteq 0..n
    OBVIOUS
  <2> QED
    BY <2>1
<1>2. \E m \in s : \A k \in s : k <= m
  BY <1>1, Greatest
<1>3. \E m \in s : \A k \in s : m >= k
  <2>1. s \subseteq Int
    OBVIOUS
  <2> QED
    BY <1>2, <2>1
<1>4. Max(s) \in s /\ \A k \in s : Max(s) >= k
  BY <1>3 DEF Max
<1> QED
  BY <1>4

\* There is such a g.
LEMMA CitesExists ==
  ASSUME NEW known, NEW us, NEW n \in Nat, DOMAIN us = 1..n
  PROVE  \E g : Cites(known, us, g)
<1> DEFINE S == 1..n
           Small(m) == {s \in SUBSET S : \A i \in s : i <= m}
           Body(g, s) == IF s = {} THEN known ELSE Cite(g[s \ {Max(s)}], us[Max(s)])
           Done == {m \in Nat : \E g : g = [s \in Small(m) |-> Body(g, s)]}
<1>2. \A m \in Nat : \A s \in Small(m + 1) : s # {} => s \ {Max(s)} \in Small(m)
  <2> SUFFICES ASSUME NEW m \in Nat, NEW s \in Small(m + 1), s # {}
               PROVE  s \ {Max(s)} \in Small(m)
    OBVIOUS
  <2>1. Max(s) \in s /\ \A k \in s : k <= Max(s)
    BY MaxIsIn
  <2>2. ASSUME NEW k \in s \ {Max(s)} PROVE k <= m
    <3>0. \A i \in s : i \in Nat /\ i <= m + 1
      OBVIOUS
    <3> HIDE DEF Small
    <3>1. k \in Nat /\ Max(s) \in Nat /\ k <= Max(s) /\ Max(s) <= m + 1 /\ k # Max(s)
      BY <2>1, <3>0
    <3> QED
      BY <3>1
  <2> QED
    BY <2>2
<1>3. 0 \in Done
  <2> DEFINE g == [s \in Small(0) |-> known]
  <2>1. \A s \in Small(0) : s = {}
    OBVIOUS
  <2>2. g = [s \in Small(0) |-> Body(g, s)]
    BY <2>1
  <2> QED
    BY <2>2
<1>4. ASSUME NEW m \in Nat, m \in Done PROVE m + 1 \in Done
  <2>1. PICK g : g = [s \in Small(m) |-> Body(g, s)]
    BY <1>4
  <2> DEFINE h == [s \in Small(m + 1) |-> Body(g, s)]
  <2>2. \A s \in Small(m) : s \in Small(m + 1)
    OBVIOUS
  <2>3. \A s \in Small(m) : h[s] = g[s]
    BY <2>1, <2>2
  <2>4. \A s \in Small(m + 1) : Body(g, s) = Body(h, s)
    <3> HIDE DEF h
    <3> SUFFICES ASSUME NEW s \in Small(m + 1) PROVE Body(g, s) = Body(h, s)
      OBVIOUS
    <3>1. s # {} => s \ {Max(s)} \in Small(m)
      BY <1>2
    <3> HIDE DEF Small
    <3> QED
      BY <2>3, <3>1
  <2>5. h = [s \in Small(m + 1) |-> Body(h, s)]
    <3> HIDE DEF Small, Body
    <3> QED
      BY <2>4
  <2>6. \E k : k = [s \in Small(m + 1) |-> Body(k, s)]
    <3> HIDE DEF h, Small, Body
    <3> QED
      BY <2>5
  <2>7. m + 1 \in Nat
    OBVIOUS
  <2> QED
    <3> HIDE DEF Small, Body
    <3> QED
      BY <2>6, <2>7
<1>5. Nat \subseteq Done
  <2> HIDE DEF Done
  <2> QED
    BY <1>3, <1>4, ByNumber
<1>6. Small(n) = SUBSET S
  OBVIOUS
<1>7. PICK g : g = [s \in Small(n) |-> Body(g, s)]
  BY <1>5
<1> QED
  BY <1>6, <1>7 DEF Cites

\* Numbers are kept, and no address gets two.
Distinct(s) == \A i, k \in 1..Len(s) : s[i] = s[k] => i = k
Extends(known, r) ==
  /\ r \in Seq(Urls) /\ Len(known) <= Len(r)
  /\ \A i \in 1..Len(known) : r[i] = known[i]
  /\ Distinct(known) => Distinct(r)

\* Citing one address extends what is known by it, or by nothing.
LEMMA CiteExtends ==
  ASSUME NEW known \in Seq(Urls), NEW u \in Urls
  PROVE  Extends(known, Cite(known, u))
<1>1. CASE u \in ToSet(known)
  BY <1>1 DEF Cite, Extends
<1>2. CASE u \notin ToSet(known)
  <2>1. Cite(known, u) = Append(known, u)
    BY <1>2 DEF Cite
  <2>2. \A i \in 1..Len(known) : known[i] # u
    BY <1>2 DEF ToSet
  <2>3. /\ Append(known, u) \in Seq(Urls) /\ Len(Append(known, u)) = Len(known) + 1
        /\ \A i \in 1..Len(known) : Append(known, u)[i] = known[i]
        /\ Append(known, u)[Len(known) + 1] = u
    OBVIOUS
  <2>4. Distinct(known) => Distinct(Append(known, u))
    BY <2>2, <2>3 DEF Distinct
  <2> QED
    BY <2>1, <2>3, <2>4 DEF Extends
<1> QED
  BY <1>1, <1>2

\* Extending what was extended.
LEMMA ExtendsIsTransitive ==
  ASSUME NEW a \in Seq(Urls), NEW b, NEW c, Extends(a, b), Extends(b, c)
  PROVE  Extends(a, c)
  BY DEF Extends

\* Numbering several addresses numbers the new ones after the known.
LEMMA NumberingExtends ==
  ASSUME NEW known \in Seq(Urls), NEW us \in Seq(Urls)
  PROVE  Extends(known, FoldLeft(Cite, known, us))
<1> DEFINE n == Len(us)
           g == CHOOSE f : Cites(known, us, f)
           Done == {m \in Nat : m <= n => Extends(known, g[1..m])}
<1>1. n \in Nat /\ DOMAIN us = 1..n
  OBVIOUS
<1>2. FoldLeft(Cite, known, us) = g[1..n]
  BY <1>1 DEF FoldLeft, MapThenFoldSet, Cites
<1>3. Cites(known, us, g)
  BY <1>1, CitesExists
<1>4. \A s \in SUBSET (1..n) :
        g[s] = IF s = {} THEN known ELSE Cite(g[s \ {Max(s)}], us[Max(s)])
  <2> HIDE DEF g
  <2> QED
    BY <1>1, <1>3 DEF Cites
<1>5. 0 \in Done
  <2>1. 1..0 = {}
    OBVIOUS
  <2>2. g[1..0] = known
    <3> HIDE DEF g
    <3> QED
      BY <1>4, <2>1
  <2>3. Extends(known, known)
    BY DEF Extends
  <2> HIDE DEF g
  <2> QED
    BY <2>2, <2>3
<1>6. ASSUME NEW m \in Nat, m \in Done PROVE m + 1 \in Done
  <2> HIDE DEF g
  <2> SUFFICES ASSUME m + 1 <= n PROVE Extends(known, g[1..(m + 1)])
    BY <1>6
  <2>1. 1..(m + 1) \in SUBSET (1..n) /\ m + 1 \in 1..(m + 1) /\ 1..(m + 1) # {}
    <3>1. \A i \in 1..(m + 1) : i \in 1..n
      BY <1>1
    <3>2. m + 1 \in 1..(m + 1)
      OBVIOUS
    <3> QED
      BY <3>1, <3>2, Zenon
  <2>2. Max(1..(m + 1)) = m + 1
    <3> DEFINE s == 1..(m + 1)
    <3>1. s \in SUBSET (1..n) /\ s # {}
      BY <2>1
    <3> HIDE DEF s
    <3>2. Max(s) \in s /\ \A k \in s : k <= Max(s)
      BY <1>1, <3>1, MaxIsIn
    <3> USE DEF s
    <3> QED
      BY <2>1, <3>2
  <2>3. (1..(m + 1)) \ {m + 1} = 1..m
    OBVIOUS
  <2>4. g[1..(m + 1)] = Cite(g[1..m], us[m + 1])
    BY <1>4, <2>1, <2>2, <2>3
  <2>5. Extends(known, g[1..m])
    BY <1>1, <1>6
  <2>6. us[m + 1] \in Urls
    BY <1>1
  <2>7. Extends(g[1..m], Cite(g[1..m], us[m + 1]))
    BY <2>5, <2>6, CiteExtends DEF Extends
  <2> QED
    BY <2>4, <2>5, <2>7, ExtendsIsTransitive
<1>7. n \in Done
  <2> HIDE DEF Done
  <2>1. Nat \subseteq Done
    BY <1>5, <1>6, ByNumber
  <2> QED
    BY <1>1, <2>1
<1> QED
  BY <1>1, <1>2, <1>7

-----------------------------------------------------------------------------
(* Types *)

MessageRow == [role : {"assistant", "tool", "pictures"}, step : 0..MaxSteps,
               n : Nat, last : BOOLEAN]
TrailRow == [kind : {"note", "ran", "cut"}, step : 0..MaxSteps, n : Nat]

\* Tools are run only in a round there is, and one of the calls is next.
Where ==
  /\ phase = "streaming" => request.given \in Nat /\ (~request.final => step < MaxSteps)
  /\ phase \in {"tools", "calling"} => step < MaxSteps /\ next \in 1..Len(got.calls)

Typed == TypeOK /\ Where

\* BoxTypes, with the rows by their names.
Boxes ==
  /\ messages \in Seq(MessageRow) /\ trail \in Seq(TrailRow)
  /\ content \subseteq 0..MaxSteps /\ spoke \subseteq 0..MaxSteps
  /\ sources \in Seq(Urls) /\ announced \in Seq(Urls) /\ pages \subseteq Urls
  /\ files \subseteq Paths /\ before \subseteq Paths
  /\ changed \in [Paths -> {"no", "created", "edited"}]
  /\ at \in 0..DocChars /\ reads \in Nat

\* They say the same, now and after a step.
LEMMA RowsTyped == (BoxTypes <=> Boxes) /\ (BoxTypes' <=> Boxes')
  BY DEF BoxTypes, Boxes, MessageRow, TrailRow

\* An empty reply is one.
LEMMA NothingTyped == Nothing \in [text : BOOLEAN, bare : BOOLEAN, calls : Seq(Tools), pics : Nat]
  BY DEF Nothing

\* A turn begins with every variable of its type.
LEMMA InitTyped == Init => Typed
<1> SUFFICES ASSUME Init PROVE Typed
  OBVIOUS
<1>1. LoopTypes
  <2>1. request \in [final : BOOLEAN, given : Int]
        /\ got \in [text : BOOLEAN, bare : BOOLEAN, calls : Seq(Tools), pics : Nat]
    BY NoRequestTyped, NothingTyped DEF Init
  <2>2. step \in 0..MaxSteps /\ out \in Nat /\ spent \in Nat /\ next \in Nat \ {0}
    BY TurnAssumption DEF Init
  <2>3. /\ phase \in {"asking", "streaming", "tools", "calling", "over"}
        /\ ending \in {"none", "answered", "stopped", "failed"}
        /\ cutOff \in BOOLEAN /\ cutCall \in BOOLEAN /\ guessed \in BOOLEAN
        /\ thinking \in BOOLEAN /\ late \in BOOLEAN /\ stop \in BOOLEAN
    BY DEF Init
  <2> QED
    BY <2>1, <2>2, <2>3 DEF LoopTypes
<1>2. BoxTypes
  <2>1. at \in 0..DocChars /\ reads \in Nat
    BY TurnAssumption DEF Init
  <2>2. changed \in [Paths -> {"no", "created", "edited"}]
    BY DEF Init
  <2>3. files \subseteq Paths /\ before \subseteq Paths /\ pages \subseteq Urls
        /\ content \subseteq 0..MaxSteps /\ spoke \subseteq 0..MaxSteps
    BY DEF Init
  <2>4. /\ messages = <<>> /\ trail = <<>> /\ sources = <<>> /\ announced = <<>>
    BY DEF Init
  <2> QED
    BY <2>1, <2>2, <2>3, <2>4 DEF BoxTypes
<1>3. Where
  BY DEF Init, Where
<1> QED
  BY <1>1, <1>2, <1>3 DEF Typed, TypeOK

\* What an action leaves alone keeps its type.
LEMMA BoxStays ==
  ASSUME BoxTypes, UNCHANGED <<talkVars, boxVars, announced, before>>
  PROVE  BoxTypes'
  BY RowsTyped DEF Boxes

\* The round after this one, when there is one.
LEMMA NextStepTyped ==
  ASSUME Typed, NextStep, step < MaxSteps, UNCHANGED <<ending, thinking, late, stop>>,
         next' \in Nat \ {0}, cutOff' \in BOOLEAN, cutCall' \in BOOLEAN, guessed' \in BOOLEAN,
         out' \in Nat, spent' \in Nat
  PROVE  LoopTypes' /\ Where' /\ step' \in 0..MaxSteps
<1>1. step' \in 0..MaxSteps /\ phase' = "asking"
  BY TurnAssumption DEF Typed, TypeOK, LoopTypes, NextStep
<1>2. request' \in [final : BOOLEAN, given : Int]
      /\ got' \in [text : BOOLEAN, bare : BOOLEAN, calls : Seq(Tools), pics : Nat]
  BY NoRequestTyped, NothingTyped DEF NextStep
<1>3. Where'
  BY <1>1 DEF Where
<1> QED
  BY <1>1, <1>2, <1>3 DEF Typed, TypeOK, LoopTypes

\* The end of a turn, however it comes.
LEMMA OverTyped ==
  ASSUME Typed, NEW how \in {"answered", "stopped", "failed"}, Over(how),
         UNCHANGED <<step, next, thinking, late, stop>>,
         cutOff' \in BOOLEAN, cutCall' \in BOOLEAN, guessed' \in BOOLEAN,
         out' \in Nat, spent' \in Nat
  PROVE  LoopTypes' /\ Where'
<1>2. request' \in [final : BOOLEAN, given : Int]
      /\ got' \in [text : BOOLEAN, bare : BOOLEAN, calls : Seq(Tools), pics : Nat]
  BY NoRequestTyped, NothingTyped DEF Over
<1>3. Where'
  BY DEF Where, Over
<1> QED
  BY <1>2, <1>3 DEF Typed, TypeOK, LoopTypes, Over

\* Asking the model, and what arrives before its reply is complete.
LEMMA AskTyped == Typed /\ Ask => Typed'
<1> SUFFICES ASSUME Typed, Ask PROVE Typed'
  OBVIOUS
<1>1. PICK full \in BOOLEAN : request' = [final |-> Final(full), given |-> Given(Final(full))]
  BY DEF Ask
<1>2. Final(full) \in BOOLEAN /\ (~Final(full) => step < MaxSteps)
  BY TurnAssumption DEF Final, Typed, TypeOK, LoopTypes
<1>3. Given(Final(full)) \in Nat
  <2>1. Reserve \in Int /\ Budget \in Int /\ out \in Int /\ MinGiven \in Nat
    BY ReserveIsNat, TurnAssumption DEF Typed, TypeOK, LoopTypes
  <2> QED
    BY <2>1 DEF Given
<1>4. request' \in [final : BOOLEAN, given : Int]
  BY <1>1, <1>2, <1>3
<1>5. got' \in [text : BOOLEAN, bare : BOOLEAN, calls : Seq(Tools), pics : Nat]
  BY NothingTyped DEF Ask
<1>6. LoopTypes'
  BY <1>4, <1>5 DEF Ask, Typed, TypeOK, LoopTypes
<1>7. Where'
  BY <1>1, <1>2, <1>3 DEF Ask, Where
<1>8. BoxTypes'
  BY BoxStays DEF Ask, Typed, TypeOK
<1> QED
  BY <1>6, <1>7, <1>8 DEF Typed, TypeOK

\* A piece of a reply: words, or a call.
LEMMA ChunkTyped ==
  ASSUME Typed, Say \/ \E t \in Tools : Call(t)
  PROVE  Typed'
<1>0. phase = "streaming" /\ LoopTypes /\ BoxTypes /\ Where
  BY DEF Say, Call, Streaming, Typed, TypeOK
<1>1. got' \in [text : BOOLEAN, bare : BOOLEAN, calls : Seq(Tools), pics : Nat]
  <2>0. got \in [text : BOOLEAN, bare : BOOLEAN, calls : Seq(Tools), pics : Nat]
    BY <1>0 DEF LoopTypes
  <2>1. CASE Say
    BY <2>0, <2>1 DEF Say
  <2>2. CASE \E t \in Tools : Call(t)
    <3>1. PICK t \in Tools : got' = [got EXCEPT !.calls = Append(@, t)]
      BY <2>2 DEF Call
    <3>2. Append(got.calls, t) \in Seq(Tools)
      BY <2>0
    <3> QED
      BY <2>0, <3>1, <3>2
  <2> QED
    BY <2>1, <2>2
<1>2. LoopTypes'
  BY <1>0, <1>1 DEF LoopTypes, Say, Call
<1>3. Where'
  BY <1>0 DEF Where, Say, Call
<1>4. BoxTypes'
  <2>1. step \in 0..MaxSteps
    BY <1>0 DEF LoopTypes
  <2>2. CASE Say
    <3>1. /\ content' = content \cup {step} /\ spoke' = spoke \cup {step}
          /\ UNCHANGED <<messages, trail, boxVars, announced, before>>
      BY <2>2 DEF Say
    <3> QED
      BY <1>0, <2>1, <3>1, RowsTyped DEF Boxes
  <2>3. CASE \E t \in Tools : Call(t)
    BY <1>0, <2>3, RowsTyped DEF Boxes, Call
  <2> QED
    BY <2>2, <2>3
<1> QED
  BY <1>2, <1>3, <1>4 DEF Typed, TypeOK

\* Rows that a trail gets.
LEMMA PreambleTyped ==
  ASSUME Typed
  PROVE  Preamble \in Seq(TrailRow)
<1>1. Note \in TrailRow
  BY DEF Note, TrailRow, Typed, TypeOK, LoopTypes
<1>2. trail \in Seq(TrailRow)
  BY RowsTyped DEF Typed, TypeOK, Boxes
<1> QED
  BY <1>1, <1>2 DEF Preamble

\* Replies that are not the last.
LEMMA StepTyped ==
  ASSUME Typed, CloseThinking \/ ThoughtThrough \/ CallCut \/ ToolStep
  PROVE  Typed'
<1>0. LoopTypes /\ BoxTypes /\ Where /\ phase = "streaming" /\ step < MaxSteps /\ spent \in Nat /\ out \in Nat
      /\ next \in Nat \ {0} /\ step \in 0..MaxSteps
  BY DEF CloseThinking, ThoughtThrough, CallCut, ToolStep, Streaming, Typed, TypeOK, LoopTypes,
         Where
<1>u. request.given \in Nat /\ \A n \in Used : n \in Nat
  BY <1>0, UsedIsBounded DEF Where
<1>1. CASE CloseThinking
  <2>1. PICK n \in Used, slip \in -Slip..Slip :
          n + slip >= 0 /\ spent' = spent + n /\ out' = out + n + slip
    BY <1>1 DEF CloseThinking
  <2>2. spent' \in Nat /\ out' \in Nat
    BY <1>0, <1>u, <2>1, TurnAssumption
  <2>3. LoopTypes' /\ Where'
    BY <1>0, <1>1, <2>2, NextStepTyped DEF CloseThinking, LoopTypes
  <2>4. BoxTypes'
    BY <1>0, <1>1, BoxStays DEF CloseThinking
  <2> QED
    BY <2>3, <2>4 DEF Typed, TypeOK
<1>2. CASE ThoughtThrough
  <2>1. spent' \in Nat /\ out' \in Nat
    BY <1>0, <1>u, <1>2 DEF ThoughtThrough, Counted
  <2>2. LoopTypes' /\ Where'
    BY <1>0, <1>2, <2>1, NextStepTyped DEF ThoughtThrough, LoopTypes
  <2>3. BoxTypes'
    BY <1>0, <1>2, BoxStays DEF ThoughtThrough
  <2> QED
    BY <2>2, <2>3 DEF Typed, TypeOK
<1>3. CASE CallCut
  <2>1. spent' \in Nat /\ out' \in Nat
    BY <1>0, <1>u, <1>3 DEF CallCut, Counted
  <2>2. LoopTypes' /\ Where'
    <3>1. CASE stop
      <4>1. Over("stopped") /\ UNCHANGED <<step, next, thinking, late, stop>>
        BY <1>3, <3>1 DEF CallCut
      <4>2. cutOff' \in BOOLEAN /\ cutCall' \in BOOLEAN /\ guessed' \in BOOLEAN
        BY <1>0, <1>3 DEF CallCut, LoopTypes
      <4> QED
        BY <2>1, <4>1, <4>2, OverTyped
    <3>2. CASE ~stop
      BY <1>0, <1>3, <2>1, <3>2, NextStepTyped DEF CallCut, LoopTypes
    <3> QED
      BY <3>1, <3>2
  <2>3. trail' \in Seq(TrailRow)
    <3> DEFINE cuts == [i \in 1..Len(got.calls) |-> ToolRow("cut", i)]
    <3>1. Len(got.calls) \in Nat
      BY <1>0 DEF LoopTypes
    <3>2. \A i \in 1..Len(got.calls) : ToolRow("cut", i) \in TrailRow
      BY <1>0, <3>1 DEF ToolRow, TrailRow
    <3>3. cuts \in Seq(TrailRow)
      BY <3>1, <3>2
    <3>4. trail' = Preamble \o cuts
      BY <1>3 DEF CallCut
    <3> HIDE DEF cuts
    <3> QED
      BY <3>3, <3>4, PreambleTyped
  <2>4. BoxTypes'
    BY <1>0, <1>3, <2>3, RowsTyped DEF CallCut, Retold, Boxes, Unsaid
  <2> QED
    BY <2>2, <2>4 DEF Typed, TypeOK
<1>4. CASE ToolStep
  <2>1. spent' \in Nat /\ out' \in Nat
    <3>1. PICK n \in Used : spent' = spent + n /\ out' = out + n
      BY <1>4 DEF ToolStep, Counted
    <3> QED
      BY <1>0, <1>u, <3>1
  <2>2. request' \in [final : BOOLEAN, given : Int]
    BY <1>4, NoRequestTyped DEF ToolStep
  <2>3. LoopTypes'
    BY <1>0, <1>4, <2>1, <2>2 DEF ToolStep, LoopTypes
  <2>4. Len(got.calls) \in Nat /\ Len(got.calls) >= 1
    <3>1. got.calls \in Seq(Tools) /\ got.calls # <<>>
      BY <1>0, <1>4 DEF ToolStep, LoopTypes
    <3> QED
      BY <3>1
  <2>5. Where'
    BY <1>0, <1>4, <2>4 DEF ToolStep, Where
  <2>6. messages' \in Seq(MessageRow)
    <3>1. [role |-> "assistant", step |-> step, n |-> Len(got.calls), last |-> FALSE] \in MessageRow
      BY <1>0, <2>4 DEF MessageRow
    <3>2. messages \in Seq(MessageRow)
      BY <1>0, RowsTyped DEF Boxes
    <3> QED
      BY <1>4, <3>1, <3>2 DEF ToolStep
  <2>7. trail' \in Seq(TrailRow)
    BY <1>4, PreambleTyped DEF ToolStep
  <2>8. BoxTypes'
    BY <1>0, <1>4, <2>6, <2>7, RowsTyped DEF ToolStep, Retold, Boxes, Unsaid
  <2> QED
    BY <2>3, <2>5, <2>8 DEF Typed, TypeOK
<1> QED
  BY <1>1, <1>2, <1>3, <1>4

\* Replies that end the turn.
LEMMA EndTyped ==
  ASSUME Typed, Answer \/ StopNoticed \/ UpstreamFails
  PROVE  Typed'
<1>0. LoopTypes /\ BoxTypes /\ Where /\ spent \in Nat /\ out \in Nat
  BY DEF Typed, TypeOK, LoopTypes
<1>1. BoxTypes'
  BY <1>0, BoxStays DEF Answer, StopNoticed, UpstreamFails
<1>2. spent' \in Nat /\ out' \in Nat
  <2>1. CASE phase = "streaming"
    <3>1. \E n \in Used : spent' = spent + n /\ (out' = out + n \/ out' = out)
      BY <2>1 DEF Answer, StopNoticed, UpstreamFails, Counted
    <3> QED
      BY <1>0, <2>1, <3>1, UsedIsBounded DEF Where
  <2>2. CASE phase # "streaming"
    BY <1>0, <2>2 DEF Answer, StopNoticed, UpstreamFails
  <2> QED
    BY <2>1, <2>2
<1>3. \E how \in {"answered", "stopped", "failed"} : Over(how)
  BY DEF Answer, StopNoticed, UpstreamFails
<1>4. UNCHANGED <<step, next, thinking, late, stop, cutOff, cutCall, guessed>>
  BY DEF Answer, StopNoticed, UpstreamFails
<1>5. LoopTypes' /\ Where'
  BY <1>0, <1>2, <1>3, <1>4, OverTyped DEF LoopTypes
<1> QED
  BY <1>1, <1>5 DEF Typed, TypeOK

\* What a box numbers.
LEMMA NumberedTyped ==
  ASSUME Boxes, NEW us \in Seq(Urls), Numbered(us)
  PROVE  sources' \in Seq(Urls) /\ announced' \in Seq(Urls) /\ Extends(sources, sources')
<1>1. sources \in Seq(Urls) /\ announced \in Seq(Urls)
  BY DEF Boxes
<1>2. Extends(sources, sources')
  BY <1>1, NumberingExtends DEF Numbered
<1>3. sources' \in Seq(Urls)
  BY <1>2 DEF Extends
<1>4. SubSeq(sources', Len(sources) + 1, Len(sources')) \in Seq(Urls)
  <2>1. \A i \in (Len(sources) + 1)..Len(sources') : i \in 1..Len(sources')
    BY <1>1, <1>3
  <2> QED
    BY <1>1, <1>3, <2>1, SubSeqProperties
<1> QED
  BY <1>1, <1>2, <1>3, <1>4 DEF Numbered, Announce

\* The tools, apart from the round and the rows they have in common.
LEMMA ToolsTyped ==
  ASSUME Boxes, RunTool
  PROVE  /\ sources' \in Seq(Urls) /\ announced' \in Seq(Urls) /\ pages' \subseteq Urls
         /\ files' \subseteq Paths /\ changed' \in [Paths -> {"no", "created", "edited"}]
         /\ at' \in 0..DocChars /\ reads' \in Nat
         /\ (UNCHANGED <<sources, announced>> \/ \E us \in Seq(Urls) : Numbered(us))
<1>u. \A u \in Urls : LandsAt[u] \in Urls /\ <<u>> \in Seq(Urls) /\ <<LandsAt[u]>> \in Seq(Urls)
  <2>1. \A u \in Urls : LandsAt[u] \in Urls
    BY TurnAssumption
  <2> QED
    BY <2>1
<1>1. UNCHANGED <<sources, announced>> \/ \E us \in Seq(Urls) : Numbered(us)
  <2>1. CASE Plain \/ ViewPhoto
    BY <2>1 DEF Plain, ViewPhoto
  <2>2. CASE WebSearch \/ ImageSearch
    BY <2>2, TurnAssumption DEF WebSearch, ImageSearch, Found
  <2>3. CASE \E u \in Urls : ReadPage(u)
    BY <1>u, <2>3 DEF ReadPage
  <2>4. CASE \E u \in Urls : ViewWebImage(u)
    BY <1>u, <2>4 DEF ViewWebImage
  <2>5. CASE \E start \in 0..DocChars : ReadDocument(start)
    BY <2>5 DEF ReadDocument
  <2>6. CASE \E p \in Paths : WriteFile(p)
    BY <2>6 DEF WriteFile
  <2> QED
    BY <2>1, <2>2, <2>3, <2>4, <2>5, <2>6 DEF RunTool
<1>2. sources' \in Seq(Urls) /\ announced' \in Seq(Urls)
  <2>1. sources \in Seq(Urls) /\ announced \in Seq(Urls)
    BY DEF Boxes
  <2> QED
    BY <1>1, <2>1, NumberedTyped
<1>3. pages' \subseteq Urls
  <2>1. pages' = pages \/ \E u \in Urls : pages' = pages \cup {u, LandsAt[u]}
    BY DEF RunTool, Plain, WebSearch, ImageSearch, Found, ReadPage, ViewPhoto, ViewWebImage,
           ReadDocument, WriteFile
  <2> QED
    BY <1>u, <2>1 DEF Boxes
<1>4. files' \subseteq Paths /\ changed' \in [Paths -> {"no", "created", "edited"}]
  <2>1. UNCHANGED <<files, changed>> \/ \E p \in Paths : WriteFile(p)
    BY DEF RunTool, Plain, WebSearch, ImageSearch, Found, ReadPage, ViewPhoto, ViewWebImage,
           ReadDocument
  <2>2. ASSUME NEW p \in Paths, WriteFile(p)
        PROVE  files' \subseteq Paths /\ changed' \in [Paths -> {"no", "created", "edited"}]
    <3>1. changed \in [Paths -> {"no", "created", "edited"}] /\ files \subseteq Paths
      BY DEF Boxes
    <3>2. Change(p) \in {"no", "created", "edited"}
      BY <3>1 DEF Change
    <3> QED
      BY <2>2, <3>1, <3>2 DEF WriteFile
  <2> QED
    BY <2>1, <2>2 DEF Boxes
<1>5. at' \in 0..DocChars /\ reads' \in Nat
  <2>1. UNCHANGED <<at, reads>> \/ \E start \in 0..DocChars : ReadDocument(start)
    BY DEF RunTool, Plain, WebSearch, ImageSearch, Found, ReadPage, ViewPhoto, ViewWebImage,
           WriteFile
  <2>2. at \in 0..DocChars /\ reads \in Nat
    BY DEF Boxes
  <2> QED
    BY <2>1, <2>2, PartIsLong DEF ReadDocument
<1> QED
  BY <1>1, <1>2, <1>3, <1>4, <1>5

\* Telling the model of its last round changes one mark in the last row.
LEMMA ToldTyped ==
  ASSUME NEW ms \in Seq(MessageRow), ms # <<>>
  PROVE  /\ Told(ms) \in Seq(MessageRow) /\ Len(Told(ms)) = Len(ms)
         /\ \A i \in 1..Len(ms) :
              /\ i # Len(ms) => Told(ms)[i] = ms[i]
              /\ Told(ms)[i].role = ms[i].role
              /\ Told(ms)[i].step = ms[i].step /\ Told(ms)[i].n = ms[i].n
              /\ Told(ms)[i].last = (ms[i].last \/ (i = Len(ms) /\ MaxSteps - step - 1 = 1))
<1>1. Len(ms) \in 1..Len(ms) /\ \A i \in 1..Len(ms) : ms[i] \in MessageRow
  BY EmptySeq
<1> DEFINE r == [ms[Len(ms)] EXCEPT !.last = TRUE]
<1>2. r \in MessageRow /\ r.role = ms[Len(ms)].role /\ r.step = ms[Len(ms)].step
      /\ r.n = ms[Len(ms)].n /\ r.last = TRUE
  BY <1>1 DEF MessageRow
<1>3. \A i \in 1..Len(ms) : ms[i].last \in BOOLEAN
  BY <1>1 DEF MessageRow
<1>4. CASE MaxSteps - step - 1 = 1
  <2>1. Told(ms) = [ms EXCEPT ![Len(ms)] = r]
    BY <1>4 DEF Told
  <2> HIDE DEF r
  <2>2. Told(ms) \in Seq(MessageRow) /\ Len(Told(ms)) = Len(ms)
    BY <1>1, <1>2, <2>1
  <2>3. \A i \in 1..Len(ms) : Told(ms)[i] = IF i = Len(ms) THEN r ELSE ms[i]
    BY <1>1, <2>1
  <2> QED
    BY <1>2, <1>3, <1>4, <2>2, <2>3
<1>5. CASE MaxSteps - step - 1 # 1
  BY <1>3, <1>5 DEF Told
<1> QED
  BY <1>4, <1>5

\* A call whose tool has returned.
LEMMA CallAtHand ==
  ASSUME Typed, NEW pics \in {0, 1}, Return(pics)
  PROVE  /\ LoopTypes /\ Boxes /\ Where /\ phase = "calling" /\ step < MaxSteps
         /\ step \in 0..MaxSteps /\ step \in Nat /\ MaxSteps \in Nat
         /\ got \in [text : BOOLEAN, bare : BOOLEAN, calls : Seq(Tools), pics : Nat]
         /\ got.pics \in Nat /\ Len(got.calls) \in Nat
         /\ next \in Nat /\ next \in 1..Len(got.calls)
         /\ messages \in Seq(MessageRow) /\ Len(messages) \in Nat
         /\ trail \in Seq(TrailRow) /\ Len(trail) \in Nat
         /\ \A s \in spoke : s \in Nat
<1>1. LoopTypes /\ Boxes /\ Where /\ phase = "calling"
  BY RowsTyped DEF Return, Typed, TypeOK
<1>2. step < MaxSteps /\ next \in 1..Len(got.calls)
  BY <1>1 DEF Where
<1>3. /\ step \in 0..MaxSteps /\ got \in [text : BOOLEAN, bare : BOOLEAN, calls : Seq(Tools), pics : Nat]
      /\ next \in Nat
  BY <1>1 DEF LoopTypes
<1>4. step \in Nat /\ MaxSteps \in Nat /\ 0..MaxSteps \subseteq Nat
  BY <1>3, TurnAssumption
<1>5. got.pics \in Nat /\ Len(got.calls) \in Nat
  BY <1>3
<1>6. messages \in Seq(MessageRow) /\ trail \in Seq(TrailRow) /\ spoke \subseteq 0..MaxSteps
  BY <1>1 DEF Boxes
<1>7. Len(messages) \in Nat /\ Len(trail) \in Nat
  BY <1>6
<1> QED
  BY <1>1, <1>2, <1>3, <1>4, <1>5, <1>6, <1>7

\* What all tools have in common: a row in the trail, one in the conversation, and
\* the next call or the next round.
LEMMA ReturnTyped ==
  ASSUME Typed, NEW pics \in {0, 1}, Return(pics)
  PROVE  LoopTypes' /\ Where' /\ messages' \in Seq(MessageRow) /\ trail' \in Seq(TrailRow)
<1>0. /\ LoopTypes /\ Boxes /\ Where /\ phase = "calling" /\ step < MaxSteps
      /\ next \in 1..Len(got.calls) /\ got.pics \in Nat /\ step \in 0..MaxSteps
      /\ Len(got.calls) \in Nat /\ got \in [text : BOOLEAN, bare : BOOLEAN, calls : Seq(Tools), pics : Nat]
      /\ next \in Nat
  BY CallAtHand
<1>1. LoopTypes' /\ Where'
  <2>1. CASE next < Len(got.calls)
    <3>1. /\ phase' = "tools" /\ next' = next + 1 /\ got' = [got EXCEPT !.pics = got.pics + pics]
          /\ UNCHANGED <<step, request>>
      BY <2>1 DEF Return
    <3>2. got' \in [text : BOOLEAN, bare : BOOLEAN, calls : Seq(Tools), pics : Nat] /\ got'.calls = got.calls
      BY <1>0, <3>1
    <3>3. LoopTypes'
      BY <1>0, <3>1, <3>2 DEF Return, LoopTypes
    <3>4. Where'
      BY <1>0, <2>1, <3>1, <3>2 DEF Where
    <3> QED
      BY <3>3, <3>4
  <2>2. CASE ~(next < Len(got.calls))
    <3>1. NextStep /\ next' = 1
      BY <2>2 DEF Return
    <3> QED
      BY <1>0, <3>1, NextStepTyped DEF Return, LoopTypes
  <2> QED
    BY <2>1, <2>2
<1>2. messages' \in Seq(MessageRow)
  <2> DEFINE result == [role |-> "tool", step |-> step, n |-> next, last |-> FALSE]
             ms == Append(messages, result)
             seen == got.pics + pics
  <2>1. result \in MessageRow
    BY <1>0 DEF MessageRow
  <2>2. ms \in Seq(MessageRow) /\ ms # <<>>
    <3>1. messages \in Seq(MessageRow)
      BY <1>0 DEF Boxes
    <3> HIDE DEF result
    <3> QED
      BY <2>1, <3>1, AppendProperties
  <2>3. messages' = IF next < Len(got.calls) THEN ms ELSE Shown(Told(ms), seen)
    BY DEF Return, Closed
  <2>4. [role |-> "pictures", step |-> step, n |-> seen, last |-> FALSE] \in MessageRow
    BY <1>0 DEF MessageRow
  <2> HIDE DEF ms, seen
  <2> QED
    BY <2>2, <2>3, <2>4, ToldTyped DEF Shown
<1>3. trail' \in Seq(TrailRow)
  <2>1. ToolRow("ran", next) \in TrailRow
    BY <1>0 DEF ToolRow, TrailRow
  <2> QED
    BY <1>0, <2>1 DEF Return, Boxes
<1> QED
  BY <1>1, <1>2, <1>3

\* A tool that has run.
LEMMA ToolTyped ==
  ASSUME Typed, RunTool
  PROVE  Typed'
<1>1. PICK pics \in {0, 1} : Return(pics)
  BY ToolReturns
<1>2. LoopTypes' /\ Where' /\ messages' \in Seq(MessageRow) /\ trail' \in Seq(TrailRow)
  BY <1>1, ReturnTyped
<1>3. Boxes
  BY RowsTyped DEF Typed, TypeOK
<1>4. UNCHANGED <<content, spoke, before>>
  BY <1>1 DEF Return
<1>5. Boxes'
  BY <1>2, <1>3, <1>4, ToolsTyped DEF Boxes
<1> QED
  BY <1>2, <1>5, RowsTyped DEF Typed, TypeOK

\* Steps that change none of the rows.
LEMMA RestTyped ==
  ASSUME Typed, StartTool \/ Deadline \/ Stop \/ UNCHANGED vars
  PROVE  Typed'
<1>0. LoopTypes /\ BoxTypes /\ Where
  BY DEF Typed, TypeOK
<1>1. BoxTypes'
  BY <1>0, BoxStays DEF StartTool, Deadline, Stop, vars
<1>2. LoopTypes'
  <2>1. CASE StartTool
    BY <1>0, <2>1 DEF LoopTypes, StartTool
  <2>2. CASE Deadline \/ Stop \/ UNCHANGED vars
    <3>1. UNCHANGED <<step, phase, ending, request, got, next, cutOff, cutCall, out, spent,
                      guessed, thinking>>
      BY <2>2 DEF Deadline, Stop, vars
    <3>2. late' \in BOOLEAN /\ stop' \in BOOLEAN
      BY <1>0, <2>2 DEF LoopTypes, Deadline, Stop, vars
    <3> QED
      BY <1>0, <3>1, <3>2 DEF LoopTypes
  <2> QED
    BY <2>1, <2>2
<1>3. Where'
  BY <1>0 DEF Where, StartTool, Deadline, Stop, vars
<1> QED
  BY <1>1, <1>2, <1>3 DEF Typed, TypeOK

\* Every step keeps the types.
LEMMA NextTyped == Typed /\ [Next]_vars => Typed'
  BY AskTyped, ChunkTyped, StepTyped, EndTyped, ToolTyped, RestTyped DEF Next

\* Types hold throughout the turn.
LEMMA AlwaysTyped == Spec => []Typed
<1> QED
  BY InitTyped, NextTyped, PTL DEF Spec

\* Every variable of a turn has its type, whatever the model writes and the tools
\* return: there is never a round more than MaxSteps, the tokens counted are never
\* negative, and the call that is run is one of those in the reply.
THEOREM TurnTypeCorrect == Spec => []TypeOK
<1>1. Typed => TypeOK
  BY DEF Typed
<1> QED
  BY <1>1, AlwaysTyped, PTL

-----------------------------------------------------------------------------
(* The sources and the account *)

\* A sequence is its beginning and the rest.
LEMMA BeginningAndRest ==
  ASSUME NEW s \in Seq(Urls), NEW r \in Seq(Urls), Extends(s, r)
  PROVE  s \o SubSeq(r, Len(s) + 1, Len(r)) = r
<1> DEFINE m == Len(s)
           rest == SubSeq(r, m + 1, Len(r))
<1>1. m \in Nat /\ Len(r) \in Nat /\ m <= Len(r) /\ \A i \in 1..m : r[i] = s[i]
  BY DEF Extends
<1>2. rest \in Seq(Urls) /\ Len(rest) = Len(r) - m
      /\ \A i \in 1..(Len(r) - m) : rest[i] = r[m + i]
  <2>1. \A i \in (m + 1)..Len(r) : i \in 1..Len(r)
    BY <1>1
  <2>2. rest \in Seq(Urls)
    BY <1>1, <2>1, SubSeqProperties
  <2>3. Len(rest) = IF m + 1 <= Len(r) THEN Len(r) - (m + 1) + 1 ELSE 0
    BY <1>1, <2>1, SubSeqProperties
  <2>4. Len(rest) = Len(r) - m
    BY <1>1, <2>3
  <2>5. \A i \in 1..(Len(r) - m) : rest[i] = r[m + 1 + i - 1]
    BY <1>1, <2>1, <2>4, SubSeqProperties
  <2>6. \A i \in 1..(Len(r) - m) : m + 1 + i - 1 = m + i
    BY <1>1
  <2> QED
    BY <2>2, <2>4, <2>5, <2>6
<1> HIDE DEF rest
<1> DEFINE w == s \o rest
<1>3. w \in Seq(Urls) /\ Len(w) = Len(r)
  BY <1>1, <1>2
<1>4. ASSUME NEW i \in 1..Len(r) PROVE w[i] = r[i]
  <2>1. CASE i <= m
    BY <1>1, <1>2, <2>1
  <2>2. CASE i > m
    <3>1. i - m \in 1..(Len(r) - m) /\ w[i] = rest[i - m]
      BY <1>1, <1>2, <2>2
    <3>2. rest[i - m] = r[m + (i - m)] /\ m + (i - m) = i
      BY <1>1, <1>2, <3>1
    <3> QED
      BY <3>1, <3>2
  <2>3. i <= m \/ i > m
    <3> HIDE DEF m
    <3> QED
      BY <1>1
  <2> QED
    BY <2>1, <2>2, <2>3
<1> HIDE DEF w
<1>5. w = r
  BY <1>3, <1>4, SeqEqual
<1> QED
  BY <1>5 DEF w, rest

Numbers == Typed /\ SourcesAnnouncedOnce

\* Every step leaves the sources told as they are numbered.
LEMMA NextNumbers == Numbers /\ [Next]_vars => Numbers'
<1> SUFFICES ASSUME Numbers, [Next]_vars PROVE SourcesAnnouncedOnce'
  BY NextTyped DEF Numbers
<1>0. Boxes
  BY RowsTyped DEF Numbers, Typed, TypeOK
<1>1. CASE UNCHANGED <<sources, announced>>
  BY <1>1 DEF Numbers, SourcesAnnouncedOnce
<1>2. CASE \E us \in Seq(Urls) : Numbered(us)
  <2>1. PICK us \in Seq(Urls) : Numbered(us)
    BY <1>2
  <2>2. sources' \in Seq(Urls) /\ Extends(sources, sources')
    BY <1>0, <2>1, NumberedTyped
  <2>3. announced' = announced \o SubSeq(sources', Len(sources) + 1, Len(sources'))
    BY <2>1 DEF Numbered, Announce
  <2>4. sources \in Seq(Urls) /\ announced = sources /\ Distinct(sources)
    BY <1>0 DEF Boxes, Numbers, SourcesAnnouncedOnce, Distinct
  <2>5. announced' = sources'
    BY <2>2, <2>3, <2>4, BeginningAndRest
  <2>6. Distinct(sources')
    BY <2>2, <2>4 DEF Extends
  <2> QED
    BY <2>5, <2>6 DEF SourcesAnnouncedOnce, Distinct
<1>3. RunTool \/ UNCHANGED <<sources, announced>>
  BY DEF Next, vars, Ask, Say, Call, CloseThinking, ThoughtThrough, CallCut, Answer, ToolStep,
         StartTool, Deadline, Stop, StopNoticed, UpstreamFails
<1> QED
  BY <1>0, <1>1, <1>2, <1>3, ToolsTyped

\* No address has two numbers, and the browser heard of each once, in their order
\* (Toolbox.cite and the tools that cite).
LEMMA SourcesNumberedOnce == Spec => []SourcesAnnouncedOnce
<1>1. Init => Numbers
  <2> SUFFICES ASSUME Init PROVE SourcesAnnouncedOnce
    BY InitTyped DEF Numbers
  <2>1. sources = <<>> /\ announced = <<>> /\ Len(<<>>) = 0
    BY DEF Init
  <2> QED
    BY <2>1 DEF SourcesAnnouncedOnce
<1>2. Numbers => SourcesAnnouncedOnce
  BY DEF Numbers
<1> QED
  BY <1>1, <1>2, NextNumbers, PTL DEF Spec

\* The Toolbox's account of the turn is right, for any tools, addresses, files and
\* document: its sources, its parts and its files.
THEOREM AccountIsKept == Spec => []BoxKeepsAccount
<1>1. SourcesAnnouncedOnce /\ ReadingGetsThrough /\ FilesAreTold => BoxKeepsAccount
  BY DEF BoxKeepsAccount
<1> QED
  BY <1>1, SourcesNumberedOnce, ReadingNeverStalls, FilesToldTruly, PTL

-----------------------------------------------------------------------------
(* The conversation and the trail *)

\* Row i of the conversation ms has what CallsAnswered asks of it.
Answered(ms, i) ==
  \A k \in 1..ms[i].n :
    /\ i + k <= Len(ms)
    /\ ms[i + k].role = "tool" /\ ms[i + k].step = ms[i].step /\ ms[i + k].n = k

ResultRight(ms, i) ==
  ms[i].role = "tool" =>
    /\ i > ms[i].n /\ ms[i - ms[i].n].role = "assistant"
    /\ ms[i].n <= ms[i - ms[i].n].n
    /\ ms[i].last <=> ms[i].n = ms[i - ms[i].n].n /\ ms[i].step = MaxSteps - 2

PicturesRight(ms, i) ==
  ms[i].role = "pictures" =>
    i > 1 /\ ms[i - 1].role = "tool" /\ ms[i].step = ms[i - 1].step

\* All rows have, but for the calls of row b, which are being answered.
RowsRight(ms, b) ==
  \A i \in 1..Len(ms) :
    /\ ms[i].role = "assistant" /\ i # b => Answered(ms, i)
    /\ ResultRight(ms, i) /\ PicturesRight(ms, i)

\* Row b holds this round's calls, and the rows below it their first results.
OpenAt(ms, b) ==
  /\ b \in 1..Len(ms)
  /\ ms[b].role = "assistant" /\ ms[b].step = step /\ ms[b].n = Len(got.calls)
  /\ \A k \in 1..(Len(ms) - b) :
       ms[b + k].role = "tool" /\ ms[b + k].step = step /\ ms[b + k].n = k

\* The row of the calls that are being run.
Asked == Len(messages) - next + 1

InTools == phase \in {"tools", "calling"}

Conversation ==
  /\ phase \in {"asking", "streaming"} => RowsRight(messages, 0)
  /\ InTools => RowsRight(messages, Asked) /\ OpenAt(messages, Asked)

\* Rows of rounds that are over, and of this one those of the calls that are.
Behind(row) == row.step < step \/ (InTools /\ row.step = step /\ row.n < next)

Rows ==
  phase # "over" =>
    /\ \A i \in 1..Len(trail) : Behind(trail[i])
    /\ \A i \in ResultsAt : Behind(messages[i])

Calls ==
  /\ {CallOf(trail[i]) : i \in RanAt} = {CallOf(messages[i]) : i \in ResultsAt}
  /\ \A i, k \in RanAt : i < k => Earlier(trail[i], trail[k])
  /\ \A i, k \in ResultsAt : i < k => Earlier(messages[i], messages[k])

NotesAt == {i \in 1..Len(trail) : trail[i].kind = "note"}

\* Who spoke has a note in the trail, or, the last of them, the answer.
Said ==
  /\ \A i, k \in NotesAt : trail[i].step = trail[k].step => i = k
  /\ {trail[i].step : i \in NotesAt} = spoke \ content
  /\ content \subseteq spoke /\ \A s, t \in content : s = t
  /\ phase # "over" => \A s \in spoke : s <= step
  /\ phase = "asking" => step \notin spoke
  /\ phase \in {"asking", "tools", "calling"} => content = {}
  /\ phase = "streaming" =>
       content = (IF got.text THEN {step} ELSE {}) /\ (step \in spoke => got.text)

-----------------------------------------------------------------------------
(* The conversation *)

\* One row more leaves what is right about the rows above it.
LEMMA RowsStay ==
  ASSUME NEW ms \in Seq(MessageRow), NEW q \in Seq(MessageRow), Len(q) >= Len(ms),
         \A i \in 1..Len(ms) : q[i] = ms[i], NEW i \in 1..Len(ms)
  PROVE  /\ Answered(ms, i) => Answered(q, i)
         /\ ResultRight(ms, i) => ResultRight(q, i)
         /\ PicturesRight(ms, i) => PicturesRight(q, i)
<1>1. Len(ms) \in Nat /\ Len(q) \in Nat /\ ms[i] \in MessageRow /\ q[i] = ms[i]
  OBVIOUS
<1>2. ms[i].n \in Nat
  BY <1>1 DEF MessageRow
<1>3. Answered(ms, i) => Answered(q, i)
  <2> SUFFICES ASSUME Answered(ms, i), NEW k \in 1..ms[i].n
               PROVE  i + k <= Len(q) /\ q[i + k].role = "tool"
                      /\ q[i + k].step = ms[i].step /\ q[i + k].n = k
    BY <1>1 DEF Answered
  <2>1. /\ i + k <= Len(ms)
        /\ ms[i + k].role = "tool" /\ ms[i + k].step = ms[i].step /\ ms[i + k].n = k
    BY DEF Answered
  <2>2. i + k \in 1..Len(ms)
    BY <1>1, <1>2, <2>1
  <2>3. q[i + k] = ms[i + k]
    BY <2>2
  <2> QED
    BY <1>1, <2>1, <2>2, <2>3
<1>4. ResultRight(ms, i) => ResultRight(q, i)
  <2> SUFFICES ASSUME ResultRight(ms, i), ms[i].role = "tool" PROVE ResultRight(q, i)
    BY <1>1 DEF ResultRight
  <2>1. i > ms[i].n
    BY DEF ResultRight
  <2>2. i - ms[i].n \in 1..Len(ms)
    BY <1>1, <1>2, <2>1
  <2>3. q[i - ms[i].n] = ms[i - ms[i].n]
    BY <2>2
  <2> QED
    BY <1>1, <2>3 DEF ResultRight
<1>5. PicturesRight(ms, i) => PicturesRight(q, i)
  <2> SUFFICES ASSUME PicturesRight(ms, i), ms[i].role = "pictures" PROVE PicturesRight(q, i)
    BY <1>1 DEF PicturesRight
  <2>1. i - 1 \in 1..Len(ms)
    BY <1>1 DEF PicturesRight
  <2>2. q[i - 1] = ms[i - 1]
    BY <2>1
  <2> QED
    BY <1>1, <2>2 DEF PicturesRight
<1> QED
  BY <1>3, <1>4, <1>5

\* The calls of a reply are added.
LEMMA AskedRow ==
  ASSUME NEW ms \in Seq(MessageRow), RowsRight(ms, 0),
         NEW r \in MessageRow, r.role = "assistant"
  PROVE  RowsRight(Append(ms, r), Len(ms) + 1)
<1> DEFINE q == Append(ms, r)
<1>1. /\ q \in Seq(MessageRow) /\ Len(q) = Len(ms) + 1 /\ Len(ms) \in Nat
      /\ \A i \in 1..Len(ms) : q[i] = ms[i]
      /\ q[Len(ms) + 1] = r
  OBVIOUS
<1> HIDE DEF q
<1>2. ASSUME NEW i \in 1..Len(q)
      PROVE  /\ q[i].role = "assistant" /\ i # Len(ms) + 1 => Answered(q, i)
             /\ ResultRight(q, i) /\ PicturesRight(q, i)
  <2>1. CASE i = Len(ms) + 1
    BY <1>1, <2>1 DEF ResultRight, PicturesRight
  <2>2. CASE i # Len(ms) + 1
    <3>1. i \in 1..Len(ms) /\ Len(q) >= Len(ms) /\ i # 0
      BY <1>1, <2>2
    <3>2. /\ ms[i].role = "assistant" => Answered(ms, i)
          /\ ResultRight(ms, i) /\ PicturesRight(ms, i)
      BY <3>1 DEF RowsRight
    <3> QED
      BY <1>1, <3>1, <3>2, RowsStay
  <2> QED
    BY <2>1, <2>2
<1>3. RowsRight(q, Len(ms) + 1)
  BY <1>2 DEF RowsRight
<1> QED
  BY <1>3 DEF q

\* The next result is added.
LEMMA ResultRow ==
  ASSUME NEW ms \in Seq(MessageRow), NEW b \in Nat, RowsRight(ms, b), OpenAt(ms, b),
         NEW q \in Seq(MessageRow), Len(q) = Len(ms) + 1,
         \A i \in 1..Len(ms) : q[i] = ms[i],
         q[Len(ms) + 1].role = "tool", q[Len(ms) + 1].step = step,
         q[Len(ms) + 1].n = Len(ms) + 1 - b, Len(ms) + 1 - b <= Len(got.calls),
         q[Len(ms) + 1].last <=> Len(ms) + 1 - b = Len(got.calls) /\ step = MaxSteps - 2
  PROVE  RowsRight(q, b) /\ OpenAt(q, b)
<1>1. Len(ms) \in Nat /\ b \in 1..Len(ms) /\ q[b] = ms[b]
  BY DEF OpenAt
<1>2. ms[b].role = "assistant" /\ ms[b].step = step /\ ms[b].n = Len(got.calls)
  BY DEF OpenAt
<1>3. ASSUME NEW i \in 1..Len(q)
      PROVE  /\ q[i].role = "assistant" /\ i # b => Answered(q, i)
             /\ ResultRight(q, i) /\ PicturesRight(q, i)
  <2>1. CASE i = Len(ms) + 1
    <3>1. q[i].n = i - b /\ i - q[i].n = b /\ i > i - b
      BY <1>1, <2>1
    <3>2. q[i - q[i].n].role = "assistant" /\ q[i].n <= q[i - q[i].n].n
          /\ q[i - q[i].n].n = Len(got.calls)
      BY <1>1, <1>2, <2>1, <3>1
    <3>4. q[i].last <=> q[i].n = q[i - q[i].n].n /\ q[i].step = MaxSteps - 2
      BY <2>1, <3>2
    <3>5. i > q[i].n
      BY <3>1
    <3>6. ResultRight(q, i)
      BY <3>2, <3>4, <3>5 DEF ResultRight
    <3> QED
      BY <2>1, <3>6 DEF PicturesRight
  <2>2. CASE i # Len(ms) + 1
    <3>1. i \in 1..Len(ms) /\ Len(q) >= Len(ms) /\ q[i] = ms[i]
      BY <1>1, <2>2
    <3>2. /\ ms[i].role = "assistant" /\ i # b => Answered(ms, i)
          /\ ResultRight(ms, i) /\ PicturesRight(ms, i)
      BY <3>1 DEF RowsRight
    <3> QED
      BY <3>1, <3>2, RowsStay
  <2> QED
    BY <2>1, <2>2
<1>4. OpenAt(q, b)
  <2>1. ASSUME NEW k \in 1..(Len(q) - b)
        PROVE  q[b + k].role = "tool" /\ q[b + k].step = step /\ q[b + k].n = k
    <3>1. CASE k = Len(q) - b
      BY <1>1, <3>1
    <3>2. CASE k # Len(q) - b
      <4>1. k \in 1..(Len(ms) - b) /\ b + k \in 1..Len(ms)
        BY <1>1, <3>2
      <4>2. q[b + k] = ms[b + k]
        BY <4>1
      <4>3. ms[b + k].role = "tool" /\ ms[b + k].step = step /\ ms[b + k].n = k
        BY <4>1 DEF OpenAt
      <4> QED
        BY <4>2, <4>3
    <3> QED
      BY <3>1, <3>2
  <2> QED
    BY <1>1, <1>2, <2>1 DEF OpenAt
<1> QED
  BY <1>3, <1>4 DEF RowsRight

\* With the last result the calls are answered.
LEMMA AllAnswered ==
  ASSUME NEW q \in Seq(MessageRow), NEW b \in Nat, RowsRight(q, b), OpenAt(q, b),
         Len(q) - b = Len(got.calls)
  PROVE  RowsRight(q, 0)
<1>1. b \in 1..Len(q) /\ q[b].n = Len(got.calls) /\ q[b].step = step /\ Len(q) \in Nat
  BY DEF OpenAt
<1>2. Answered(q, b)
  <2> SUFFICES ASSUME NEW k \in 1..q[b].n
               PROVE  /\ b + k <= Len(q)
                      /\ q[b + k].role = "tool" /\ q[b + k].step = q[b].step /\ q[b + k].n = k
    BY DEF Answered
  <2>1. k \in 1..(Len(q) - b) /\ b + k <= Len(q)
    BY <1>1
  <2> QED
    BY <1>1, <2>1 DEF OpenAt
<1> QED
  BY <1>2 DEF RowsRight

\* Pictures come after them.
LEMMA PicturesRow ==
  ASSUME NEW q \in Seq(MessageRow), RowsRight(q, 0), q # <<>>,
         q[Len(q)].role = "tool", NEW r \in MessageRow, r.role = "pictures",
         r.step = q[Len(q)].step
  PROVE  RowsRight(Append(q, r), 0)
<1> DEFINE w == Append(q, r)
<1>1. /\ w \in Seq(MessageRow) /\ Len(w) = Len(q) + 1 /\ Len(q) \in Nat /\ Len(q) >= 1
      /\ \A i \in 1..Len(q) : w[i] = q[i]
      /\ w[Len(q) + 1] = r
  BY EmptySeq
<1> HIDE DEF w
<1>2. ASSUME NEW i \in 1..Len(w)
      PROVE  /\ w[i].role = "assistant" /\ i # 0 => Answered(w, i)
             /\ ResultRight(w, i) /\ PicturesRight(w, i)
  <2>1. CASE i = Len(q) + 1
    <3>1. w[i] = r /\ w[i - 1] = q[Len(q)] /\ i > 1
      BY <1>1, <2>1
    <3> QED
      BY <3>1 DEF ResultRight, PicturesRight
  <2>2. CASE i # Len(q) + 1
    <3>1. i \in 1..Len(q) /\ Len(w) >= Len(q) /\ w[i] = q[i] /\ i # 0
      BY <1>1, <2>2
    <3>2. /\ q[i].role = "assistant" => Answered(q, i)
          /\ ResultRight(q, i) /\ PicturesRight(q, i)
      BY <3>1 DEF RowsRight
    <3> QED
      BY <1>1, <3>1, <3>2, RowsStay
  <2> QED
    BY <2>1, <2>2
<1>3. RowsRight(w, 0)
  BY <1>2 DEF RowsRight
<1> QED
  BY <1>3 DEF w

\* What a result adds to the conversation: its row, and after the last one of a
\* round the pictures, if any.
LEMMA Returned ==
  ASSUME Typed, NEW pics \in {0, 1}, Return(pics)
  PROVE  \E q \in Seq(MessageRow) :
           /\ Len(q) = Len(messages) + 1 /\ \A i \in 1..Len(messages) : q[i] = messages[i]
           /\ q[Len(messages) + 1].role = "tool" /\ q[Len(messages) + 1].step = step
           /\ q[Len(messages) + 1].n = next
           /\ q[Len(messages) + 1].last <=> next = Len(got.calls) /\ step = MaxSteps - 2
           /\ \/ messages' = q
              \/ /\ next = Len(got.calls)
                 /\ \E r \in MessageRow :
                      r.role = "pictures" /\ r.step = step /\ messages' = Append(q, r)
<1>0. /\ messages \in Seq(MessageRow) /\ step \in 0..MaxSteps /\ MaxSteps \in Nat
      /\ next \in 1..Len(got.calls) /\ got.pics \in Nat /\ Len(got.calls) \in Nat /\ next \in Nat
  BY CallAtHand
<1> DEFINE result == [role |-> "tool", step |-> step, n |-> next, last |-> FALSE]
           ms == Append(messages, result)
           seen == got.pics + pics
           row == [role |-> "pictures", step |-> step, n |-> seen, last |-> FALSE]
<1>1. result \in MessageRow /\ row \in MessageRow
  BY <1>0 DEF MessageRow
<1>2. messages' = IF next < Len(got.calls) THEN ms ELSE Shown(Told(ms), seen)
  BY DEF Return, Closed
<1>3. /\ ms \in Seq(MessageRow) /\ ms # <<>> /\ Len(ms) = Len(messages) + 1
      /\ \A i \in 1..Len(messages) : ms[i] = messages[i]
      /\ ms[Len(messages) + 1] = result
  <2> HIDE DEF result
  <2> QED
    BY <1>0, <1>1
<1>4. CASE next < Len(got.calls)
  <2>1. messages' = ms
    BY <1>2, <1>4
  <2>2. ms[Len(messages) + 1].role = "tool" /\ ms[Len(messages) + 1].step = step
        /\ ms[Len(messages) + 1].n = next /\ ms[Len(messages) + 1].last = FALSE
    BY <1>3
  <2>3. next # Len(got.calls)
    BY <1>0, <1>4
  <2> HIDE DEF ms, result
  <2> QED
    BY <1>3, <2>1, <2>2, <2>3
<1>5. CASE ~(next < Len(got.calls))
  <2>0. next = Len(got.calls)
    BY <1>0, <1>5
  <2> DEFINE q == Told(ms)
  <2>1. messages' = Shown(q, seen)
    BY <1>2, <1>5
  <2>2. /\ q \in Seq(MessageRow) /\ Len(q) = Len(messages) + 1
        /\ \A i \in 1..Len(messages) : q[i] = messages[i]
    <3> HIDE DEF ms
    <3>1. q \in Seq(MessageRow) /\ Len(q) = Len(ms)
      BY <1>3, ToldTyped
    <3>2. \A i \in 1..Len(ms) : i # Len(ms) => q[i] = ms[i]
      BY <1>3, ToldTyped
    <3>3. Len(messages) \in Nat
      BY <1>0
    <3> HIDE DEF q
    <3>4. \A i \in 1..Len(messages) : i \in 1..Len(ms) /\ i # Len(ms)
      BY <1>3, <3>3
    <3> QED
      BY <1>3, <3>1, <3>2, <3>4
  <2>3. q[Len(messages) + 1].role = "tool" /\ q[Len(messages) + 1].step = step
        /\ q[Len(messages) + 1].n = next
        /\ (q[Len(messages) + 1].last <=> step = MaxSteps - 2)
    <3>1. Len(ms) \in 1..Len(ms) /\ Len(ms) = Len(messages) + 1 /\ Len(messages) \in Nat
      BY <1>0, <1>3
    <3>2. /\ q[Len(ms)].role = ms[Len(ms)].role
          /\ q[Len(ms)].step = ms[Len(ms)].step /\ q[Len(ms)].n = ms[Len(ms)].n
          /\ q[Len(ms)].last = (ms[Len(ms)].last \/ (Len(ms) = Len(ms) /\ MaxSteps - step - 1 = 1))
      <4> HIDE DEF ms
      <4> QED
        BY <1>3, <3>1, ToldTyped
    <3>3. /\ ms[Len(ms)].role = "tool" /\ ms[Len(ms)].step = step
          /\ ms[Len(ms)].n = next /\ ms[Len(ms)].last = FALSE
      <4>1. ms[Len(ms)] = result
        <5> HIDE DEF ms, result
        <5> QED
          BY <1>3, <3>1
      <4> HIDE DEF ms
      <4> QED
        BY <4>1
    <3>4. MaxSteps - step - 1 = 1 <=> step = MaxSteps - 2
      BY <1>0
    <3> HIDE DEF q, ms
    <3> QED
      BY <3>1, <3>2, <3>3, <3>4
  <2>4. messages' = q \/ messages' = Append(q, row)
    BY <2>1 DEF Shown
  <2>5. row.role = "pictures" /\ row.step = step
    OBVIOUS
  <2> HIDE DEF q, row, ms
  <2> QED
    BY <1>1, <2>0, <2>2, <2>3, <2>4, <2>5
<1> QED
  BY <1>4, <1>5

Talked == Typed /\ Conversation

\* A step that leaves the conversation.
LEMMA ConversationStays ==
  ASSUME Talked, UNCHANGED messages,
         \/ phase' = "over"
         \/ phase \in {"asking", "streaming"} /\ phase' \in {"asking", "streaming"}
         \/ InTools /\ phase' \in {"tools", "calling"} /\ UNCHANGED <<step, got, next>>
  PROVE  Conversation'
<1>0. Conversation
  BY DEF Talked
<1>1. CASE phase' = "over"
  BY <1>1 DEF Conversation, InTools
<1>2. CASE phase \in {"asking", "streaming"} /\ phase' \in {"asking", "streaming"}
  <2>1. RowsRight(messages, 0)' = RowsRight(messages, 0)
    BY DEF RowsRight, Answered, ResultRight, PicturesRight
  <2> QED
    BY <1>0, <1>2, <2>1 DEF Conversation, InTools
<1>3. CASE InTools /\ phase' \in {"tools", "calling"} /\ UNCHANGED <<step, got, next>>
  <2>1. RowsRight(messages, Asked)' = RowsRight(messages, Asked)
    BY <1>3 DEF RowsRight, Answered, ResultRight, PicturesRight, Asked
  <2>2. OpenAt(messages, Asked)' = OpenAt(messages, Asked)
    BY <1>3 DEF OpenAt, Asked
  <2> QED
    BY <1>0, <1>3, <2>1, <2>2 DEF Conversation, InTools
<1> QED
  BY <1>1, <1>2, <1>3

\* A reply with calls begins a block of the conversation.
LEMMA ToolStepTalks == Talked /\ ToolStep => Conversation'
<1> SUFFICES ASSUME Talked, ToolStep PROVE Conversation'
  OBVIOUS
<1> DEFINE r == [role |-> "assistant", step |-> step, n |-> Len(got.calls), last |-> FALSE]
           b == Len(messages) + 1
<1>0. /\ messages \in Seq(MessageRow) /\ Len(got.calls) \in Nat /\ step \in 0..MaxSteps
      /\ Len(messages) \in Nat
  BY RowsTyped DEF Talked, Typed, TypeOK, LoopTypes, Boxes
<1>1. r \in MessageRow
  BY <1>0 DEF MessageRow
<1>2. messages' = Append(messages, r) /\ next' = 1 /\ phase' = "tools"
      /\ UNCHANGED <<step, got>>
  BY DEF ToolStep
<1>3. RowsRight(messages, 0)
  BY DEF ToolStep, Talked, Conversation
<1>r. r.role = "assistant" /\ r.step = step /\ r.n = Len(got.calls)
  OBVIOUS
<1> HIDE DEF r
<1>4. RowsRight(messages', b)
  BY <1>0, <1>1, <1>2, <1>3, <1>r, AskedRow
<1>5. /\ Len(messages') = b /\ messages'[b] = r /\ Asked' = b
  BY <1>0, <1>1, <1>2 DEF Asked
<1>6. OpenAt(messages, Asked)'
  <2>1. b \in 1..Len(messages')
    BY <1>0, <1>5
  <2>2. 1..(Len(messages') - b) = {}
    BY <1>0, <1>5
  <2> HIDE DEF b
  <2> QED
    BY <1>2, <1>5, <1>r, <2>1, <2>2 DEF OpenAt
<1>7. RowsRight(messages, Asked)'
  BY <1>4, <1>5 DEF RowsRight, Answered, ResultRight, PicturesRight
<1> QED
  BY <1>2, <1>6, <1>7 DEF Conversation, InTools

\* A result goes on with it, and the last one ends it.
LEMMA ToolTalks == Talked /\ RunTool => Conversation'
<1> SUFFICES ASSUME Talked, RunTool PROVE Conversation'
  OBVIOUS
<1>1. PICK pics \in {0, 1} : Return(pics)
  BY ToolReturns
<1>2. PICK q \in Seq(MessageRow) :
           /\ Len(q) = Len(messages) + 1 /\ \A i \in 1..Len(messages) : q[i] = messages[i]
           /\ q[Len(messages) + 1].role = "tool" /\ q[Len(messages) + 1].step = step
           /\ q[Len(messages) + 1].n = next
           /\ q[Len(messages) + 1].last <=> next = Len(got.calls) /\ step = MaxSteps - 2
           /\ \/ messages' = q
              \/ /\ next = Len(got.calls)
                 /\ \E r \in MessageRow :
                      r.role = "pictures" /\ r.step = step /\ messages' = Append(q, r)
  BY <1>1, Returned DEF Talked
<1>3. /\ messages \in Seq(MessageRow) /\ Len(got.calls) \in Nat /\ Len(messages) \in Nat
      /\ next \in 1..Len(got.calls) /\ phase = "calling"
  BY <1>1, CallAtHand DEF Talked
<1>4. RowsRight(messages, Asked) /\ OpenAt(messages, Asked)
  BY <1>3 DEF Talked, Conversation, InTools
<1> DEFINE b == Asked
<1>5. b \in Nat /\ Len(messages) + 1 - b = next
  BY <1>3, <1>4 DEF OpenAt, Asked
<1>6. RowsRight(q, b) /\ OpenAt(q, b)
  <2> HIDE DEF b
  <2>0. b = Asked
    BY DEF b
  <2>1. RowsRight(messages, b) /\ OpenAt(messages, b)
    BY <1>4, <2>0
  <2>2. Len(messages) + 1 - b <= Len(got.calls)
    BY <1>3, <1>5
  <2>3. q[Len(messages) + 1].n = Len(messages) + 1 - b
    BY <1>2, <1>5
  <2>4. q[Len(messages) + 1].last <=> Len(messages) + 1 - b = Len(got.calls) /\ step = MaxSteps - 2
    BY <1>2, <1>5
  <2> QED
    BY <1>2, <1>3, <1>5, <2>1, <2>2, <2>3, <2>4, ResultRow
<1>7. CASE next < Len(got.calls)
  <2>1. /\ phase' = "tools" /\ next' = next + 1 /\ step' = step
        /\ got' = [got EXCEPT !.pics = got.pics + pics]
    BY <1>1, <1>7 DEF Return
  <2>2. got'.calls = got.calls
    BY <2>1 DEF Talked, Typed, TypeOK, LoopTypes
  <2>3. messages' = q
    BY <1>2, <1>3, <1>7
  <2>4. Asked' = b
    BY <1>2, <1>3, <2>1, <2>3 DEF Asked
  <2> HIDE DEF b
  <2>5. RowsRight(messages, Asked)'
    BY <1>6, <2>3, <2>4 DEF RowsRight, Answered, ResultRight, PicturesRight
  <2>6. OpenAt(messages, Asked)'
    BY <1>6, <2>1, <2>2, <2>3, <2>4 DEF OpenAt
  <2> QED
    BY <2>1, <2>5, <2>6 DEF Conversation, InTools
<1>8. CASE ~(next < Len(got.calls))
  <2>1. phase' = "asking" /\ next = Len(got.calls)
    BY <1>1, <1>3, <1>8 DEF Return, NextStep
  <2>2. Len(q) - b = Len(got.calls)
    BY <1>2, <1>3, <1>5, <2>1
  <2> HIDE DEF b
  <2>3. RowsRight(q, 0)
    BY <1>5, <1>6, <2>2, AllAnswered
  <2>4. q # <<>> /\ q[Len(q)].role = "tool" /\ q[Len(q)].step = step
    BY <1>2, <1>3
  <2>5. RowsRight(messages', 0)
    BY <1>2, <2>3, <2>4, PicturesRow
  <2>6. RowsRight(messages, 0)'
    BY <2>5 DEF RowsRight, Answered, ResultRight, PicturesRight
  <2> QED
    BY <2>1, <2>6 DEF Conversation, InTools
<1> QED
  BY <1>7, <1>8

\* Every step leaves the conversation right, but for the calls being answered.
LEMMA NextTalked == Talked /\ [Next]_vars => Conversation'
<1> SUFFICES ASSUME Talked, [Next]_vars PROVE Conversation'
  OBVIOUS
<1>1. CASE Ask \/ Say \/ (\E t \in Tools : Call(t)) \/ CloseThinking \/ ThoughtThrough \/ CallCut
  <2>1. phase \in {"asking", "streaming"} /\ phase' \in {"asking", "streaming", "over"}
        /\ UNCHANGED messages
    BY <1>1 DEF Ask, Say, Call, CloseThinking, ThoughtThrough, CallCut, Streaming, NextStep, Over
  <2> QED
    BY <2>1, ConversationStays
<1>2. CASE Answer \/ StopNoticed \/ UpstreamFails
  BY <1>2, ConversationStays DEF Answer, StopNoticed, UpstreamFails, Over
<1>3. CASE StartTool
  BY <1>3, ConversationStays DEF StartTool, InTools
<1>4. CASE Deadline \/ Stop \/ UNCHANGED vars
  <2>1. UNCHANGED <<messages, phase, step, got, next>>
    BY <1>4 DEF Deadline, Stop, vars
  <2>2. phase \in {"asking", "streaming", "over"} \/ InTools
    BY DEF Talked, Typed, TypeOK, LoopTypes, InTools
  <2> QED
    BY <2>1, <2>2, ConversationStays DEF InTools
<1> QED
  BY <1>1, <1>2, <1>3, <1>4, ToolStepTalks, ToolTalks DEF Next

\* Every tool call has its one result, in order, right after its turn.
LEMMA TurnsAreRendered == Spec => []CallsAnswered
<1>1. Init => Talked
  <2> SUFFICES ASSUME Init PROVE Conversation
    BY InitTyped DEF Talked
  <2>1. messages = <<>> /\ phase = "asking" /\ Len(<<>>) = 0
    BY DEF Init
  <2>2. 1..0 = {}
    OBVIOUS
  <2> QED
    BY <2>1, <2>2 DEF Conversation, RowsRight, InTools
<1>2. Talked /\ [Next]_vars => Talked'
  BY NextTyped, NextTalked DEF Talked
<1>3. Talked => CallsAnswered
  <2> SUFFICES ASSUME Talked, phase = "streaming" PROVE CallsAnswered
    BY DEF CallsAnswered
  <2>1. RowsRight(messages, 0)
    BY DEF Talked, Conversation
  <2>2. messages \in Seq(MessageRow)
    BY RowsTyped DEF Talked, Typed, TypeOK, Boxes
  <2> QED
    BY <2>1, <2>2 DEF CallsAnswered, RowsRight, Answered, ResultRight, PicturesRight
<1> QED
  BY <1>1, <1>2, <1>3, PTL DEF Spec

-----------------------------------------------------------------------------
(* The trail *)

Story == Typed /\ Rows /\ Calls /\ Said

\* The numbers in a row.
LEMMA RowNumbers ==
  ASSUME Typed
  PROVE  /\ \A i \in 1..Len(trail) : trail[i].step \in Nat /\ trail[i].n \in Nat
         /\ \A i \in ResultsAt : messages[i].step \in Nat /\ messages[i].n \in Nat
<1>1. trail \in Seq(TrailRow) /\ messages \in Seq(MessageRow)
  BY RowsTyped DEF Typed, TypeOK, Boxes
<1>2. 0..MaxSteps \subseteq Nat
  BY TurnAssumption
<1>3. \A r \in TrailRow : r.step \in Nat /\ r.n \in Nat
  BY <1>2 DEF TrailRow
<1>4. \A r \in MessageRow : r.step \in Nat /\ r.n \in Nat
  BY <1>2 DEF MessageRow
<1>5. \A i \in 1..Len(trail) : trail[i] \in TrailRow
  BY <1>1
<1>6. \A i \in ResultsAt : messages[i] \in MessageRow
  BY <1>1 DEF ResultsAt
<1> QED
  BY <1>3, <1>4, <1>5, <1>6

\* Rows below the trail that was, none of them of a call that ran.
LEMMA NoneRan ==
  ASSUME Typed, Calls, trail' \in Seq(TrailRow), Len(trail) <= Len(trail'),
         \A i \in 1..Len(trail) : trail'[i] = trail[i],
         \A i \in (Len(trail) + 1)..Len(trail') : trail'[i].kind # "ran",
         ResultsAt' = ResultsAt, \A i \in ResultsAt : messages'[i] = messages[i]
  PROVE  Calls'
<1>0. Len(trail) \in Nat /\ Len(trail') \in Nat
  BY RowsTyped DEF Typed, TypeOK, Boxes
<1>1. RanAt' = RanAt
  <2>1. ASSUME NEW i PROVE i \in RanAt' <=> i \in RanAt
    <3>1. i \in 1..Len(trail') <=> i \in 1..Len(trail) \/ i \in (Len(trail) + 1)..Len(trail')
      BY <1>0
    <3> QED
      BY <3>1 DEF RanAt
  <2> QED
    BY <2>1
<1>2. \A i \in RanAt : trail'[i] = trail[i]
  BY DEF RanAt
<1>3. {CallOf(trail[i]) : i \in RanAt}' = {CallOf(trail[i]) : i \in RanAt}
  BY <1>1, <1>2 DEF CallOf
<1>4. {CallOf(messages[i]) : i \in ResultsAt}' = {CallOf(messages[i]) : i \in ResultsAt}
  BY DEF CallOf
<1>5. \A i, k \in RanAt' : i < k => Earlier(trail[i], trail[k])'
  BY <1>1, <1>2 DEF Calls, Earlier
<1>6. \A i, k \in ResultsAt' : i < k => Earlier(messages[i], messages[k])'
  BY DEF Calls, Earlier
<1>7. {CallOf(trail[i]) : i \in RanAt}' = {CallOf(messages[i]) : i \in ResultsAt}'
  BY <1>3, <1>4 DEF Calls
<1> QED
  BY <1>5, <1>6, <1>7 DEF Calls

\* A step that leaves the trail.
LEMMA CallsStay ==
  ASSUME Typed, Calls, UNCHANGED <<trail, messages>>
  PROVE  Calls'
<1>0. Len(trail) \in Nat /\ trail' \in Seq(TrailRow)
  BY RowsTyped DEF Typed, TypeOK, Boxes
<1>1. ResultsAt' = ResultsAt /\ \A i \in (Len(trail) + 1)..Len(trail') : FALSE
  BY <1>0 DEF ResultsAt
<1> QED
  BY <1>0, <1>1, NoneRan

\* What a tool step and a cut one add to the trail: what was said, if anything, and
\* the calls that were cut.
LEMMA MovedRows ==
  ASSUME Typed, ToolStep \/ CallCut
  PROVE  /\ trail' \in Seq(TrailRow) /\ Len(trail') \in Nat
         /\ Len(trail') >= Len(trail) + (IF Worded THEN 1 ELSE 0)
         /\ \A i \in 1..Len(trail) : trail'[i] = trail[i]
         /\ \A i \in (Len(trail) + 1)..Len(trail') :
              /\ trail'[i].step = step
              /\ trail'[i].kind = (IF Worded /\ i = Len(trail) + 1 THEN "note" ELSE "cut")
         /\ ToolStep => \A i \in (Len(trail) + 1)..Len(trail') : trail'[i].n = 0
<1>0. trail \in Seq(TrailRow) /\ Preamble \in Seq(TrailRow) /\ Len(trail) \in Nat
      /\ step \in 0..MaxSteps /\ Len(got.calls) \in Nat /\ Worded \in BOOLEAN
  BY RowsTyped, PreambleTyped DEF Typed, TypeOK, Boxes, LoopTypes, Worded
<1>1. Note.kind = "note" /\ Note.step = step /\ Note.n = 0
  BY DEF Note
<1>2. /\ Len(Preamble) = Len(trail) + (IF Worded THEN 1 ELSE 0)
      /\ \A i \in 1..Len(trail) : Preamble[i] = trail[i]
      /\ Worded => Preamble[Len(trail) + 1] = Note
  BY <1>0 DEF Preamble
<1>3. CASE ToolStep
  <2>1. trail' = Preamble
    BY <1>3 DEF ToolStep
  <2>2. \A i \in (Len(trail) + 1)..Len(trail') : Worded /\ i = Len(trail) + 1
    BY <1>0, <1>2, <2>1
  <2> QED
    BY <1>0, <1>1, <1>2, <2>1, <2>2
<1>4. CASE CallCut
  <2> DEFINE cuts == [i \in 1..Len(got.calls) |-> ToolRow("cut", i)]
  <2>1. trail' = Preamble \o cuts
    BY <1>4 DEF CallCut
  <2>2. \A i \in 1..Len(got.calls) :
          ToolRow("cut", i) \in TrailRow /\ cuts[i].kind = "cut" /\ cuts[i].step = step
    BY <1>0 DEF ToolRow, TrailRow
  <2>3. cuts \in Seq(TrailRow) /\ Len(cuts) = Len(got.calls)
    <3>1. Len(got.calls) \in Nat /\ \A i \in 1..Len(got.calls) : ToolRow("cut", i) \in TrailRow
      BY <1>0, <2>2
    <3> QED
      BY <3>1
  <2>l. Len(Preamble) \in Nat /\ (Worded => Len(Preamble) = Len(trail) + 1)
        /\ (~Worded => Len(Preamble) = Len(trail))
    BY <1>0, <1>2
  <2>n. ~ToolStep
    BY <1>4 DEF CallCut, ToolStep, NextStep, Over
  <2> HIDE DEF cuts
  <2>4. /\ trail' \in Seq(TrailRow) /\ Len(trail') = Len(Preamble) + Len(got.calls)
        /\ \A i \in 1..Len(Preamble) : trail'[i] = Preamble[i]
    <3> DEFINE P == Preamble
    <3>1. P \in Seq(TrailRow) /\ cuts \in Seq(TrailRow) /\ trail' = P \o cuts
      BY <1>0, <2>1, <2>3
    <3> HIDE DEF P
    <3>2. P \o cuts \in Seq(TrailRow) /\ Len(P \o cuts) = Len(P) + Len(cuts)
          /\ \A i \in 1..Len(P) : (P \o cuts)[i] = P[i]
      BY <3>1
    <3> QED
      BY <2>3, <3>1, <3>2 DEF P
  <2>5. \A i \in (Len(Preamble) + 1)..Len(trail') :
          i - Len(Preamble) \in 1..Len(got.calls) /\ trail'[i] = cuts[i - Len(Preamble)]
    BY <1>0, <2>1, <2>3, <2>4
  <2>6. \A i \in (Len(Preamble) + 1)..Len(trail') : trail'[i].kind = "cut" /\ trail'[i].step = step
    BY <2>2, <2>5
  <2>7. ASSUME NEW i \in (Len(trail) + 1)..Len(trail')
        PROVE  /\ trail'[i].step = step
               /\ trail'[i].kind = (IF Worded /\ i = Len(trail) + 1 THEN "note" ELSE "cut")
    <3>1. CASE Worded /\ i = Len(trail) + 1
      <4>1. i \in 1..Len(Preamble)
        BY <1>0, <1>2, <3>1
      <4> QED
        BY <1>1, <1>2, <2>4, <3>1, <4>1
    <3>2. CASE ~(Worded /\ i = Len(trail) + 1)
      <4>1. i \in (Len(Preamble) + 1)..Len(trail')
        BY <1>0, <2>l, <2>4, <3>2
      <4> QED
        BY <2>6, <3>2, <4>1
    <3> QED
      BY <3>1, <3>2
  <2>8. \A i \in 1..Len(trail) : trail'[i] = trail[i]
    <3>1. \A i \in 1..Len(trail) : i \in 1..Len(Preamble)
      BY <1>0, <1>2
    <3> QED
      BY <1>2, <2>4, <3>1
  <2>9. Len(trail') \in Nat /\ Len(trail') >= Len(trail) + (IF Worded THEN 1 ELSE 0)
    BY <1>0, <2>l, <2>4
  <2> QED
    BY <2>4, <2>7, <2>8, <2>9, <2>n
<1> QED
  BY <1>3, <1>4

\* What was said moves from the answer to the trail.
LEMMA MovedStory ==
  ASSUME Story, ToolStep \/ CallCut
  PROVE  Rows' /\ Calls' /\ Said'
<1>0. /\ phase = "streaming" /\ step \in Nat /\ Len(trail) \in Nat /\ got.text \in BOOLEAN
      /\ trail \in Seq(TrailRow) /\ messages \in Seq(MessageRow) /\ Len(messages) \in Nat
      /\ Typed /\ Rows /\ Calls /\ Said
  BY RowsTyped DEF Story, Typed, TypeOK, Boxes, LoopTypes, ToolStep, CallCut
<1>1. /\ trail' \in Seq(TrailRow) /\ Len(trail') \in Nat
      /\ Len(trail') >= Len(trail) + (IF Worded THEN 1 ELSE 0)
      /\ \A i \in 1..Len(trail) : trail'[i] = trail[i]
      /\ \A i \in (Len(trail) + 1)..Len(trail') :
           /\ trail'[i].step = step
           /\ trail'[i].kind = (IF Worded /\ i = Len(trail) + 1 THEN "note" ELSE "cut")
      /\ ToolStep => \A i \in (Len(trail) + 1)..Len(trail') : trail'[i].n = 0
  BY <1>0, MovedRows
<1>2. /\ content' = {} /\ spoke' = (IF got.bare THEN spoke \ {step} ELSE spoke)
      /\ \/ phase' = "asking" /\ step' = step + 1 /\ CallCut
         \/ phase' = "over"
         \/ phase' = "tools" /\ step' = step /\ next' = 1 /\ ToolStep
  BY DEF ToolStep, CallCut, NextStep, Over, Retold, Unsaid
<1>3. ResultsAt' = ResultsAt /\ \A i \in ResultsAt : messages'[i] = messages[i]
  <2>1. CASE CallCut
    <3>1. messages' = messages
      BY <2>1 DEF CallCut
    <3> QED
      BY <3>1 DEF ResultsAt
  <2>2. CASE ToolStep
    <3> DEFINE r == [role |-> "assistant", step |-> step, n |-> Len(got.calls), last |-> FALSE]
    <3>1. messages' = Append(messages, r) /\ r.role # "tool"
      BY <2>2 DEF ToolStep
    <3> HIDE DEF r
    <3>2. /\ Len(messages') = Len(messages) + 1 /\ messages'[Len(messages) + 1] = r
          /\ \A i \in 1..Len(messages) : messages'[i] = messages[i]
      BY <1>0, <3>1
    <3>3. ASSUME NEW i PROVE i \in ResultsAt' <=> i \in ResultsAt
      <4>1. i \in 1..Len(messages') <=> i \in 1..Len(messages) \/ i = Len(messages) + 1
        BY <1>0, <3>2
      <4>2. i = Len(messages) + 1 => i \notin 1..Len(messages)
        BY <1>0
      <4> QED
        BY <3>1, <3>2, <4>1, <4>2 DEF ResultsAt
    <3> QED
      BY <3>2, <3>3 DEF ResultsAt
  <2> QED
    BY <2>1, <2>2
<1>4. Calls'
  <2>1. Len(trail) <= Len(trail')
    BY <1>0, <1>1
  <2>2. \A i \in (Len(trail) + 1)..Len(trail') : trail'[i].kind # "ran"
    BY <1>1
  <2> QED
    BY <1>0, <1>1, <1>3, <2>1, <2>2, NoneRan
<1>5. Rows'
  <2>1. \A i \in 1..Len(trail) : trail[i].step < step
    BY <1>0 DEF Rows, Behind, InTools
  <2>2. \A i \in ResultsAt : messages[i].step < step
    BY <1>0 DEF Rows, Behind, InTools
  <2>t. \A i \in 1..Len(trail) : trail[i].step \in Nat
    BY <1>0, RowNumbers
  <2>m. \A i \in ResultsAt : messages[i].step \in Nat
    BY <1>0, RowNumbers
  <2>3. \A i \in 1..Len(trail') : i \in 1..Len(trail) \/ i \in (Len(trail) + 1)..Len(trail')
    BY <1>0, <1>1
  <2>4. CASE phase' = "over"
    BY <2>4 DEF Rows
  <2>5. CASE phase' = "asking" /\ step' = step + 1
    <3>1. \A i \in 1..Len(trail') : trail'[i].step < step'
      BY <1>0, <1>1, <2>1, <2>t, <2>3, <2>5
    <3>2. \A i \in ResultsAt' : messages'[i].step < step'
      BY <1>0, <1>3, <2>2, <2>m, <2>5
    <3> QED
      BY <3>1, <3>2 DEF Rows, Behind
  <2>6. CASE phase' = "tools" /\ step' = step /\ next' = 1 /\ ToolStep
    <3>1. \A i \in 1..Len(trail') :
            trail'[i].step < step' \/ (trail'[i].step = step' /\ trail'[i].n < next')
      BY <1>0, <1>1, <2>1, <2>3, <2>6
    <3>2. \A i \in ResultsAt' : messages'[i].step < step'
      BY <1>3, <2>2, <2>6
    <3> QED
      BY <2>6, <3>1, <3>2 DEF Rows, Behind, InTools
  <2> QED
    BY <1>2, <2>4, <2>5, <2>6
<1>6. Said'
  <2>1. /\ \A i, k \in NotesAt : trail[i].step = trail[k].step => i = k
        /\ {trail[i].step : i \in NotesAt} = spoke \ content
        /\ \A s \in spoke : s <= step
        /\ content = (IF got.text THEN {step} ELSE {}) /\ (step \in spoke => got.text)
        /\ content \subseteq spoke
    BY <1>0 DEF Said
  <2>2. NotesAt' = NotesAt \cup (IF Worded THEN {Len(trail) + 1} ELSE {})
    <3>1. ASSUME NEW i
          PROVE  i \in NotesAt' <=> i \in NotesAt \/ (Worded /\ i = Len(trail) + 1)
      <4>1. i \in 1..Len(trail') <=> i \in 1..Len(trail) \/ i \in (Len(trail) + 1)..Len(trail')
        BY <1>0, <1>1
      <4>2. Worded => Len(trail) + 1 \in (Len(trail) + 1)..Len(trail')
        BY <1>0, <1>1
      <4>3. i \in 1..Len(trail) => i \notin (Len(trail) + 1)..Len(trail')
        BY <1>0
      <4> QED
        BY <1>1, <4>1, <4>2, <4>3 DEF NotesAt
    <3> QED
      BY <3>1
  <2>3. \A i \in NotesAt : i \in 1..Len(trail) /\ trail'[i] = trail[i] /\ i # Len(trail) + 1
    BY <1>0, <1>1 DEF NotesAt
  <2>4. Worded => trail'[Len(trail) + 1].step = step
    BY <1>0, <1>1
  <2>5. \A i \in NotesAt : trail[i].step \in spoke \ content
    BY <2>1
  <2>6. \A i, k \in NotesAt' : trail'[i].step = trail'[k].step => i = k
    BY <2>1, <2>2, <2>3, <2>4, <2>5
  <2>w. Worded <=> got.text /\ ~got.bare
    BY DEF Worded
  <2>7. {trail'[i].step : i \in NotesAt'} = spoke'
    <3>1. {trail'[i].step : i \in NotesAt} = spoke \ content
      BY <2>1, <2>3
    <3>2. CASE Worded
      <4>1. {trail'[i].step : i \in NotesAt'} = {trail'[i].step : i \in NotesAt} \cup {step}
        BY <2>2, <2>4, <3>2
      <4> QED
        BY <1>2, <2>1, <2>w, <3>1, <3>2, <4>1
    <3>3. CASE ~Worded
      <4>1. {trail'[i].step : i \in NotesAt'} = spoke \ content
        BY <2>2, <3>1, <3>3
      <4> QED
        BY <1>2, <2>1, <2>w, <3>3, <4>1
    <3>4. Worded \in BOOLEAN
      BY DEF Worded
    <3> QED
      BY <3>2, <3>3, <3>4
  <2>8. phase' # "over" => \A s \in spoke' : s <= step'
    <3>1. \A s \in spoke : s \in Nat
      BY <1>0 DEF Typed, TypeOK, BoxTypes
    <3> QED
      BY <1>0, <1>2, <2>1, <3>1
  <2>9. phase' = "asking" => step' \notin spoke'
    <3>1. \A s \in spoke : s \in Nat
      BY <1>0 DEF Typed, TypeOK, BoxTypes
    <3> QED
      BY <1>0, <1>2, <2>1, <3>1
  <2> QED
    BY <1>2, <2>6, <2>7, <2>8, <2>9 DEF Said
<1> QED
  BY <1>4, <1>5, <1>6

\* A step that leaves what was said: it ends, or the round stays, or the round
\* after one that said nothing begins.
LEMMA QuietStory ==
  ASSUME Story, UNCHANGED <<trail, messages, content, spoke>>,
         \/ phase' = "over"
         \/ UNCHANGED <<phase, step, got, next>>
         \/ phase = "asking" /\ phase' = "streaming" /\ got' = Nothing /\ UNCHANGED step
         \/ phase = "streaming" /\ phase' = "streaming" /\ got'.text = got.text /\ UNCHANGED step
         \/ phase = "tools" /\ phase' = "calling" /\ UNCHANGED <<step, next>>
         \/ phase = "streaming" /\ ~got.text /\ phase' = "asking" /\ step' = step + 1
  PROVE  Rows' /\ Calls' /\ Said'
<1>0. /\ step \in Nat /\ trail \in Seq(TrailRow) /\ messages \in Seq(MessageRow)
      /\ Typed /\ Rows /\ Calls /\ Said /\ \A s \in spoke : s \in Nat
  BY RowsTyped DEF Story, Typed, TypeOK, Boxes, LoopTypes
<1>1. Calls'
  BY <1>0, CallsStay
<1>2. Rows'
  <2>1. \A i \in 1..Len(trail) : trail[i].step \in Nat
    BY <1>0, RowNumbers
  <2>2. \A i \in ResultsAt : messages[i].step \in Nat
    BY <1>0, RowNumbers
  <2>3. ResultsAt' = ResultsAt
    BY DEF ResultsAt
  <2>4. CASE phase' = "over"
    BY <2>4 DEF Rows
  <2>5. CASE UNCHANGED <<phase, step, got, next>>
    BY <1>0, <2>3, <2>5 DEF Rows, Behind, InTools
  <2>6. CASE phase \in {"asking", "streaming"} /\ phase' = "streaming" /\ UNCHANGED step
    BY <1>0, <2>3, <2>6 DEF Rows, Behind, InTools
  <2>7. CASE phase = "tools" /\ phase' = "calling" /\ UNCHANGED <<step, next>>
    BY <1>0, <2>3, <2>7 DEF Rows, Behind, InTools
  <2>8. CASE phase = "streaming" /\ phase' = "asking" /\ step' = step + 1
    <3>1. \A i \in 1..Len(trail) : trail[i].step < step
      BY <1>0, <2>8 DEF Rows, Behind, InTools
    <3>2. \A i \in ResultsAt : messages[i].step < step
      BY <1>0, <2>8 DEF Rows, Behind, InTools
    <3>3. \A i \in 1..Len(trail) : trail[i].step < step'
      BY <1>0, <2>1, <2>8, <3>1
    <3>4. \A i \in ResultsAt : messages[i].step < step'
      BY <1>0, <2>2, <2>8, <3>2
    <3> QED
      BY <2>3, <3>3, <3>4 DEF Rows, Behind
  <2> QED
    BY <2>4, <2>5, <2>6, <2>7, <2>8
<1>3. Said'
  <2>1. NotesAt' = NotesAt /\ {trail[i].step : i \in NotesAt}' = {trail[i].step : i \in NotesAt}
    BY DEF NotesAt
  <2>2. /\ \A i, k \in NotesAt' : trail'[i].step = trail'[k].step => i = k
        /\ {trail[i].step : i \in NotesAt}' = spoke' \ content'
        /\ content' \subseteq spoke' /\ \A s, t \in content' : s = t
    BY <1>0, <2>1 DEF Said
  <2>3. phase' # "over" => \A s \in spoke' : s <= step'
    BY <1>0 DEF Said
  <2>4. phase' = "asking" => step' \notin spoke'
    BY <1>0 DEF Said
  <2>5. phase' \in {"asking", "tools", "calling"} => content' = {}
    BY <1>0 DEF Said
  <2>6. phase' = "streaming" =>
          content' = (IF got'.text THEN {step'} ELSE {}) /\ (step' \in spoke' => got'.text)
    BY <1>0 DEF Said, Nothing
  <2> QED
    BY <2>2, <2>3, <2>4, <2>5, <2>6 DEF Said
<1> QED
  BY <1>1, <1>2, <1>3

\* The first words of a step are its answer, until it turns out to be a tool step.
LEMMA SayStory ==
  ASSUME Story, Say
  PROVE  Rows' /\ Calls' /\ Said'
<1>0. /\ step \in Nat /\ trail \in Seq(TrailRow) /\ messages \in Seq(MessageRow)
      /\ Typed /\ Rows /\ Calls /\ Said /\ phase = "streaming"
      /\ got \in [text : BOOLEAN, bare : BOOLEAN, calls : Seq(Tools), pics : Nat]
  BY RowsTyped DEF Story, Typed, TypeOK, Boxes, LoopTypes, Say, Streaming
<1>b. PICK bare \in BOOLEAN : got' = [got EXCEPT !.text = TRUE, !.bare = bare]
  BY DEF Say
<1>1. /\ ~got.text /\ got'.text /\ got'.calls = got.calls /\ content' = content \cup {step}
      /\ spoke' = spoke \cup {step} /\ UNCHANGED <<phase, step, trail, messages, next>>
  BY <1>0, <1>b DEF Say
<1>2. Calls'
  BY <1>0, <1>1, CallsStay
<1>3. Rows'
  BY <1>0, <1>1 DEF Rows, Behind, InTools, ResultsAt
<1>4. Said'
  <2>1. NotesAt' = NotesAt /\ {trail[i].step : i \in NotesAt}' = {trail[i].step : i \in NotesAt}
    BY <1>1 DEF NotesAt
  <2>2. content = {} /\ step \notin spoke /\ got'.text
    BY <1>0, <1>1 DEF Said
  <2>3. spoke' \ content' = spoke \ content
    BY <1>1, <2>2
  <2> QED
    BY <1>0, <1>1, <2>1, <2>2, <2>3 DEF Said
<1> QED
  BY <1>2, <1>3, <1>4

\* A call has run: it is the last of the trail, and its result of the conversation.
LEMMA ToolStory ==
  ASSUME Story, RunTool
  PROVE  Rows' /\ Calls' /\ Said'
<1>a. PICK pics \in {0, 1} : Return(pics)
  BY ToolReturns
<1>0. /\ step \in Nat /\ trail \in Seq(TrailRow) /\ messages \in Seq(MessageRow)
      /\ Typed /\ Rows /\ Calls /\ Said /\ phase = "calling"
      /\ next \in 1..Len(got.calls) /\ Len(got.calls) \in Nat
      /\ Len(trail) \in Nat /\ Len(messages) \in Nat /\ \A s \in spoke : s \in Nat
  BY <1>a, CallAtHand DEF Story
<1> DEFINE r == ToolRow("ran", next)
           me == Len(messages) + 1
<1>1. /\ trail' = Append(trail, r) /\ r.kind = "ran" /\ r.step = step /\ r.n = next
      /\ UNCHANGED <<content, spoke>>
      /\ \/ phase' = "tools" /\ next' = next + 1 /\ step' = step
         \/ phase' = "asking" /\ step' = step + 1
  BY <1>a DEF Return, ToolRow, NextStep
<1> HIDE DEF r
<1>2. /\ Len(trail') = Len(trail) + 1 /\ trail'[Len(trail) + 1] = r
      /\ \A i \in 1..Len(trail) : trail'[i] = trail[i]
  BY <1>0, <1>1
<1>3. /\ Len(messages') \in Nat /\ Len(messages') >= me
      /\ \A i \in 1..Len(messages) : messages'[i] = messages[i]
      /\ messages'[me].role = "tool" /\ messages'[me].step = step /\ messages'[me].n = next
      /\ \A i \in (me + 1)..Len(messages') : messages'[i].role # "tool"
  <2>1. PICK q \in Seq(MessageRow) :
           /\ Len(q) = Len(messages) + 1 /\ \A i \in 1..Len(messages) : q[i] = messages[i]
           /\ q[Len(messages) + 1].role = "tool" /\ q[Len(messages) + 1].step = step
           /\ q[Len(messages) + 1].n = next
           /\ q[Len(messages) + 1].last <=> next = Len(got.calls) /\ step = MaxSteps - 2
           /\ \/ messages' = q
              \/ /\ next = Len(got.calls)
                 /\ \E p \in MessageRow :
                      p.role = "pictures" /\ p.step = step /\ messages' = Append(q, p)
    BY <1>0, <1>a, Returned
  <2>2. CASE messages' = q
    BY <1>0, <2>1, <2>2
  <2>3. CASE messages' # q
    <3>1. PICK p \in MessageRow : p.role = "pictures" /\ messages' = Append(q, p)
      BY <2>1, <2>3
    <3>2. /\ Len(messages') = Len(q) + 1 /\ messages'[Len(q) + 1] = p
          /\ \A i \in 1..Len(q) : messages'[i] = q[i]
      BY <3>1
    <3>3. /\ me \in 1..Len(q) /\ Len(q) = me /\ Len(messages') = me + 1
          /\ \A i \in 1..Len(messages) : i \in 1..Len(q)
      BY <1>0, <2>1, <3>2
    <3>4. \A i \in (me + 1)..Len(messages') : i = me + 1
      BY <1>0, <3>3
    <3> QED
      BY <1>0, <2>1, <3>1, <3>2, <3>3, <3>4
  <2> QED
    BY <2>2, <2>3
<1>4. RanAt' = RanAt \cup {Len(trail) + 1} /\ \A i \in RanAt : i \in 1..Len(trail) /\ trail'[i] = trail[i]
  <2>1. ASSUME NEW i PROVE i \in RanAt' <=> i \in RanAt \/ i = Len(trail) + 1
    <3>1. i \in 1..Len(trail') <=> i \in 1..Len(trail) \/ i = Len(trail) + 1
      BY <1>0, <1>2
    <3>2. Len(trail) + 1 \notin 1..Len(trail)
      BY <1>0
    <3> QED
      BY <1>1, <1>2, <3>1, <3>2 DEF RanAt
  <2> QED
    BY <1>2, <2>1 DEF RanAt
<1>5. ResultsAt' = ResultsAt \cup {me}
      /\ \A i \in ResultsAt : i \in 1..Len(messages) /\ messages'[i] = messages[i]
  <2>1. ASSUME NEW i PROVE i \in ResultsAt' <=> i \in ResultsAt \/ i = me
    <3>1. i \in 1..Len(messages') <=>
            i \in 1..Len(messages) \/ i = me \/ i \in (me + 1)..Len(messages')
      BY <1>0, <1>3
    <3>2. me \notin 1..Len(messages) /\ me \notin (me + 1)..Len(messages')
          /\ (i \in 1..Len(messages) => i \notin (me + 1)..Len(messages'))
      BY <1>0
    <3> HIDE DEF me
    <3> QED
      BY <1>3, <3>1, <3>2 DEF ResultsAt
  <2> QED
    BY <1>3, <2>1 DEF ResultsAt
<1> HIDE DEF me
<1>b. /\ \A i \in 1..Len(trail) :
           trail[i].step < step \/ (trail[i].step = step /\ trail[i].n < next)
      /\ \A i \in ResultsAt :
           messages[i].step < step \/ (messages[i].step = step /\ messages[i].n < next)
  BY <1>0 DEF Rows, Behind, InTools
<1>t. \A i \in 1..Len(trail) : trail[i].step \in Nat /\ trail[i].n \in Nat
  BY <1>0, RowNumbers
<1>m. \A i \in ResultsAt : messages[i].step \in Nat /\ messages[i].n \in Nat
  BY <1>0, RowNumbers
<1>6. Calls'
  <2>1. /\ {CallOf(trail[i]) : i \in RanAt}' = {CallOf(trail[i]) : i \in RanAt} \cup {<<step, next>>}
    BY <1>1, <1>2, <1>4 DEF CallOf
  <2>2. {CallOf(messages[i]) : i \in ResultsAt}' =
          {CallOf(messages[i]) : i \in ResultsAt} \cup {<<step, next>>}
    BY <1>3, <1>5 DEF CallOf
  <2>3. ASSUME NEW i \in RanAt', NEW k \in RanAt', i < k PROVE Earlier(trail[i], trail[k])'
    <3>1. CASE k \in RanAt
      <4>1. i \in RanAt
        BY <1>0, <1>4, <2>3, <3>1
      <4> QED
        BY <1>0, <1>4, <2>3, <3>1, <4>1 DEF Calls, Earlier
    <3>2. CASE k = Len(trail) + 1
      <4>1. i \in RanAt /\ i \in 1..Len(trail) /\ trail'[i] = trail[i]
        BY <1>0, <1>4, <2>3, <3>2
      <4>2. trail'[k].step = step /\ trail'[k].n = next
        BY <1>1, <1>2, <3>2
      <4> QED
        BY <1>b, <4>1, <4>2 DEF Earlier
    <3> QED
      BY <1>4, <3>1, <3>2
  <2>4. ASSUME NEW i \in ResultsAt', NEW k \in ResultsAt', i < k
        PROVE  Earlier(messages[i], messages[k])'
    <3>1. CASE k \in ResultsAt
      <4>1. i \in ResultsAt
        BY <1>0, <1>5, <2>4, <3>1 DEF me
      <4> QED
        BY <1>0, <1>5, <2>4, <3>1, <4>1 DEF Calls, Earlier
    <3>2. CASE k = me
      <4>1. i \in ResultsAt /\ messages'[i] = messages[i]
        BY <1>0, <1>5, <2>4, <3>2 DEF me
      <4> QED
        BY <1>3, <1>b, <3>2, <4>1 DEF Earlier
    <3> QED
      BY <1>5, <3>1, <3>2
  <2> QED
    BY <1>0, <2>1, <2>2, <2>3, <2>4 DEF Calls
<1>7. Rows'
  <2>1. \A i \in 1..Len(trail') : i \in 1..Len(trail) \/ i = Len(trail) + 1
    BY <1>0, <1>2
  <2>2. CASE phase' = "tools" /\ next' = next + 1 /\ step' = step
    <3>1. \A i \in 1..Len(trail') : Behind(trail[i])'
      BY <1>0, <1>1, <1>2, <1>b, <1>t, <2>1, <2>2 DEF Behind, InTools
    <3>2. ASSUME NEW i \in ResultsAt' PROVE Behind(messages[i])'
      <4>1. CASE i \in ResultsAt
        <5>1. /\ messages'[i] = messages[i] /\ messages[i].n \in Nat /\ next \in Nat
              /\ messages[i].step < step \/ (messages[i].step = step /\ messages[i].n < next)
          BY <1>0, <1>5, <1>b, <1>m, <4>1
        <5>2. messages[i].n < next => messages[i].n < next + 1
          BY <5>1
        <5> QED
          BY <2>2, <5>1, <5>2 DEF Behind, InTools
      <4>2. CASE i = me
        BY <1>0, <1>3, <2>2, <4>2 DEF Behind, InTools
      <4> QED
        BY <1>5, <4>1, <4>2
    <3> QED
      BY <3>1, <3>2 DEF Rows
  <2>3. CASE phase' = "asking" /\ step' = step + 1
    <3>1. ASSUME NEW i \in 1..Len(trail') PROVE trail'[i].step < step'
      <4>1. CASE i \in 1..Len(trail)
        <5>1. trail'[i] = trail[i] /\ trail[i].step \in Nat /\ trail[i].step <= step
          BY <1>0, <1>2, <1>b, <1>t, <4>1
        <5> QED
          BY <1>0, <2>3, <5>1
      <4>2. CASE i = Len(trail) + 1
        BY <1>0, <1>1, <1>2, <2>3, <4>2
      <4> QED
        BY <2>1, <4>1, <4>2
    <3>2. ASSUME NEW i \in ResultsAt' PROVE messages'[i].step < step'
      <4>1. CASE i \in ResultsAt
        <5>1. messages'[i] = messages[i] /\ messages[i].step \in Nat /\ messages[i].step <= step
          BY <1>0, <1>5, <1>b, <1>m, <4>1
        <5> QED
          BY <1>0, <2>3, <5>1
      <4>2. CASE i = me
        BY <1>0, <1>3, <2>3, <4>2
      <4> QED
        BY <1>5, <4>1, <4>2
    <3> QED
      BY <3>1, <3>2 DEF Rows, Behind
  <2> QED
    BY <1>1, <2>2, <2>3
<1>8. Said'
  <2>1. NotesAt' = NotesAt /\ \A i \in NotesAt : trail'[i] = trail[i]
    <3>1. ASSUME NEW i PROVE i \in NotesAt' <=> i \in NotesAt
      <4>1. i \in 1..Len(trail') <=> i \in 1..Len(trail) \/ i = Len(trail) + 1
        BY <1>0, <1>2
      <4>2. Len(trail) + 1 \notin 1..Len(trail)
        BY <1>0
      <4> QED
        BY <1>1, <1>2, <4>1, <4>2 DEF NotesAt
    <3> QED
      BY <1>2, <3>1 DEF NotesAt
  <2>2. {trail[i].step : i \in NotesAt}' = {trail[i].step : i \in NotesAt}
    BY <2>1
  <2>3. \A i, k \in NotesAt' : trail'[i].step = trail'[k].step => i = k
    BY <1>0, <2>1 DEF Said
  <2>4. \A s \in spoke' : s <= step'
    BY <1>0, <1>1 DEF Said
  <2>5. phase' = "asking" => step' \notin spoke'
    BY <1>0, <1>1 DEF Said
  <2> QED
    BY <1>0, <1>1, <2>2, <2>3, <2>4, <2>5 DEF Said
<1> QED
  BY <1>6, <1>7, <1>8

\* Every step leaves the trail and the answer telling what was said and run.
LEMMA NextStory == Story /\ [Next]_vars => Story'
<1> SUFFICES ASSUME Story, [Next]_vars PROVE Rows' /\ Calls' /\ Said'
  BY NextTyped DEF Story
<1>0. phase \in {"asking", "streaming", "tools", "calling", "over"}
      /\ got \in [text : BOOLEAN, bare : BOOLEAN, calls : Seq(Tools), pics : Nat]
  BY DEF Story, Typed, TypeOK, LoopTypes
<1>1. CASE Ask
  BY <1>1, QuietStory DEF Ask
<1>2. CASE \E t \in Tools : Call(t)
  <2>1. PICK t \in Tools : got' = [got EXCEPT !.calls = Append(@, t)]
    BY <1>2 DEF Call
  <2>2. got'.text = got.text
    BY <1>0, <2>1
  <2> QED
    BY <1>2, <2>2, QuietStory DEF Call, Streaming
<1>3. CASE CloseThinking
  BY <1>3, QuietStory DEF CloseThinking, Streaming, NextStep
<1>4. CASE ThoughtThrough
  BY <1>4, QuietStory DEF ThoughtThrough, NextStep
<1>5. CASE Answer \/ StopNoticed \/ UpstreamFails
  BY <1>5, QuietStory DEF Answer, StopNoticed, UpstreamFails, Over
<1>6. CASE StartTool
  BY <1>6, QuietStory DEF StartTool
<1>7. CASE Deadline \/ Stop \/ UNCHANGED vars
  <2>1. UNCHANGED <<trail, messages, content, spoke, phase, step, got, next>>
    BY <1>7 DEF Deadline, Stop, vars
  <2> QED
    BY <2>1, QuietStory
<1> QED
  BY <1>1, <1>2, <1>3, <1>4, <1>5, <1>6, <1>7, SayStory, ToolStory, MovedStory DEF Next

\* What a step said is in one place, and what ran is told to both.
LEMMA ToldInOnePlace == Spec => []ToldOnce
<1>1. Init => Story
  <2> SUFFICES ASSUME Init PROVE Story
    OBVIOUS
  <2>1. /\ messages = <<>> /\ trail = <<>> /\ phase = "asking" /\ content = {} /\ spoke = {}
        /\ Len(<<>>) = 0
    BY DEF Init
  <2>2. 1..0 = {}
    OBVIOUS
  <2>3. RanAt = {} /\ ResultsAt = {} /\ NotesAt = {}
    BY <2>1, <2>2 DEF RanAt, ResultsAt, NotesAt
  <2> QED
    BY <2>1, <2>2, <2>3, InitTyped DEF Story, Rows, Calls, Said
<1>2. Story => ToldOnce
  <2> SUFFICES ASSUME Story PROVE ToldOnce
    OBVIOUS
  <2>1. Cardinality(content) <= 1
    <3>1. CASE content = {}
      BY <3>1, FS_EmptySet
    <3>2. CASE content # {}
      <4>1. PICK s \in content : TRUE
        BY <3>2
      <4>2. content = {s}
        BY <4>1 DEF Story, Said
      <4>3. Cardinality(content) = 1
        BY <4>2, FS_Singleton
      <4> QED
        BY <4>3
    <3> QED
      BY <3>1, <3>2
  <2>2. ASSUME NEW s \in 0..MaxSteps
        PROVE  Cardinality(Notes(s)) + Cardinality(content \cap {s}) = IF s \in spoke THEN 1 ELSE 0
    <3>1. Notes(s) = {i \in NotesAt : trail[i].step = s}
      BY DEF Notes, NotesAt
    <3>2. Cardinality(Notes(s)) = IF s \in spoke \ content THEN 1 ELSE 0
      <4>1. CASE s \in spoke \ content
        <5>1. PICK i \in NotesAt : trail[i].step = s
          BY <4>1 DEF Story, Said
        <5>2. Notes(s) = {i}
          BY <3>1, <5>1 DEF Story, Said
        <5> QED
          BY <4>1, <5>2, FS_Singleton
      <4>2. CASE s \notin spoke \ content
        <5>1. Notes(s) = {}
          BY <3>1, <4>2 DEF Story, Said
        <5> QED
          BY <4>2, <5>1, FS_EmptySet
      <4> QED
        BY <4>1, <4>2
    <3>3. Cardinality(content \cap {s}) = IF s \in content THEN 1 ELSE 0
      <4>1. CASE s \in content
        <5>1. content \cap {s} = {s}
          BY <4>1
        <5> QED
          BY <4>1, <5>1, FS_Singleton
      <4>2. CASE s \notin content
        <5>1. content \cap {s} = {}
          BY <4>2
        <5> QED
          BY <4>2, <5>1, FS_EmptySet
      <4> QED
        BY <4>1, <4>2
    <3>4. content \subseteq spoke
      BY DEF Story, Said
    <3> QED
      BY <3>2, <3>3, <3>4
  <2> QED
    BY <2>1, <2>2 DEF ToldOnce, Story, Calls
<1> QED
  BY <1>1, <1>2, NextStory, PTL DEF Spec

\* The model and the reader are told the turn as it was, however many rounds and
\* calls there are and wherever a reply was cut or stopped: the conversation is one
\* the chat template renders, and answer and trail tell what was said and run, once
\* and in its order.
THEOREM TurnIsToldAsItWas == Spec => []ToldAsItWas
<1>1. CallsAnswered /\ ToldOnce => ToldAsItWas
  BY DEF ToldAsItWas
<1> QED
  BY <1>1, TurnsAreRendered, ToldInOnePlace, PTL
=============================================================================

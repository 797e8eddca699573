------------------------------ MODULE Metering ------------------------------
(***************************************************************************)
(* Who pays for the GPU (llamacracy/metering.py, and what queue.py measures *)
(* for it): sessions with a fixed window, the rolling week, admission at   *)
(* the moment a request is made, and the bill when its job ends.           *)
(*                                                                         *)
(* Time is counted in ticks.  A credit is split into Rate parts, so that   *)
(* LOAD_TIME_MULTIPLIER is LoadRate / Rate and sums stay whole.  Dollars   *)
(* are a factor on credits and are left out, as is the unused fast lane.   *)
(***************************************************************************)
EXTENDS Integers, Sequences, FiniteSets, FiniteSetsExt

CONSTANTS
  Jobs, Users, NoJob,
  Owner,           \* whose job it is
  Uncapped,        \* users without limits
  MaxJobsPerUser,  \* MAX_JOBS_PER_USER, 0 for no such cap
  Rate, LoadRate,  \* parts of a credit for a second of box time, and of loading
  SessionCap, WeeklyCap,   \* effective_limits, in the same parts
  SessionWindow, Week,     \* in ticks
  MaxTime,         \* bound: the last tick
  MaxStarts        \* bound: starts of the service

ASSUME MeteringAssumption ==
  /\ NoJob \notin Jobs /\ IsFiniteSet(Jobs)
  /\ Owner \in [Jobs -> Users] /\ Uncapped \subseteq Users
  /\ MaxJobsPerUser \in Nat
  /\ Rate \in Nat /\ LoadRate \in 0..Rate
  /\ SessionCap \in [Users -> Nat] /\ WeeklyCap \in [Users -> Nat]
  /\ SessionWindow \in Nat \ {0} /\ Week \in Nat \ {0}
  /\ MaxTime \in Nat /\ MaxStarts \in Nat

VARIABLES
  now,        \* the clock
  line,       \* _pending
  job,        \* _active
  phase,      \* how far _run is with it
  picked,     \* its picked_at
  started,    \* its t_start
  load,       \* its load_seconds
  sessions,   \* the sessions table: [user, start, expires, used], by id
  state,      \* jobs' rows: state, ...
  session,    \* ... session_id (0 for none), ...
  finished,   \* ... finished_at, ...
  credits,    \* ... and credits
  starts      \* starts of the service

runVars == <<job, phase, picked, started, load>>
rowVars == <<state, session, finished, credits>>
vars == <<now, line, runVars, sessions, rowVars, starts>>

\* A row's state.  A row whose process died keeps the state it had; here it is
\* "lost".  "cut" is a running job whose worker was cancelled by a shutdown.
RowState == {"none", "queued", "running", "done", "cancelled", "error",
             "limit_exceeded", "cut", "lost"}

\* Rows with a finished_at.
Finished == {j \in Jobs : state[j] \in {"done", "cancelled", "error", "limit_exceeded", "cut"}}

Phase == {"none", "asking", "loading", "warm", "generating", "answered"}

CreditsOf(S) == MapThenSumSet(LAMBDA j : credits[j], S)

Init ==
  /\ now = 0
  /\ line = <<>>
  /\ job = NoJob /\ phase = "none" /\ picked = 0 /\ started = 0 /\ load = 0
  /\ sessions = <<>>
  /\ state = [j \in Jobs |-> "none"]
  /\ session = [j \in Jobs |-> 0]
  /\ finished = [j \in Jobs |-> 0]
  /\ credits = [j \in Jobs |-> 0]
  /\ starts = 1

-----------------------------------------------------------------------------
(* Sessions and the week *)

\* Mutant of OpenNow: a session that starts at this moment is not seen yet.
OpenNow_Strictly(u) ==
  {s \in DOMAIN sessions :
     sessions[s].user = u /\ sessions[s].start < now /\ now < sessions[s].expires}

\* active_session's WHERE
OpenNow(u) ==
  {s \in DOMAIN sessions :
     sessions[s].user = u /\ sessions[s].start <= now /\ now < sessions[s].expires}

\* get_or_open_session: the sessions afterwards, and the user's own.
SessionsFor(u) ==
  IF OpenNow(u) # {} THEN sessions
  ELSE Append(sessions,
              [user |-> u, start |-> now, expires |-> now + SessionWindow, used |-> 0])

SessionOf(u) ==
  IF OpenNow(u) = {} THEN Len(sessions) + 1
  ELSE CHOOSE s \in OpenNow(u) : \A t \in OpenNow(u) : sessions[t].start <= sessions[s].start

\* The user's rows inside the week that ends at "at".
InWeek(u, at) == {j \in Finished : Owner[j] = u /\ finished[j] >= at - Week}

WeeklyCredits(u, at) == CreditsOf(InWeek(u, at))

\* With these rows out of the window, the user is back under the cap.
Enough(u, removed) == WeeklyCredits(u, now) - CreditsOf(removed) < WeeklyCap[u]

\* weekly_reset_at: the oldest row that, gone with all before it, is enough.
WeeklyResetAt(u) ==
  LET paid == {j \in InWeek(u, now) : credits[j] > 0}
      frees == {j \in paid : Enough(u, {i \in paid : finished[i] <= finished[j]})}
  IN IF frees = {} THEN now + Week ELSE Min({finished[j] : j \in frees}) + Week

\* usage_view's w_reset: shown from three quarters of the cap on; 0 for none.
WeeklyResetShown(u) ==
  IF u \notin Uncapped /\ 4 * WeeklyCredits(u, now) >= 3 * WeeklyCap[u]
    THEN WeeklyResetAt(u) ELSE 0

-----------------------------------------------------------------------------
(* Admission *)

\* Mutant of Mine: the running job is not counted.
Mine_Waiting(u) == {j \in Jobs : Owner[j] = u /\ state[j] = "queued"}

\* jobs_of
Mine(u) == {j \in Jobs : Owner[j] = u /\ state[j] \in {"queued", "running"}}

UnderJobCap(u) ==
  MaxJobsPerUser = 0 \/ u \in Uncapped \/ Cardinality(Mine(u)) < MaxJobsPerUser

\* check_limits, for a user whose session has used that much.
UnderLimits(u, used) ==
  u \in Uncapped \/ (used < SessionCap[u] /\ WeeklyCredits(u, now) < WeeklyCap[u])

\* Over MAX_JOBS_PER_USER a request is refused and leaves nothing behind: not
\* a step.  Past it, the session is opened whatever comes next.
Request(j) ==
  LET u == Owner[j]
      s == SessionOf(u)
      all == SessionsFor(u)
  IN /\ state[j] = "none" /\ UnderJobCap(u)
     /\ sessions' = all
     /\ session' = [session EXCEPT ![j] = s]
     /\ IF UnderLimits(u, all[s].used)
          THEN /\ line' = Append(line, j)
               /\ state' = [state EXCEPT ![j] = "queued"]
               /\ UNCHANGED finished
          ELSE /\ state' = [state EXCEPT ![j] = "limit_exceeded"]
               /\ finished' = [finished EXCEPT ![j] = now]
               /\ UNCHANGED line
     /\ UNCHANGED <<now, runVars, credits, starts>>

\* drop_queued: a job that never ran is never billed.
Drop(j) ==
  /\ \E i \in 1..Len(line) :
       line[i] = j /\ line' = SubSeq(line, 1, i - 1) \o SubSeq(line, i + 1, Len(line))
  /\ state' = [state EXCEPT ![j] = "cancelled"]
  /\ finished' = [finished EXCEPT ![j] = now]
  /\ UNCHANGED <<now, runVars, sessions, session, credits, starts>>

-----------------------------------------------------------------------------
(* The worker's clocks *)

Take ==
  /\ job = NoJob /\ line # <<>>
  /\ job' = Head(line) /\ line' = Tail(line)
  /\ phase' = "asking" /\ picked' = now /\ started' = 0 /\ load' = 0
  /\ state' = [state EXCEPT ![job'] = "running"]
  /\ UNCHANGED <<now, sessions, session, finished, credits, starts>>

\* llama-swap said what is loaded: t_start, and a cold start or not.
Asked ==
  /\ phase = "asking"
  /\ phase' \in {"loading", "warm"} /\ started' = now
  /\ UNCHANGED <<now, line, job, picked, load, sessions, rowVars, starts>>

\* _mark_generating
FirstOutput ==
  /\ phase \in {"loading", "warm"}
  /\ phase' = "generating"
  /\ load' = IF phase = "loading" THEN now - started ELSE 0
  /\ UNCHANGED <<now, line, job, picked, started, sessions, rowVars, starts>>

\* Mutant of LoadSeconds: the prompt's time is taken off without a floor.
LoadSeconds_NoFloor ==
  CASE phase = "generating" -> {load - p : p \in 0..(now - started)}
    [] phase = "loading" -> {now - started}
    [] OTHER -> {0}

\* What _run makes of the load once the pump has ended: less the prompt's time
\* when the answer began, all of it when the model never came up.
LoadSeconds ==
  CASE phase = "generating" -> 0..load
    [] phase = "loading" -> {now - started}
    [] OTHER -> {0}

\* The pump ended, by itself or by a Stop; the chat may still be named.
Answered ==
  /\ phase \in {"loading", "warm", "generating"}
  /\ phase' = "answered" /\ load' \in LoadSeconds
  /\ UNCHANGED <<now, line, job, picked, started, sessions, rowVars, starts>>

-----------------------------------------------------------------------------
(* The bill *)

\* _run's own measure, taken when the chat has been named and the sampler has
\* stopped; _finalize's when _run did not get there, or got zero.
Occupancy(outcome) ==
  IF phase = "answered" /\ outcome \in {"done", "cancelled"} /\ now # started
    THEN now - started ELSE now - picked

\* credits_for_job
CreditsFor(outcome) ==
  IF outcome = "error" THEN 0
  ELSE LET held    == Occupancy(outcome)
           loading == Min({load, held})
       IN Rate * (held - loading) + LoadRate * loading

\* Mutant of Billed: whichever session the user has now.
Billed_Newest == Max({s \in DOMAIN sessions : sessions[s].user = Owner[job]})

\* The session that pays: the one of admission.
Billed == session[job]

InLine == {line[i] : i \in DOMAIN line}

\* The rows when the job in the slot ends, and jobs are gone with their process.
Rows(outcome, gone) ==
  [j \in Jobs |-> CASE j \in gone -> "lost"
                    [] j = job /\ j \notin gone -> outcome
                    [] OTHER -> state[j]]

Idle == job' = NoJob /\ phase' = "none" /\ picked' = 0 /\ started' = 0 /\ load' = 0

\* _finalize and finalize_billing, for the job in the slot.
Finalize(outcome, gone) ==
  LET paid == CreditsFor(outcome)
  IN /\ sessions' = [sessions EXCEPT ![Billed].used = @ + paid]
     /\ credits' = [credits EXCEPT ![job] = paid]
     /\ finished' = [finished EXCEPT ![job] = now]
     /\ state' = Rows(outcome, gone)
     /\ Idle
     /\ UNCHANGED <<now, session>>

Ends ==
  /\ phase = "answered"
  /\ \E outcome \in {"done", "cancelled"} : Finalize(outcome, {})
  /\ UNCHANGED <<line, starts>>

\* The upstream failed, or naming the chat did.
Fails ==
  /\ job # NoJob
  /\ Finalize("error", {})
  /\ UNCHANGED <<line, starts>>

\* A shutdown cancels the worker; _take's finally bills the running job as far
\* as it came.  The next process starts with an empty line.
Shutdown ==
  /\ starts < MaxStarts /\ starts' = starts + 1
  /\ job # NoJob
  /\ Finalize("cut", InLine)
  /\ line' = <<>>

\* The process dies, or is idle when it is stopped.
Restart ==
  /\ starts < MaxStarts /\ starts' = starts + 1
  /\ line' = <<>>
  /\ state' = Rows("lost", InLine)
  /\ Idle
  /\ UNCHANGED <<now, sessions, session, finished, credits>>

Tick ==
  /\ now < MaxTime /\ now' = now + 1
  /\ UNCHANGED <<line, runVars, sessions, rowVars, starts>>

Next ==
  \/ \E j \in Jobs : Request(j) \/ Drop(j)
  \/ Take \/ Asked \/ FirstOutput \/ Answered \/ Ends \/ Fails
  \/ Shutdown \/ Restart
  \/ Tick

Spec == Init /\ [][Next]_vars

-----------------------------------------------------------------------------
(* Properties *)

SessionRow == [user : Users, start : Nat, expires : Nat, used : Nat]

TypeOK ==
  /\ now \in Nat /\ starts \in Nat
  /\ line \in Seq(Jobs) /\ job \in Jobs \cup {NoJob} /\ phase \in Phase
  /\ picked \in Nat /\ started \in Nat /\ load \in Nat
  /\ sessions \in Seq(SessionRow)
  /\ state \in [Jobs -> RowState] /\ session \in [Jobs -> Nat]
  /\ finished \in [Jobs -> Nat] /\ credits \in [Jobs -> Nat]

\* What a session has used is what its jobs' rows say, also when a job ends
\* long after the session did.
Conservation ==
  \A s \in DOMAIN sessions :
    sessions[s].used = CreditsOf({j \in Jobs : session[j] = s})

\* A user has one session at a time, of a fixed length.
OneSessionAtATime ==
  \A s, t \in DOMAIN sessions :
    s < t /\ sessions[s].user = sessions[t].user => sessions[s].expires <= sessions[t].start

\* "1 credit = 1 second of exclusive box time": nobody waits for money, and
\* no second is paid for twice, whoever pays.
BoxTimeSoldOnce == CreditsOf(Jobs) <= Rate * now

\* Money adds up: over the jobs of a session, and over the seconds of the box.
\* (metering.py: finalize_billing)
MoneyAddsUp == Conservation /\ BoxTimeSoldOnce

\* Jobs of a session that ran on after it had reached its cap.
Overshooting(s) ==
  LET paid == {j \in Jobs : session[j] = s /\ credits[j] > 0}
  IN {j \in paid : CreditsOf({i \in paid : finished[i] < finished[j]})
                     >= SessionCap[sessions[s].user]}

\* "a user who sends many at once would otherwise get them all past a limit
\* they're about to hit. A few at a time is plenty."
OvershootIsFew ==
  MaxJobsPerUser > 0 =>
    \A s \in DOMAIN sessions :
      sessions[s].user \notin Uncapped => Cardinality(Overshooting(s)) < MaxJobsPerUser

\* "The moment the rolling window first drops enough old credits to bring the
\* user back under cap": over it until then, under it from the next tick on,
\* if nothing else is billed.
ResetIsRight ==
  \A u \in Users :
    LET reset == WeeklyResetAt(u) IN
    WeeklyCap[u] > 0 /\ WeeklyCredits(u, now) >= WeeklyCap[u] =>
      \A t \in now..(now + Week + 1) : WeeklyCredits(u, t) < WeeklyCap[u] <=> t > reset

\* A user who is near the cap is shown when the week gets lighter: not before
\* that, and from the next tick on.
ShownIsRight ==
  \A u \in Users :
    LET used == WeeklyCredits(u, now)  reset == WeeklyResetShown(u) IN
    WeeklyCap[u] > 0 /\ used < WeeklyCap[u] /\ reset # 0 =>
      \A t \in now..(now + Week + 1) : WeeklyCredits(u, t) < used <=> t > reset

\* The limits hold as far as they can when work is billed at its end, a user they
\* refuse is told when they really let go, and one who is near them when the week
\* gets lighter (app.py: _check_limits; metering.py: weekly_reset_at, usage_view).
LimitsAreHonest == OvershootIsFew /\ ResetIsRight /\ ShownIsRight
=============================================================================

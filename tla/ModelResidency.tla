--------------------------- MODULE ModelResidency ---------------------------
(***************************************************************************)
(* Which model is in VRAM, and who believes it (llamacracy/queue.py).      *)
(* llama-swap owns the truth; _loaded_model is a view of it, written by    *)
(* the worker, the idle monitor, the /running poller and the admin, each   *)
(* of them from an answer that may be old when it is applied.              *)
(*                                                                         *)
(* Time is abstract: IDLE_TTL and the backoff after a failed load run out  *)
(* at some moment, and a keepalive may be due at any tick.  The queue is   *)
(* seen from here: whether a job waits, and the job in the slot (GpuQueue  *)
(* has them all).  The slot needs no variable: the worker holds it while   *)
(* there is a job, the monitor while it touches the locked model.          *)
(***************************************************************************)
EXTENDS Naturals

CONSTANTS
  Models,            \* chat models of the inventory, at any time
  NoModel,           \* None
  Inventories,       \* what the inventory may be after a restart
  MaxRestarts,       \* bound: restarts of the service
  MaxRunningErrors   \* bound: failed requests of /running

ASSUME ResidencyAssumption ==
  /\ NoModel \notin Models
  /\ Inventories \subseteq SUBSET Models
  /\ MaxRestarts \in Nat
  /\ MaxRunningErrors \in Nat

VARIABLES
  resident,    \* llama-swap: the model in VRAM
  view,        \* _loaded_model
  locked,      \* locked_model
  saved,       \* app_settings' 'locked_model' row
  inventory,   \* the models that can be locked since the last start
  preloadNow,  \* _preload_now
  idle,        \* idle_for > IDLE_TTL
  backoff,     \* time.time() < _touch_retry_at
  monitor,     \* what the idle monitor waits for
  target,      \* the model it touches
  poll,        \* what the poller waits for
  answer,      \* /running's answer on its way to the poller
  waiting,     \* a job waits in the line
  job,         \* the model of the job in the slot
  generating,  \* that job has shown its first output
  admin,       \* what a forced unload waits for
  restarts, errors   \* the counters behind the bounds

swapVars    == <<resident>>
lockVars    == <<locked, saved, inventory, preloadNow>>
clockVars   == <<idle, backoff>>
monitorVars == <<monitor, target>>
pollVars    == <<poll, answer>>
queueVars   == <<waiting, job, generating>>
vars == <<swapVars, view, lockVars, clockVars, monitorVars, pollVars, queueVars, admin,
          restarts, errors>>

MaybeModel == Models \cup {NoModel}

Touching == {"keepalive", "preload", "loaded"}

Quiet == job = NoModel /\ ~waiting

Init ==
  /\ resident = NoModel /\ view = NoModel
  /\ locked = NoModel /\ saved = NoModel /\ inventory = Models /\ preloadNow = NoModel
  /\ idle = FALSE /\ backoff = FALSE
  /\ monitor = "asleep" /\ target = NoModel
  /\ poll = "asleep" /\ answer = NoModel
  /\ waiting = FALSE /\ job = NoModel /\ generating = FALSE
  /\ admin = "none" /\ restarts = 0 /\ errors = 0

-----------------------------------------------------------------------------
(* The queue and its worker *)

Arrive ==
  /\ ~waiting
  /\ waiting' = TRUE
  /\ UNCHANGED <<swapVars, view, lockVars, clockVars, monitorVars, pollVars, job,
                 generating, admin, restarts, errors>>

\* A Stop, a Kill or a deleted chat.
Leave ==
  /\ waiting
  /\ waiting' = FALSE
  /\ UNCHANGED <<swapVars, view, lockVars, clockVars, monitorVars, pollVars, job,
                 generating, admin, restarts, errors>>

\* Mutant of SlotFree: the worker does not wait for the slot.
SlotFree_Ignored == job = NoModel

SlotFree == job = NoModel /\ monitor \notin Touching

Take ==
  /\ waiting /\ SlotFree
  /\ job' \in Models /\ waiting' = FALSE
  /\ UNCHANGED <<swapVars, view, lockVars, clockVars, monitorVars, pollVars, generating,
                 admin, restarts, errors>>

\* llama-swap swaps the job's model in; it does so again when somebody
\* unloaded it before the answer began.
SwapIn ==
  /\ job # NoModel /\ ~generating /\ resident # job
  /\ resident' = job
  /\ UNCHANGED <<view, lockVars, clockVars, monitorVars, pollVars, queueVars, admin,
                 restarts, errors>>

\* _mark_generating
FirstOutput ==
  /\ job # NoModel /\ ~generating /\ resident = job
  /\ generating' = TRUE /\ view' = job
  /\ UNCHANGED <<swapVars, lockVars, clockVars, monitorVars, pollVars, waiting, job,
                 admin, restarts, errors>>

\* However it ends: _take's finally starts the idle clock.
JobEnds ==
  /\ job # NoModel
  /\ job' = NoModel /\ generating' = FALSE
  /\ idle' = FALSE
  /\ UNCHANGED <<swapVars, view, lockVars, backoff, monitorVars, pollVars, waiting,
                 admin, restarts, errors>>

-----------------------------------------------------------------------------
(* The idle monitor *)

\* Mutant of TouchDue: a locked model that was unloaded behind our back waits
\* for an admin to lock it again.
TouchDue_OnDemand ==
  \/ view = locked
  \/ view # locked /\ preloadNow = locked /\ ~backoff

\* _idle_tick: a keepalive (when one is due), a preload when the GPU is empty,
\* the other model had its idle time, or an admin just asked for it.
TouchDue ==
  \/ view = locked
  \/ /\ view # locked /\ ~backoff
     /\ view = NoModel \/ idle \/ preloadNow = locked

\* _idle_tick and the start of _touch_locked.  On an empty queue the slot is
\* free, so nothing can happen between the two.
TouchBegin ==
  /\ monitor = "asleep" /\ Quiet
  /\ locked # NoModel /\ TouchDue
  /\ monitor' = IF view = locked THEN "keepalive" ELSE "preload"
  /\ target' = locked
  /\ UNCHANGED <<swapVars, view, lockVars, clockVars, pollVars, queueVars, admin,
                 restarts, errors>>

\* llama-swap has the model up for a preload.
TouchLoads ==
  /\ monitor = "preload"
  /\ monitor' = "loaded" /\ resident' = target
  /\ UNCHANGED <<view, lockVars, clockVars, target, pollVars, queueVars, admin, restarts,
                 errors>>

\* A preload that went well.  The view follows only if the lock is still on
\* this model.
PreloadDone ==
  /\ monitor = "loaded"
  /\ monitor' = "asleep" /\ target' = NoModel
  /\ preloadNow' = IF preloadNow = target THEN NoModel ELSE preloadNow
  /\ view' = IF locked = target THEN target ELSE view
  /\ UNCHANGED <<swapVars, locked, saved, inventory, idle, backoff, pollVars,
                 queueVars, admin, restarts, errors>>

\* What an unfinished load may leave in VRAM.
AfterAborted == {resident, target, NoModel}

\* It failed, or hit its limit with nobody waiting: not again for a while.
PreloadFails ==
  /\ monitor = "preload"
  /\ monitor' = "asleep" /\ target' = NoModel /\ backoff' = TRUE
  /\ resident' \in AfterAborted
  /\ UNCHANGED <<view, lockVars, idle, pollVars, queueVars, admin, restarts, errors>>

\* A job arrived: the request is dropped; llama-swap may finish loading.
PreloadYields ==
  /\ monitor = "preload" /\ waiting
  /\ monitor' = "asleep" /\ target' = NoModel
  /\ resident' \in AfterAborted
  /\ UNCHANGED <<view, lockVars, clockVars, pollVars, queueVars, admin, restarts,
                 errors>>

\* A keepalive, like any request, loads a model that is not there.
KeepaliveDone ==
  /\ monitor = "keepalive"
  /\ monitor' = "asleep" /\ target' = NoModel
  /\ \/ resident' = target /\ UNCHANGED backoff
     \/ resident' \in AfterAborted /\ backoff' = TRUE
  /\ UNCHANGED <<view, lockVars, idle, pollVars, queueVars, admin, restarts,
                 errors>>

\* _idle_tick: without a lock, a model that had its idle time goes.
UnloadDue == locked = NoModel /\ view # NoModel /\ idle

\* llama-swap is asked to unload, outside the slot.
UnloadBegin ==
  /\ monitor = "asleep" /\ Quiet /\ UnloadDue
  /\ monitor' = "unload"
  /\ UNCHANGED <<swapVars, view, lockVars, clockVars, target, pollVars, queueVars, admin,
                 restarts, errors>>

Unloads ==
  /\ monitor = "unload"
  /\ monitor' = "unloaded" /\ resident' = NoModel
  /\ UNCHANGED <<view, lockVars, clockVars, target, pollVars, queueVars, admin, restarts,
                 errors>>

\* The answer is applied when it arrives, whatever happened meanwhile.
UnloadDone ==
  /\ monitor = "unloaded"
  /\ monitor' = "asleep" /\ view' = NoModel
  /\ UNCHANGED <<swapVars, lockVars, clockVars, target, pollVars, queueVars, admin,
                 restarts, errors>>

UnloadFails ==
  /\ monitor = "unload"
  /\ monitor' = "asleep"
  /\ UNCHANGED <<swapVars, view, lockVars, clockVars, target, pollVars, queueVars, admin,
                 restarts, errors>>

-----------------------------------------------------------------------------
(* The /running poller *)

PollBegin ==
  /\ poll = "asleep" /\ job = NoModel
  /\ poll' = "asked"
  /\ UNCHANGED <<swapVars, view, lockVars, clockVars, monitorVars, answer, queueVars,
                 admin, restarts, errors>>

\* llama-swap answers; a failed request counts as "nothing is loaded".
PollAnswered ==
  /\ poll = "asked"
  /\ poll' = "answered"
  /\ \/ answer' = resident /\ UNCHANGED errors
     \/ /\ errors < MaxRunningErrors
        /\ answer' = NoModel /\ errors' = errors + 1
  /\ UNCHANGED <<swapVars, view, lockVars, clockVars, monitorVars, queueVars, admin,
                 restarts>>

\* Mutants of Believed: only a model that is there is news, or the list is taken
\* for its model.
Believed_NeverNone == IF answer = NoModel THEN view ELSE answer
Believed_List == {answer}

Believed == answer

\* A job may have begun since; the answer is applied all the same.
PollDone ==
  /\ poll = "answered"
  /\ poll' = "asleep" /\ view' = Believed /\ answer' = NoModel
  /\ UNCHANGED <<swapVars, lockVars, clockVars, monitorVars, queueVars, admin, restarts,
                 errors>>

-----------------------------------------------------------------------------
(* The admin *)

\* set_locked: the row first, so a write that raises changes nothing.
SetLocked(m) ==
  /\ saved' = m /\ locked' = m
  /\ backoff' = FALSE
  /\ preloadNow' = IF view # m THEN m ELSE NoModel

Lock(m) ==
  /\ m \in inventory \cup {NoModel}
  /\ SetLocked(m)
  /\ UNCHANGED <<swapVars, view, inventory, idle, monitorVars, pollVars, queueVars,
                 admin, restarts, errors>>

\* force_unload releases the lock first, and acts at once, job or no job.
ForceUnload ==
  /\ admin = "none"
  /\ admin' = "unload"
  /\ IF locked # NoModel THEN SetLocked(NoModel)
       ELSE UNCHANGED <<locked, saved, backoff, preloadNow>>
  /\ UNCHANGED <<swapVars, view, inventory, idle, monitorVars, pollVars, queueVars,
                 restarts, errors>>

ForceUnloads ==
  /\ admin = "unload"
  /\ \/ admin' = "unloaded" /\ resident' = NoModel
     \/ admin' = "none" /\ UNCHANGED resident
  /\ UNCHANGED <<view, lockVars, clockVars, monitorVars, pollVars, queueVars, restarts,
                 errors>>

ForceUnloadDone ==
  /\ admin = "unloaded"
  /\ admin' = "none" /\ view' = NoModel
  /\ UNCHANGED <<swapVars, lockVars, clockVars, monitorVars, pollVars, queueVars,
                 restarts, errors>>

-----------------------------------------------------------------------------
(* Time, llama-swap's own ttl, and restarts *)

IdleElapses ==
  /\ ~idle /\ job = NoModel
  /\ idle' = TRUE
  /\ UNCHANGED <<swapVars, view, lockVars, backoff, monitorVars, pollVars, queueVars,
                 admin, restarts, errors>>

BackoffEnds ==
  /\ backoff /\ backoff' = FALSE
  /\ UNCHANGED <<swapVars, view, lockVars, idle, monitorVars, pollVars, queueVars,
                 admin, restarts, errors>>

\* llama-swap's backstop, or its own restart.
TtlUnload ==
  /\ resident # NoModel /\ job = NoModel /\ monitor \notin Touching
  /\ resident' = NoModel
  /\ UNCHANGED <<view, lockVars, clockVars, monitorVars, pollVars, queueVars, admin,
                 restarts, errors>>

\* start: a lock on a model that left the inventory is released.
Kept(i) == IF saved \in i THEN saved ELSE NoModel

\* The service ends, orderly or not, and starts again: with another
\* inventory, perhaps, and with what /running says or nothing.
Restart ==
  /\ restarts < MaxRestarts /\ restarts' = restarts + 1
  /\ \E i \in Inventories :
       inventory' = i /\ locked' = Kept(i) /\ saved' = Kept(i)
  /\ \/ view' = resident /\ UNCHANGED errors
     \/ errors < MaxRunningErrors /\ view' = NoModel /\ errors' = errors + 1
  /\ preloadNow' = NoModel
  /\ idle' = FALSE /\ backoff' = FALSE
  /\ monitor' = "asleep" /\ target' = NoModel
  /\ poll' = "asleep" /\ answer' = NoModel
  /\ waiting' = FALSE /\ job' = NoModel /\ generating' = FALSE
  /\ admin' = "none"
  /\ UNCHANGED swapVars

-----------------------------------------------------------------------------
WorkerStep == Take \/ SwapIn \/ FirstOutput \/ JobEnds

TouchStep ==
  TouchBegin \/ TouchLoads \/ PreloadDone \/ PreloadFails \/ PreloadYields \/ KeepaliveDone

UnloadStep == UnloadBegin \/ Unloads \/ UnloadDone \/ UnloadFails

PollStep == PollBegin \/ PollAnswered \/ PollDone

AdminStep ==
  (\E m \in MaybeModel : Lock(m)) \/ ForceUnload \/ ForceUnloads \/ ForceUnloadDone

TimeStep == IdleElapses \/ BackoffEnds

Next ==
  \/ Arrive
  \/ Leave
  \/ WorkerStep
  \/ TouchStep
  \/ UnloadStep
  \/ PollStep
  \/ AdminStep
  \/ TimeStep
  \/ TtlUnload
  \/ Restart

Spec == Init /\ [][Next]_vars

\* Time passes, the event loop runs what can run, requests get an answer or a
\* timeout; and a load or an unload that is tried again and again works.
Fairness ==
  /\ WF_vars(IdleElapses) /\ WF_vars(BackoffEnds)
  /\ WF_vars(TouchBegin) /\ WF_vars(PreloadDone) /\ WF_vars(PreloadFails)
  /\ WF_vars(KeepaliveDone) /\ SF_vars(TouchLoads)
  /\ WF_vars(UnloadBegin) /\ WF_vars(UnloadDone) /\ WF_vars(UnloadFails)
  /\ SF_vars(Unloads)
  /\ WF_vars(PollBegin) /\ WF_vars(PollAnswered) /\ WF_vars(PollDone)
  /\ WF_vars(ForceUnloads) /\ WF_vars(ForceUnloadDone)

FairSpec == Spec /\ Fairness

-----------------------------------------------------------------------------
(* Properties *)

TypeOK ==
  /\ resident \in MaybeModel /\ view \in MaybeModel
  /\ locked \in MaybeModel /\ saved \in MaybeModel /\ preloadNow \in MaybeModel
  /\ inventory \subseteq Models
  /\ idle \in BOOLEAN /\ backoff \in BOOLEAN
  /\ monitor \in Touching \cup {"asleep", "unload", "unloaded"} /\ target \in MaybeModel
  /\ poll \in {"asleep", "asked", "answered"} /\ answer \in MaybeModel
  /\ waiting \in BOOLEAN /\ job \in MaybeModel /\ generating \in BOOLEAN
  /\ admin \in {"none", "unload", "unloaded"}
  /\ restarts \in Nat /\ errors \in Nat

\* The slot keeps a touch of the locked model and a job apart: neither talks
\* to llama-swap while the other does.
TouchAlone == monitor \in Touching => job = NoModel

\* "Saved, so it outlives a restart": the row and the lock agree, and a lock
\* is on a model that the inventory still has.
LockIsValid == locked = saved /\ (locked # NoModel => locked \in inventory)

\* The lock is in force where it should be: on a model that is there, and with the
\* slot between its touches and the jobs.  (set_locked, start, _touch_locked)
LockDiscipline == TouchAlone /\ LockIsValid

\* The view converges: once llama-swap's state and the queue stay put, so
\* does what the queue shows, whatever stale answers were still on their way.
ViewConverges ==
  \A r \in MaybeModel : <>[](resident = r /\ job = NoModel) => <>[](view = r)

\* "This model stays in VRAM": on a queue that stays empty, a locked model is
\* loaded, and again whenever llama-swap lost it.
LockTakesHold ==
  \A m \in Models : <>[](locked = m /\ Quiet) => []<>(resident = m)

\* Without a lock, an idle GPU is freed for good.
IdleFreesGpu == <>[](locked = NoModel /\ Quiet) => <>[](resident = NoModel)

\* A box left alone comes to what its admin asked for: the locked model in VRAM,
\* or nothing.  (_idle_tick)
IdleBoxSettles == LockTakesHold /\ IdleFreesGpu
=============================================================================

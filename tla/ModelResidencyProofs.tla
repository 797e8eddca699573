------------------------ MODULE ModelResidencyProofs ------------------------
(***************************************************************************)
(* Proofs about ModelResidency, for any set of models and any number of    *)
(* restarts: the slot keeps touches and jobs apart, and the lock is the    *)
(* row's and on a model of the inventory.                                  *)
(***************************************************************************)
EXTENDS ModelResidency, TLAPS

USE DEF swapVars, lockVars, clockVars, monitorVars, pollVars, queueVars

\* The types, the slot and the lock need each other: an answer is a model
\* because what it repeats is one, and a touched model is one because the
\* lock was.
Sound == TypeOK /\ TouchAlone /\ LockIsValid

LEMMA SomeModel == NoModel \in MaybeModel /\ \A m \in Models : m \in MaybeModel
  BY DEF MaybeModel

LEMMA InitSound == Init => Sound
<1> SUFFICES ASSUME Init PROVE Sound
  OBVIOUS
<1>1. /\ resident \in MaybeModel /\ view \in MaybeModel /\ target \in MaybeModel
      /\ answer \in MaybeModel /\ job \in MaybeModel
  BY SomeModel DEF Init
<1>2. locked \in MaybeModel /\ saved \in MaybeModel /\ preloadNow \in MaybeModel
  BY SomeModel DEF Init
<1>3. TypeOK
  BY <1>1, <1>2 DEF Init, TypeOK
<1>4. TouchAlone /\ LockIsValid
  BY DEF Init, TouchAlone, LockIsValid
<1> QED
  BY <1>3, <1>4 DEF Sound

\* The worker and the line: only Take puts a job in the slot, and the slot is
\* free of touches then.
LEMMA WorkerSound == Sound /\ (Arrive \/ Leave \/ WorkerStep) => Sound'
<1>1. ASSUME Sound, Arrive PROVE Sound'
  BY <1>1, SomeModel DEF Arrive, Sound, TypeOK, TouchAlone, LockIsValid
<1>2. ASSUME Sound, Leave PROVE Sound'
  BY <1>2, SomeModel DEF Leave, Sound, TypeOK, TouchAlone, LockIsValid
<1>3. ASSUME Sound, Take PROVE Sound'
  BY <1>3, SomeModel DEF Take, SlotFree, Sound, TypeOK, TouchAlone, LockIsValid
<1>4. ASSUME Sound, SwapIn PROVE Sound'
  BY <1>4, SomeModel DEF SwapIn, Sound, TypeOK, TouchAlone, LockIsValid
<1>5. ASSUME Sound, FirstOutput PROVE Sound'
  BY <1>5, SomeModel DEF FirstOutput, Sound, TypeOK, TouchAlone, LockIsValid
<1>6. ASSUME Sound, JobEnds PROVE Sound'
  BY <1>6, SomeModel DEF JobEnds, Sound, TypeOK, TouchAlone, LockIsValid
<1> QED
  BY <1>1, <1>2, <1>3, <1>4, <1>5, <1>6 DEF WorkerStep

\* The monitor: a touch begins on an empty queue only.
LEMMA MonitorSound == Sound /\ (TouchStep \/ UnloadStep) => Sound'
<1>1. ASSUME Sound, TouchBegin PROVE Sound'
  BY <1>1, SomeModel DEF TouchBegin, Quiet, Touching, Sound, TypeOK, TouchAlone, LockIsValid
<1>2. ASSUME Sound, TouchLoads PROVE Sound'
  BY <1>2, SomeModel DEF TouchLoads, Touching, Sound, TypeOK, TouchAlone, LockIsValid
<1>3. ASSUME Sound, PreloadDone PROVE Sound'
  BY <1>3, SomeModel DEF PreloadDone, Touching, Sound, TypeOK, TouchAlone, LockIsValid
<1>4. ASSUME Sound, PreloadFails PROVE Sound'
  BY <1>4, SomeModel DEF PreloadFails, AfterAborted, Touching, Sound, TypeOK, TouchAlone, LockIsValid
<1>5. ASSUME Sound, PreloadYields PROVE Sound'
  BY <1>5, SomeModel DEF PreloadYields, AfterAborted, Touching, Sound, TypeOK, TouchAlone, LockIsValid
<1>6. ASSUME Sound, KeepaliveDone PROVE Sound'
  BY <1>6, SomeModel DEF KeepaliveDone, AfterAborted, Touching, Sound, TypeOK, TouchAlone, LockIsValid
<1>7. ASSUME Sound, UnloadBegin PROVE Sound'
  BY <1>7, SomeModel DEF UnloadBegin, Touching, Sound, TypeOK, TouchAlone, LockIsValid
<1>8. ASSUME Sound, Unloads PROVE Sound'
  BY <1>8, SomeModel DEF Unloads, Touching, Sound, TypeOK, TouchAlone, LockIsValid
<1>9. ASSUME Sound, UnloadDone PROVE Sound'
  BY <1>9, SomeModel DEF UnloadDone, Touching, Sound, TypeOK, TouchAlone, LockIsValid
<1>10. ASSUME Sound, UnloadFails PROVE Sound'
  BY <1>10, SomeModel DEF UnloadFails, Touching, Sound, TypeOK, TouchAlone, LockIsValid
<1> QED
  BY <1>1, <1>2, <1>3, <1>4, <1>5, <1>6, <1>7, <1>8, <1>9, <1>10 DEF TouchStep, UnloadStep

\* The poller, the clocks and llama-swap touch neither the slot nor the lock.
LEMMA OthersSound == Sound /\ (PollStep \/ TimeStep \/ TtlUnload) => Sound'
<1>1. ASSUME Sound, PollStep PROVE Sound'
  <2>1. CASE PollBegin
    BY <1>1, <2>1 DEF PollBegin, Sound, TypeOK, TouchAlone, LockIsValid
  <2>2. CASE PollAnswered
    <3>1. answer' \in MaybeModel /\ errors' \in Nat
      BY <1>1, <2>2, SomeModel DEF PollAnswered, Sound, TypeOK
    <3>2. TypeOK'
      BY <1>1, <2>2, <3>1 DEF PollAnswered, Sound, TypeOK
    <3> QED
      BY <1>1, <2>2, <3>2 DEF PollAnswered, Sound, TouchAlone, LockIsValid
  <2>3. CASE PollDone
    BY <1>1, <2>3, SomeModel DEF PollDone, Believed, Sound, TypeOK, TouchAlone, LockIsValid
  <2> QED
    BY <1>1, <2>1, <2>2, <2>3 DEF PollStep
<1>2. ASSUME Sound, IdleElapses PROVE Sound'
  BY <1>2, SomeModel DEF IdleElapses, Sound, TypeOK, TouchAlone, LockIsValid
<1>3. ASSUME Sound, BackoffEnds PROVE Sound'
  BY <1>3, SomeModel DEF BackoffEnds, Sound, TypeOK, TouchAlone, LockIsValid
<1>4. ASSUME Sound, TtlUnload PROVE Sound'
  BY <1>4, SomeModel DEF TtlUnload, Sound, TypeOK, TouchAlone, LockIsValid
<1> QED
  BY <1>1, <1>2, <1>3, <1>4 DEF TimeStep

\* The admin writes the row and the lock together, for a model of the
\* inventory or for none.
LEMMA AdminSound == Sound /\ AdminStep => Sound'
<1>1. ASSUME Sound, NEW m \in MaybeModel, Lock(m) PROVE Sound'
  <2>1. m \in inventory \cup {NoModel} /\ locked' = m /\ saved' = m /\ inventory' = inventory
    BY <1>1 DEF Lock, SetLocked
  <2>2. LockIsValid'
    BY <2>1 DEF LockIsValid
  <2>3. preloadNow' \in MaybeModel /\ backoff' \in BOOLEAN
    BY <1>1, SomeModel DEF Lock, SetLocked
  <2>4. TypeOK' /\ TouchAlone'
    BY <1>1, <2>1, <2>3 DEF Lock, Sound, TypeOK, TouchAlone
  <2> QED
    BY <2>2, <2>4 DEF Sound
<1>2. ASSUME Sound, ForceUnload PROVE Sound'
  <2>1. CASE locked = NoModel
    BY <1>2, <2>1, SomeModel DEF ForceUnload, Sound, TypeOK, TouchAlone, LockIsValid
  <2>2. CASE locked # NoModel
    BY <1>2, <2>2, SomeModel DEF ForceUnload, SetLocked, Sound, TypeOK, TouchAlone, LockIsValid
  <2> QED
    BY <2>1, <2>2
<1>3. ASSUME Sound, ForceUnloads PROVE Sound'
  BY <1>3, SomeModel DEF ForceUnloads, Sound, TypeOK, TouchAlone, LockIsValid
<1>4. ASSUME Sound, ForceUnloadDone PROVE Sound'
  BY <1>4, SomeModel DEF ForceUnloadDone, Sound, TypeOK, TouchAlone, LockIsValid
<1> QED
  BY <1>1, <1>2, <1>3, <1>4 DEF AdminStep

\* A restart keeps a lock only on a model it finds in the inventory.
LEMMA RestartSound == Sound /\ Restart => Sound'
<1> SUFFICES ASSUME Sound, Restart PROVE Sound'
  OBVIOUS
<1>1. PICK i \in Inventories : inventory' = i /\ locked' = Kept(i) /\ saved' = Kept(i)
  BY DEF Restart
<1>2. i \subseteq Models
  BY ResidencyAssumption
<1>3. LockIsValid' /\ locked' \in MaybeModel /\ saved' \in MaybeModel /\ inventory' \subseteq Models
  BY <1>1, <1>2, SomeModel DEF Kept, LockIsValid, MaybeModel
<1>4. TouchAlone'
  BY DEF Restart, TouchAlone
<1>5. view' \in MaybeModel /\ errors' \in Nat /\ restarts' \in Nat
  BY SomeModel DEF Restart, Sound, TypeOK
<1>6. TypeOK'
  BY <1>3, <1>5, SomeModel DEF Restart, Sound, TypeOK
<1> QED
  BY <1>3, <1>4, <1>6 DEF Sound

LEMMA StepSound == Sound /\ [Next]_vars => Sound'
<1>1. CASE UNCHANGED vars
  BY <1>1, SomeModel DEF vars, Sound, TypeOK, TouchAlone, LockIsValid
<1> QED
  BY <1>1, WorkerSound, MonitorSound, OthersSound, AdminSound, RestartSound DEF Next

THEOREM AlwaysSound == Spec => []Sound
  BY InitSound, StepSound, PTL DEF Spec

\* What every part believes is resident is a model of the inventory's or none.
THEOREM ResidencyTyped == Spec => []TypeOK
<1>1. Sound => TypeOK
  BY DEF Sound
<1> QED
  BY <1>1, AlwaysSound, PTL

\* A preload or a keepalive and a job never talk to llama-swap at once.
THEOREM TouchAndJobTakeTurns == Spec => []TouchAlone
<1>1. Sound => TouchAlone
  BY DEF Sound
<1> QED
  BY <1>1, AlwaysSound, PTL

\* The lock in force is the one that a restart will find, on a model that
\* can be loaded.
THEOREM LockStaysValid == Spec => []LockIsValid
<1>1. Sound => LockIsValid
  BY DEF Sound
<1> QED
  BY <1>1, AlwaysSound, PTL

\* The lock is valid, and its touches take turns with the jobs.
THEOREM LockIsDisciplined == Spec => []LockDiscipline
  BY TouchAndJobTakeTurns, LockStaysValid, PTL DEF LockDiscipline
=============================================================================

------------------------------ MODULE FifoLine ------------------------------
(***************************************************************************)
(* What the queue promises its users, without any of its machinery:        *)
(*   "Strict global FIFO. Exactly one inference runs at a time. [...] No   *)
(*    parallelism, no reordering, no priority, no coalescing."             *)
(* A job joins the end of one line, is served when it is at the head and   *)
(* nobody else is being served, or leaves the line before that.  Only an   *)
(* outage of the service empties the line otherwise.  GpuQueue implements  *)
(* this.                                                                   *)
(***************************************************************************)
EXTENDS Naturals, Sequences

CONSTANTS Jobs, NoJob

VARIABLES
  line,      \* the jobs waiting, in order of arrival
  serving,   \* the job being served, or NoJob
  gone       \* jobs that were served, left, or were lost in an outage

fifoVars == <<line, serving, gone>>

Waiting == {line[i] : i \in 1..Len(line)}

Init == line = <<>> /\ serving = NoJob /\ gone = {}

Join(j) ==
  /\ j \notin Waiting \cup {serving} \cup gone
  /\ line' = Append(line, j)
  /\ UNCHANGED <<serving, gone>>

Serve ==
  /\ serving = NoJob /\ line # <<>>
  /\ serving' = Head(line) /\ line' = Tail(line)
  /\ UNCHANGED gone

Finish ==
  /\ serving # NoJob
  /\ serving' = NoJob /\ gone' = gone \cup {serving}
  /\ UNCHANGED line

\* The others keep their order.
Leave(i) ==
  /\ line' = [k \in 1..(Len(line) - 1) |-> IF k < i THEN line[k] ELSE line[k + 1]]
  /\ gone' = gone \cup {line[i]}
  /\ UNCHANGED serving

Outage ==
  /\ line' = <<>> /\ serving' = NoJob
  /\ gone' = gone \cup Waiting \cup ({serving} \ {NoJob})

Next ==
  \/ \E j \in Jobs : Join(j)
  \/ Serve
  \/ Finish
  \/ \E i \in 1..Len(line) : Leave(i)
  \/ Outage

Safety == Init /\ [][Next]_fifoVars

\* Whoever is at the head is served, and whoever is served is done some day.
Progress == WF_fifoVars(Serve) /\ WF_fifoVars(Finish)
=============================================================================

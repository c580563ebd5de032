----------------------------- MODULE WorkQueue -----------------------------
(***************************************************************************)
(* What the transactional outbox promises the rest of the system, with     *)
(* leases, retries and workers left out.  A job is written once, its       *)
(* handler runs at least once before the job is done, a job that is done   *)
(* is never taken up again, and a job that was given up comes back only    *)
(* because a person replays it.                                            *)
(*                                                                         *)
(* Source: src/src/lib/intake/outbox.ts, src/src/inngest/functions.ts.     *)
(***************************************************************************)
CONSTANT Job

VARIABLES
  status,   \* status[j]: "absent", "open", "done" or "dead"
  ran       \* the jobs whose handler has returned normally at least once

vars == <<status, ran>>

Init ==
  /\ status = [j \in Job |-> "absent"]
  /\ ran = {}

\* The business transaction that writes the fact also writes the job.
Enqueue(j) ==
  /\ status[j] = "absent"
  /\ status' = [status EXCEPT ![j] = "open"]
  /\ UNCHANGED ran

\* A handler returns.  It may be a repeat, and it may come from a worker whose
\* hold on the job has passed to another, so the job need not be open.
Run(j) ==
  /\ status[j] # "absent"
  /\ ran' = ran \cup {j}
  /\ UNCHANGED status

Finish(j) ==
  /\ status[j] = "open"
  /\ j \in ran
  /\ status' = [status EXCEPT ![j] = "done"]
  /\ UNCHANGED ran

GiveUp(j) ==
  /\ status[j] = "open"
  /\ status' = [status EXCEPT ![j] = "dead"]
  /\ UNCHANGED ran

\* Staff replay a dead job; nothing else reopens one.
Replay(j) ==
  /\ status[j] = "dead"
  /\ status' = [status EXCEPT ![j] = "open"]
  /\ UNCHANGED ran

Next ==
  \E j \in Job : Enqueue(j) \/ Run(j) \/ Finish(j) \/ GiveUp(j) \/ Replay(j)

Spec == Init /\ [][Next]_vars
============================================================================

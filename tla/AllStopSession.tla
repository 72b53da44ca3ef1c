---------------------------- MODULE AllStopSession ----------------------------
(***************************************************************************)
(* What all-stop control of a multi-threaded process promises, with no     *)
(* word of signals, wait4 or flags: a command first steps threads past the *)
(* breakpoint site, one at a time and with everything else at rest; then   *)
(* threads run, and none leaves the site it runs into; then one thread is  *)
(* the reason to stop, nothing is set going any more, and the prompt comes *)
(* back when nothing moves.                                                *)
(***************************************************************************)
CONSTANT Thread

VARIABLES
  state,   \* "prompt", "stepping", "running" or "stopping"
  moving,  \* the threads that may execute instructions
  onSite,  \* the threads whose next instruction is under the breakpoint
  focus    \* the thread commands are about

vars == <<state, moving, onSite, focus>>

Init ==
  /\ state = "prompt" /\ moving = {}
  /\ onSite \in SUBSET Thread /\ focus \in Thread

(* The commands of the user.                                               *)
Select(t) ==
  /\ state = "prompt"
  /\ focus' = t
  /\ UNCHANGED <<state, moving, onSite>>

Go ==
  /\ state = "prompt"
  /\ state' = "stepping"
  /\ UNCHANGED <<moving, onSite, focus>>

(* One thread is let go, stops again, or is past the site.                 *)
StepOver(t) ==
  /\ state = "stepping"
  /\ moving \subseteq {t} /\ moving' \in SUBSET {t}
  /\ onSite' \in {onSite, onSite \ {t}}
  /\ UNCHANGED <<state, focus>>

Release ==
  /\ state = "stepping" /\ moving = {}
  /\ state' = "running"
  /\ UNCHANGED <<moving, onSite, focus>>

(* Who is on the site stays there; who gets there was moving.              *)
Arrivals ==
  /\ onSite \subseteq onSite'
  /\ onSite' \subseteq onSite \cup moving

Run ==
  /\ state = "running"
  /\ moving' \in SUBSET Thread
  /\ Arrivals
  /\ UNCHANGED <<state, focus>>

Stop(t) ==
  /\ state = "running"
  /\ t \notin moving
  /\ state' = "stopping" /\ focus' = t
  /\ UNCHANGED <<moving, onSite>>

Calm ==
  /\ state = "stopping"
  /\ moving' \in SUBSET moving
  /\ Arrivals
  /\ UNCHANGED <<state, focus>>

Report ==
  /\ state = "stopping" /\ moving = {}
  /\ state' = "prompt"
  /\ UNCHANGED <<moving, onSite, focus>>

Next ==
  \/ \E t \in Thread : Select(t) \/ StepOver(t) \/ Stop(t)
  \/ Go \/ Release \/ Run \/ Calm \/ Report

Spec == Init /\ [][Next]_vars
=============================================================================

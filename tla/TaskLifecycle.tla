---------------------------- MODULE TaskLifecycle ----------------------------
(***************************************************************************)
(* What the task manager promises, without queues, counters or interrupts: *)
(* one processor, handed from task to task; a task that died stays dead    *)
(* until the reaper, while it has the processor, gives its number back;    *)
(* and the reaper itself neither dies nor blocks.                          *)
(***************************************************************************)
CONSTANTS Tasks, Reaper

VARIABLE state    \* [Tasks -> States]

States == {"absent", "ready", "running", "blocked", "dead"}

Init == state = [t \in Tasks |-> IF t = Reaper THEN "running" ELSE "absent"]

\* The running task makes a new one.
Create(t) ==
    /\ state[t] = "absent"
    /\ state' = [state EXCEPT ![t] = "ready"]

\* The processor goes from one task to a ready one; the first is ready again,
\* blocked, or dead.
Switch(from, to) ==
    /\ state[from] = "running"
    /\ state[to] = "ready"
    /\ \E left \in (IF from = Reaper THEN {"ready"} ELSE {"ready", "blocked", "dead"}) :
          state' = [state EXCEPT ![from] = left, ![to] = "running"]

\* A blocked task may run again.
Wake(t) ==
    /\ state[t] = "blocked"
    /\ state' = [state EXCEPT ![t] = "ready"]

\* A task that does not run is killed.
Kill(t) ==
    /\ t # Reaper
    /\ state[t] \in {"ready", "blocked"}
    /\ state' = [state EXCEPT ![t] = "dead"]

\* The reaper gives the number of a dead task back.
Reap(t) ==
    /\ state[Reaper] = "running"
    /\ state[t] = "dead"
    /\ state' = [state EXCEPT ![t] = "absent"]

Next ==
    \/ \E t \in Tasks : Create(t) \/ Wake(t) \/ Kill(t) \/ Reap(t)
    \/ \E from, to \in Tasks : Switch(from, to)

Spec == Init /\ [][Next]_state
=============================================================================

----------------------------- MODULE VirtualClock -----------------------------
(***************************************************************************)
(* The clock of the virtual simulator (simulator/virtual, clock.rs). Tasks *)
(* sleep until the test moves the clock; advance and set_time wake those   *)
(* whose time has come, and a woken task looks at the clock again before   *)
(* it goes on. Waking and looking are two steps, between which the test    *)
(* may move the clock once more.                                           *)
(***************************************************************************)
EXTENDS Integers, FiniteSets

CONSTANTS
    Sleeper,        \* tasks
    Span,           \* durations slept or advanced
    MaxVirtual,     \* bound: virtual time
    MaxMoves        \* bound: calls that move the clock

ASSUME ClockAssumption == Span \subseteq Nat /\ MaxVirtual \in Nat /\ MaxMoves \in Nat

VARIABLES
    virtual_time,
    task,        \* per task: how it waits and until when
    rewound,     \* set_time has moved the clock back
    moves

clockVars == <<virtual_time, task, rewound, moves>>

Awake == [how |-> "awake", wake |-> 0]

ClockInit ==
    virtual_time = 0 /\ task = [t \in Sleeper |-> Awake] /\ rewound = FALSE /\ moves = 0

\* sleep always queues, even when there is nothing to wait for.
clock_sleep(t, d) ==
    /\ task[t] = Awake
    /\ task' = [task EXCEPT ![t] = [how |-> "sleeping", wake |-> virtual_time + d]]
    /\ UNCHANGED <<virtual_time, rewound, moves>>

\* A tick of an interval whose time has come returns at once; due is its next_tick.
interval_tick(t, due) ==
    /\ task[t] = Awake
    /\ task' = [task EXCEPT ![t] = IF virtual_time >= due THEN Awake
                                   ELSE [how |-> "ticking", wake |-> due]]
    /\ UNCHANGED <<virtual_time, rewound, moves>>

BugWaked(now) ==
    [t \in Sleeper |-> CASE task[t].how = "sleeping" /\ task[t].wake <= now + 1 -> [task[t] EXCEPT !.how = "woken"]
                         [] task[t].how = "ticking" /\ task[t].wake <= now + 1 -> Awake
                         [] OTHER -> task[t]]
Waked(now) ==
    [t \in Sleeper |-> CASE task[t].how = "sleeping" /\ task[t].wake <= now -> [task[t] EXCEPT !.how = "woken"]
                         [] task[t].how = "ticking" /\ task[t].wake <= now -> Awake
                         [] OTHER -> task[t]]

clock_advance(d) ==
    /\ moves < MaxMoves /\ virtual_time + d <= MaxVirtual
    /\ virtual_time' = virtual_time + d
    /\ task' = Waked(virtual_time')
    /\ moves' = moves + 1
    /\ UNCHANGED rewound

set_time(now) ==
    /\ moves < MaxMoves
    /\ virtual_time' = now
    /\ task' = Waked(now)
    /\ rewound' = (rewound \/ now < virtual_time)
    /\ moves' = moves + 1

\* After 30 seconds of real time the wait is given up as if woken.
GiveUp(t) ==
    /\ task[t].how \in {"sleeping", "ticking"}
    /\ task' = [task EXCEPT ![t] = IF @.how = "ticking" THEN Awake ELSE [@ EXCEPT !.how = "given up"]]
    /\ UNCHANGED <<virtual_time, rewound, moves>>

Resume(t) ==
    /\ task[t].how \in {"woken", "given up"}
    /\ task' = [task EXCEPT ![t] = IF virtual_time < @.wake
                                   THEN [@ EXCEPT !.how = IF task[t].how = "woken" THEN "panicked"
                                                          ELSE "timed out"]
                                   ELSE Awake]
    /\ UNCHANGED <<virtual_time, rewound, moves>>

ClockNext ==
    \/ \E t \in Sleeper, d \in Span : clock_sleep(t, d)
    \/ \E t \in Sleeper, due \in 0..MaxVirtual : interval_tick(t, due)
    \/ \E d \in Span : clock_advance(d)
    \/ \E now \in 0..MaxVirtual : set_time(now)
    \/ \E t \in Sleeper : GiveUp(t) \/ Resume(t)

ClockSpec == ClockInit /\ [][ClockNext]_clockVars

-----------------------------------------------------------------------------
(* A sleeper that the clock has woken goes on; it panics only when set_time *)
(* took the clock back before it could look (clock.rs, sleep, after the     *)
(* await).                                                                  *)
WokenGoesOn == \A t \in Sleeper : task[t].how = "panicked" => rewound
===============================================================================

------------------------------ MODULE MessageLog ------------------------------
(***************************************************************************)
(* What a message store promises: a bounded set of messages. A message is  *)
(* taken in whole or not at all, and one that is kept is never altered.    *)
(* Old messages may go, but only to make room for the one that comes in.   *)
(***************************************************************************)
EXTENDS Naturals, FiniteSets

CONSTANTS
    LogMessage,       \* everything that may be stored
    Room(_),          \* whether a set of messages is within all limits
    Expired(_, _)     \* whether a message is old at a time

VARIABLES log, time

LogInit == log = {} /\ time = 0

\* The message is kept; old ones may have gone, and room is kept.
Keep ==
    \E msg \in LogMessage \ log, gone \in SUBSET {old \in log : Expired(old, time)} :
        /\ log' = (log \ gone) \cup {msg}
        /\ Room(log')
        /\ time' = time

\* A message may be refused after old ones have gone.
Refuse ==
    \E gone \in SUBSET {old \in log : Expired(old, time)} :
        log' = log \ gone /\ time' = time

LogTick == time' = time + 1 /\ log' = log

LogSpec == LogInit /\ [][Keep \/ Refuse \/ LogTick]_<<log, time>>
=============================================================================

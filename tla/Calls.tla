------------------------------- MODULE Calls --------------------------------
(***************************************************************************)
(* Calls of the API in progress.  A handler is a sequence of steps that    *)
(* end at its awaits; handlers of any processes interleave between them.   *)
(* A record per thread holds the label of the next step and what the       *)
(* handler has read so far.                                                *)
(***************************************************************************)
EXTENDS Naturals

CONSTANTS
  Players,
  Nobody,       \* null where a player may be
  Threads,      \* calls in progress at a time
  Faults        \* "lost": a post may succeed and its answer be lost;
                \* "crash": a process may die between two steps

ASSUME CallsAssumption == Nobody \notin Players /\ Faults \subseteq {"lost", "crash"}

VARIABLE call

Idle == [at |-> "idle"]

InitCalls == call = [t \in Threads |-> Idle]

Begin(t, c) == call[t] = Idle /\ call' = [call EXCEPT ![t] = c]
At(t, label) == call[t].at = label
Goto(t, label) == call' = [call EXCEPT ![t].at = label]
End(t) == call' = [call EXCEPT ![t] = Idle]
=============================================================================

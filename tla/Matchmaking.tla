----------------------------- MODULE Matchmaking ----------------------------
(***************************************************************************)
(* One matchmaking queue, the workers of the API's replicas that form      *)
(* lobbies from it, and the tickets that players poll for:                 *)
(* MatchmakingWorker and MatchmakingService (apps/api/src/matchmaking) over *)
(* Redis.  A worker scans while it holds a lock that nobody releases: it   *)
(* expires, also when the scan has not ended yet.                          *)
(***************************************************************************)
EXTENDS Collections, FiniteSets

CONSTANTS
  Queuers,      \* the players
  Workers,
  LobbySize,    \* 4 in the code
  MaxEnqueues,  \* bound on the enqueues of all players
  MaxFailures   \* bound on the scans that fail

ASSUME MatchmakingAssumption ==
  LobbySize \in Nat \ {0} /\ MaxEnqueues \in Nat /\ MaxFailures \in Nat

VARIABLES
  queue,        \* the sorted set: [who, waited], waited: for BOT_BACKFILL_AFTER_MS
  locked,       \* the key lock:mm-scan exists
  worker,       \* per worker, its place in tryForm and what it has selected
  formed,       \* number of rooms that have a name, which is the id of the last one
  lobby,        \* race rows, by the room they are for: [who, bots]
  ticket,       \* per player, the room in the key mm:ticket:<player>, or 0
  polled,       \* per player, what a pollTicket has read and not deleted yet, or 0
  seats,        \* ghost: tickets each player was given
  enqueues,     \* ghost: enqueues of each player
  owed,         \* ghost: who waits for a ticket, and nothing has failed him
  overran,      \* ghost: the lock expired while its holder was scanning
  failures      \* ghost: scans that failed

queueVars == <<queue, locked, formed, lobby>>
ticketVars == <<ticket, polled>>
ghostVars == <<seats, enqueues, owed, overran, failures>>
matchVars == <<queueVars, worker, ticketVars, ghostVars>>

Resting == [at |-> "rest", todo |-> {}, bots |-> 0, room |-> 0]
Stopped == [Resting EXCEPT !.at = "stopped"]

InitMatchmaking ==
  /\ queue = <<>> /\ locked = FALSE /\ formed = 0 /\ lobby = <<>>
  /\ worker \in [Workers -> {Resting, Stopped}]
  /\ ticket = [p \in Queuers |-> 0] /\ polled = [p \in Queuers |-> 0]
  /\ seats = [p \in Queuers |-> 0] /\ enqueues = [p \in Queuers |-> 0]
  /\ owed = {} /\ overran = FALSE /\ failures = 0

Queued == {queue[i].who : i \in DOMAIN queue}

-----------------------------------------------------------------------------
(* The players' calls, and the time that passes.                           *)

\* zadd with the current time: a player who is queued already goes to the end.
Enqueue(p) ==
  /\ MapThenSumSet(LAMBDA q : enqueues[q], Queuers) < MaxEnqueues
  /\ queue' = Append(Without(queue, {p}), [who |-> p, waited |-> FALSE])
  /\ enqueues' = [enqueues EXCEPT ![p] = @ + 1]
  /\ owed' = owed \cup {p}
  /\ UNCHANGED <<locked, formed, lobby, worker, ticketVars, seats, overran, failures>>

Dequeue(p) ==
  /\ p \in Queued
  /\ queue' = Without(queue, {p})
  /\ owed' = owed \ {p}
  /\ UNCHANGED <<locked, formed, lobby, worker, ticketVars, seats, enqueues, overran, failures>>

PollRead(p) ==
  /\ ticket[p] # 0 /\ polled[p] = 0
  /\ polled' = [polled EXCEPT ![p] = ticket[p]]
  /\ UNCHANGED <<queueVars, worker, ticket, ghostVars>>

\* Whatever the key holds by then is deleted; the player has the ticket that was read.
PollDelete(p) ==
  /\ polled[p] # 0
  /\ ticket' = [ticket EXCEPT ![p] = 0]
  /\ polled' = [polled EXCEPT ![p] = 0]
  /\ owed' = owed \ {p}
  /\ UNCHANGED <<queueVars, worker, seats, enqueues, overran, failures>>

\* A ticket that nobody polls is gone after 90 seconds.
TicketExpires(p) ==
  /\ ticket[p] # 0
  /\ ticket' = [ticket EXCEPT ![p] = 0]
  /\ owed' = owed \ {p}
  /\ UNCHANGED <<queueVars, worker, polled, seats, enqueues, overran, failures>>

\* BOT_BACKFILL_AFTER_MS have passed since the entry; older ones have waited too.
Wait == \E i \in DOMAIN queue :
  /\ ~queue[i].waited /\ \A j \in 1..(i - 1) : queue[j].waited
  /\ queue' = [queue EXCEPT ![i].waited = TRUE]
  /\ UNCHANGED <<locked, formed, lobby, worker, ticketVars, ghostVars>>

-----------------------------------------------------------------------------
(* A worker's tick.                                                        *)

Lockable == ~locked

TryLock(w) ==
  /\ worker[w].at = "rest"
  /\ Lockable
  /\ locked' = TRUE
  /\ worker' = [worker EXCEPT ![w].at = "read"]
  /\ UNCHANGED <<queue, formed, lobby, ticketVars, ghostVars>>

LockExpires ==
  /\ locked
  /\ locked' = FALSE
  /\ overran' = (overran \/ \E w \in Workers : worker[w].at \notin {"rest", "stopped"})
  /\ UNCHANGED <<queue, formed, lobby, worker, ticketVars, seats, enqueues, owed, failures>>

\* Mutant of CanBackfill: one player is not enough.
CanBackfillTogether == Len(queue) > 1 /\ queue[1].waited

CanBackfill == Len(queue) >= 1 /\ queue[1].waited

CanFill == Len(queue) >= LobbySize

Selected == {queue[i].who : i \in {j \in DOMAIN queue : j <= LobbySize}}

BotsNeeded == IF CanFill THEN 0 ELSE LobbySize - Cardinality(Selected)

\* zrange, the decision on it, and the name of the room.
Scan(w) ==
  /\ worker[w].at = "read"
  /\ IF CanFill \/ CanBackfill
     THEN /\ formed' = formed + 1
          /\ worker' = [worker EXCEPT ![w] =
               [at |-> "zrem", todo |-> Selected, room |-> formed + 1, bots |-> BotsNeeded]]
     ELSE worker' = [worker EXCEPT ![w] = Resting] /\ UNCHANGED formed
  /\ UNCHANGED <<queue, locked, lobby, ticketVars, ghostVars>>

\* Mutant of Taken: the whole key is deleted.
TakenAll(w) == <<>>

\* The queue without the selected, whatever has become of them and it.
Taken(w) == Without(queue, worker[w].todo)

AfterTaken == "create"

Take(w) ==
  /\ worker[w].at = "zrem"
  /\ queue' = Taken(w)
  /\ worker' = [worker EXCEPT ![w].at = AfterTaken]
  /\ UNCHANGED <<locked, formed, lobby, ticketVars, ghostVars>>

\* The cars of the selected, the race row with its participants, and the pools.
CreateRace(w) == LET r == worker[w] IN
  /\ r.at = "create"
  /\ lobby' = [i \in DOMAIN lobby \cup {r.room} |->
                 IF i = r.room THEN [who |-> r.todo, bots |-> r.bots] ELSE lobby[i]]
  /\ worker' = [worker EXCEPT ![w].at = "tickets"]
  /\ UNCHANGED <<queue, locked, formed, ticketVars, ghostVars>>

\* issueTicket: a signed ticket, of which the room it is for matters here.
Issued(w) == worker[w].room

\* setex and publish for one of the selected; the last one ends the scan.
IssueTicket(w, p) == LET rest == worker[w].todo \ {p} IN
  /\ worker[w].at = "tickets"
  /\ p \in worker[w].todo
  /\ ticket' = [ticket EXCEPT ![p] = Issued(w)]
  /\ seats' = [seats EXCEPT ![p] = @ + 1]
  /\ worker' = [worker EXCEPT ![w] = IF rest = {} THEN Resting ELSE [@ EXCEPT !.todo = rest]]
  /\ UNCHANGED <<queueVars, polled, enqueues, owed, overran, failures>>

\* A call throws, or the process dies: who was taken from the queue and has no
\* ticket yet never gets one.
Fail(w) ==
  /\ worker[w].at \notin {"rest", "stopped"}
  /\ failures < MaxFailures
  /\ failures' = failures + 1
  /\ owed' = owed \ (worker[w].todo \ (IF worker[w].at = "zrem" THEN Queued ELSE {}))
  /\ worker' = [worker EXCEPT ![w] = Resting]
  /\ UNCHANGED <<queueVars, ticketVars, seats, enqueues, overran>>

Work(w) == TryLock(w) \/ Scan(w) \/ Take(w) \/ CreateRace(w) \/ \E p \in Queuers : IssueTicket(w, p)

NextMatchmaking ==
  \/ \E p \in Queuers :
       Enqueue(p) \/ Dequeue(p) \/ PollRead(p) \/ PollDelete(p) \/ TicketExpires(p)
  \/ Wait \/ LockExpires
  \/ \E w \in Workers : Work(w) \/ Fail(w)

\* Time passes, and the worker of every replica goes on ticking.
FairMatchmaking ==
  /\ WF_matchVars(Wait) /\ WF_matchVars(LockExpires)
  /\ \A w \in Workers : WF_matchVars(Work(w))

SpecMatchmaking == InitMatchmaking /\ [][NextMatchmaking]_matchVars /\ FairMatchmaking

-----------------------------------------------------------------------------
(* Properties.                                                             *)

\* Every variable has its type; a player is queued once, and a lobby is full with
\* its bots.
MatchmakingTypeOK ==
  /\ \A i, j \in DOMAIN queue : queue[i].who = queue[j].who => i = j
  /\ \A i, j \in DOMAIN queue : i < j /\ queue[j].waited => queue[i].waited
  /\ Queued \subseteq Queuers /\ owed \subseteq Queuers
  /\ \A w \in Workers : worker[w].at \in {"rest", "stopped", "read", "zrem", "create", "tickets"}
  /\ DOMAIN lobby \subseteq 1..formed
  /\ \A i \in DOMAIN lobby : Cardinality(lobby[i].who) + lobby[i].bots = LobbySize

\* "Two replicas scanning the same queues would form duplicate rooms from the same
\* players": nobody gets more tickets than he has queued times, unless a scan took
\* longer than the lock.
SeatsEarned == overran \/ \A p \in Queuers : seats[p] <= enqueues[p]

\* Whoever waits, and has not been failed by an error or an expiry, is in the queue,
\* in the hands of a worker, or has a ticket to poll, whoever scans, polls and queues
\* in between.
NobodyForgotten == \A p \in owed :
  \/ p \in Queued \/ ticket[p] # 0 \/ polled[p] # 0
  \/ \E w \in Workers : p \in worker[w].todo

\* "Pre-create the Race + participants so spectators can bet on it before the green
\* light": a ticket is for a race that exists and that has its holder.
RaceBeforeTicket == \A p \in Queuers : ticket[p] # 0 =>
  ticket[p] \in DOMAIN lobby /\ p \in lobby[ticket[p]].who

\* Everybody who queues has one place, in the queue or in a race that was made for him.
MatchmakingInv == MatchmakingTypeOK /\ SeatsEarned /\ NobodyForgotten /\ RaceBeforeTicket

\* Nobody stays in the queue: when players stop queueing it empties, also of one
\* who is alone, as long as a replica runs.
Served == []<>(queue = <<>> \/ \A w \in Workers : worker[w] = Stopped)
=============================================================================

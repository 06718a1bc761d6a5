------------------------------ MODULE Community -----------------------------
(***************************************************************************)
(* Factions, their members and the districts they fight for:               *)
(* FactionsService (apps/api/src/factions) and DistrictsService            *)
(* (apps/api/src/districts), over the constraints of the schema: names and *)
(* memberships are unique, and a faction with members cannot be deleted    *)
(* (ON DELETE RESTRICT).  Reads that can only refuse are one step with the *)
(* read after them.                                                        *)
(***************************************************************************)
EXTENDS Calls, FiniteSets

CONSTANTS
  People,        \* the players followed here
  Founders,      \* those with the rep to found a faction
  Factions,
  Names,         \* bound: the factions that may be founded anew
  Homes,         \* who has founded which faction at first
  MaxMembers,    \* 50 in the code
  Attempts,      \* at one award: 4 in the code
  MaxInfluence   \* bound on what a district gives

ASSUME CommunityAssumption ==
  /\ Founders \subseteq People /\ People \subseteq Players
  /\ Nobody \notin Factions /\ Names \subseteq Factions
  /\ Homes \subseteq [People -> Factions \cup {Nobody}]
  /\ \A h \in Homes : \A p, q \in People :
       h[p] # Nobody => p \in Founders /\ (h[p] = h[q] => p = q)
  /\ MaxMembers \in Nat \ {0} /\ MaxInfluence \in Nat /\ Attempts \in Nat \ {0}
  /\ IsFiniteSet(People) /\ IsFiniteSet(Threads) /\ Threads # {}

VARIABLES
  alive,         \* faction rows
  home, rank,    \* factionMember rows: the faction, or Nobody
  fee, refund,   \* <<founder, name>>: journals of the founding fee and its refund
  influence, controller,   \* of one district's current epoch
  founded,       \* ghost: <<founder, name>> of every faction that was created
  astray,        \* ghost: fees whose call failed where nothing refunds it
  doubtful,      \* ghost: fees that a later call found paid and was not charged again,
                 \*   or whose faction was refunded because nobody heard it was created
  earned         \* ghost: influence whose award was acknowledged

rosters == <<alive, home, rank>>
fees == <<fee, refund, founded, astray, doubtful>>
district == <<influence, controller, earned>>
communityVars == <<rosters, fees, district, call>>

Members(f) == {p \in People : home[p] = f}

InitCommunity ==
  /\ InitCalls
  /\ home \in Homes
  /\ alive = {home[p] : p \in People} \ {Nobody}
  /\ rank = [p \in People |-> IF home[p] = Nobody THEN "none" ELSE "BOSS"]
  /\ founded = {key \in People \X Factions : home[key[1]] = key[2]} /\ fee = founded
  /\ refund = {} /\ astray = {} /\ doubtful = {}
  /\ influence = [f \in Factions |-> 0] /\ earned = [f \in Factions |-> 0]
  /\ controller = Nobody

-----------------------------------------------------------------------------
(* Founding a faction: the fee first, the row next, else the refund.       *)
Free(p, f) == f \notin alive /\ home[p] = Nobody

FoundRead(t, p, f) ==
  /\ p \in Founders /\ f \in Names
  /\ Free(p, f)
  /\ Begin(t, [at |-> "fee", key |-> <<p, f>>])
  /\ UNCHANGED <<rosters, fees, district>>

\* The key names the founder and the faction: a second attempt finds it posted, be it
\* refunded or spent, and is charged nothing.
FoundFee(t) == LET key == call[t].key IN
  /\ At(t, "fee")
  /\ \/ End(t) /\ UNCHANGED <<fee, astray, doubtful>>
     \/ /\ fee' = fee \cup {key} /\ Goto(t, "found")
        /\ doubtful' = doubtful \cup ({key} \cap fee)
        /\ UNCHANGED astray
     \/ /\ "lost" \in Faults
        /\ fee' = fee \cup {key} /\ astray' = astray \cup {key} /\ End(t)
        /\ UNCHANGED doubtful
  /\ UNCHANGED <<rosters, refund, founded, district>>

\* The faction with its boss, or a failure, which may be a lost answer.
FoundCreate(t) == LET p == call[t].key[1]  f == call[t].key[2] IN
  /\ At(t, "found")
  /\ \/ /\ Free(p, f)
        /\ alive' = alive \cup {f}
        /\ home' = [home EXCEPT ![p] = f] /\ rank' = [rank EXCEPT ![p] = "BOSS"]
        /\ founded' = founded \cup {<<p, f>>}
        /\ \/ End(t) /\ UNCHANGED doubtful
           \/ "lost" \in Faults /\ Goto(t, "refund") /\ doubtful' = doubtful \cup {<<p, f>>}
     \/ /\ ~Free(p, f) \/ "lost" \in Faults
        /\ Goto(t, "refund")
        /\ UNCHANGED <<rosters, founded, doubtful>>
  /\ UNCHANGED <<fee, refund, astray, district>>

\* Mutant of Repaid: the refund has the key of the fee, which is posted already.
RepaidUnderFeeKey(key) == refund

Repaid(key) == refund \cup {key}

FoundRefund(t) ==
  /\ At(t, "refund")
  /\ \/ refund' = Repaid(call[t].key) /\ UNCHANGED astray
     \/ "lost" \in Faults /\ astray' = astray \cup {call[t].key} /\ UNCHANGED refund
  /\ End(t)
  /\ UNCHANGED <<rosters, fee, founded, doubtful, district>>

-----------------------------------------------------------------------------
(* Joining, leaving, promoting.                                            *)

Crowded(f) == Cardinality(Members(f)) >= MaxMembers

JoinRead(t, p, f) ==
  /\ home[p] = Nobody /\ f \in alive /\ ~Crowded(f)
  /\ Begin(t, [at |-> "join", who |-> p, faction |-> f])
  /\ UNCHANGED <<rosters, fees, district>>

\* The row is refused when the player has one by now, or the faction has gone.
JoinCreate(t) == LET p == call[t].who  f == call[t].faction IN
  /\ At(t, "join")
  /\ IF home[p] = Nobody /\ f \in alive
     THEN home' = [home EXCEPT ![p] = f] /\ rank' = [rank EXCEPT ![p] = "PROSPECT"]
     ELSE UNCHANGED <<home, rank>>
  /\ End(t)
  /\ UNCHANGED <<alive, fees, district>>

LeaveRead(t, p) ==
  /\ home[p] # Nobody
  /\ Begin(t, [at |-> IF rank[p] = "BOSS" THEN "count" ELSE "quit", who |-> p, faction |-> home[p]])
  /\ UNCHANGED <<rosters, fees, district>>

LeaveCount(t) ==
  /\ At(t, "count")
  /\ IF Cardinality(Members(call[t].faction)) > 1 THEN End(t) ELSE Goto(t, "disband")
  /\ UNCHANGED <<rosters, fees, district>>

\* The boss' own row keeps the faction from being deleted; it goes only when every
\* member has left since the count.
Deletable(f) == Members(f) = {}

Disband(t) == LET f == call[t].faction IN
  /\ At(t, "disband")
  /\ IF Deletable(f)
     THEN /\ alive' = alive \ {f}
          /\ controller' = IF controller = f THEN Nobody ELSE controller
     ELSE UNCHANGED <<alive, controller>>
  /\ End(t)
  /\ UNCHANGED <<home, rank, fees, influence, earned>>

\* Whatever membership the player has by now is deleted.
Quit(t) == LET p == call[t].who IN
  /\ At(t, "quit")
  /\ home' = [home EXCEPT ![p] = Nobody] /\ rank' = [rank EXCEPT ![p] = "none"]
  /\ End(t)
  /\ UNCHANGED <<alive, fees, district>>

\* What can be given; a RACER may do what a PROSPECT may.
Ranks == {"PROSPECT", "OFFICER"}

PromoteRead(t, p, q, r) ==
  /\ rank[p] \in {"BOSS", "OFFICER"}
  /\ home[q] = home[p]
  /\ Begin(t, [at |-> "promote", who |-> q, rank |-> r])
  /\ UNCHANGED <<rosters, fees, district>>

\* The rank of the boss can be replaced as well.
Promote(t) == LET q == call[t].who IN
  /\ At(t, "promote")
  /\ rank' = IF home[q] = Nobody THEN rank ELSE [rank EXCEPT ![q] = call[t].rank]
  /\ End(t)
  /\ UNCHANGED <<alive, home, fees, district>>

-----------------------------------------------------------------------------
(* awardInfluence: a serializable read-modify-write, tried a few times.    *)
AwardRead(t, p) ==
  /\ home[p] # Nobody
  /\ Begin(t, [at |-> "influence", faction |-> home[p], attempt |-> 1])
  /\ UNCHANGED <<rosters, fees, district>>

InfluenceRead(t) ==
  /\ At(t, "influence")
  /\ influence[call[t].faction] < MaxInfluence
  /\ call' = [call EXCEPT ![t] = [at |-> "commit", faction |-> @.faction,
                                  attempt |-> @.attempt, seen |-> influence]]
  /\ UNCHANGED <<rosters, fees, district>>

Conflicts(t) == call[t].seen # influence

\* The new scores and the faction that leads by them; a leader that was deleted
\* breaks the foreign key and with it the award.
InfluenceCommit(t) ==
  LET f == call[t].faction
      scores == [call[t].seen EXCEPT ![f] = @ + 1]
  IN
  /\ At(t, "commit")
  /\ IF Conflicts(t)
     THEN /\ IF call[t].attempt = Attempts THEN End(t)
             ELSE call' = [call EXCEPT ![t] =
                    [at |-> "influence", faction |-> f, attempt |-> call[t].attempt + 1]]
          /\ UNCHANGED district
     ELSE /\ End(t)
          /\ \E top \in {g \in Factions : \A h \in Factions : scores[h] <= scores[g]} :
               IF top \in alive
               THEN /\ influence' = scores /\ controller' = top
                    /\ earned' = [earned EXCEPT ![f] = @ + 1]
               ELSE UNCHANGED district
  /\ UNCHANGED <<rosters, fees>>

CrashCommunity(t) ==
  /\ "crash" \in Faults
  /\ call[t] # Idle
  /\ End(t)
  /\ astray' = IF call[t].at \in {"found", "refund"} THEN astray \cup {call[t].key} ELSE astray
  /\ UNCHANGED <<rosters, fee, refund, founded, doubtful, district>>

NextCommunity == \E t \in Threads :
  \/ \E p \in People, f \in Factions : FoundRead(t, p, f) \/ JoinRead(t, p, f)
  \/ FoundFee(t) \/ FoundCreate(t) \/ FoundRefund(t) \/ JoinCreate(t)
  \/ \E p \in People : LeaveRead(t, p) \/ AwardRead(t, p)
  \/ LeaveCount(t) \/ Disband(t) \/ Quit(t) \/ Promote(t)
  \/ \E p, q \in People, r \in Ranks : PromoteRead(t, p, q, r)
  \/ InfluenceRead(t) \/ InfluenceCommit(t) \/ CrashCommunity(t)

SpecCommunity == InitCommunity /\ [][NextCommunity]_communityVars

-----------------------------------------------------------------------------
(* Properties.                                                             *)

\* Every variable has its type; a member's faction exists.
CommunityTypeOK ==
  /\ alive \subseteq Factions
  /\ \A p \in People : home[p] = Nobody \/ home[p] \in alive
  /\ \A p \in People : IF home[p] = Nobody THEN rank[p] = "none" ELSE rank[p] \in Ranks \cup {"BOSS"}
  /\ refund \cup doubtful \subseteq fee /\ fee \subseteq Founders \X Factions
  /\ influence \in [Factions -> 0..MaxInfluence]
  /\ controller \in alive \cup {Nobody}

\* "Lost a race on the unique name/tag - refund the founding fee": a fee that is not
\* refunded bought a faction, unless an answer or a process was lost on the way.  The
\* other way round, a faction was bought by a fee that was not refunded and had bought
\* none before, except under doubtful keys: a second attempt of a founder at a name is
\* not charged again, also when the first was refunded or its faction is gone.
FeeBuysFaction ==
  /\ \A key \in fee \ refund :
       key \in founded \/ key \in astray \/ \E t \in Threads :
         call[t].at \in {"found", "refund"} /\ call[t].key = key
  /\ founded \subseteq fee
  /\ founded \cap refund \subseteq doubtful
  /\ \A t \in Threads :
       At(t, "found") /\ call[t].key \in founded \cup refund => call[t].key \in doubtful

\* A faction is overfilled by at most the joins that were under way when it became
\* full: the members are counted before the row is created.
RosterHolds == \A f \in Factions : Cardinality(Members(f)) <= MaxMembers + Cardinality(Threads) - 1

\* A faction never has two bosses, however promotions, departures and foundations
\* overlap.
OneBoss == \A p, q \in People : rank[p] = "BOSS" /\ rank[q] = "BOSS" /\ home[p] = home[q] => p = q

\* "Two races finishing in the same district at once must not lose each other's
\* influence", and the district belongs to a faction that leads it.
InfluenceAddsUp ==
  /\ influence = earned
  /\ controller # Nobody => \A f \in Factions : influence[f] <= influence[controller]

\* A fee buys a faction and a faction its fee, but for what is named there; it keeps its
\* members and its one boss, and no influence is lost, however calls overlap.
CommunityInv == CommunityTypeOK /\ FeeBuysFaction /\ RosterHolds /\ OneBoss /\ InfluenceAddsUp
=============================================================================

----------------------------- MODULE MCServices ----------------------------
(***************************************************************************)
(* The services that share the ledger and nothing else: a behaviour        *)
(* follows one of them, and of the community either who founds and who     *)
(* joins, or who holds the district; of the wallet service, the accounts   *)
(* it keeps on the chain or the wallets that players link; or the accounts *)
(* that players sign in to.                                                *)
(***************************************************************************)
EXTENDS Tournament, Community, Custody, Linking, Account, TLC

CONSTANTS ann, bob, neon, void

VARIABLE part

MCHomes == {[p \in People |-> CASE p = ann -> neon [] p = bob -> void [] OTHER -> Nobody]}
MCRankings == UNION {[1..n -> Entrants] : n \in 1..BracketSize + 1}

tournamentOnly == <<status, entries, payout, prize, unackedPayout, settlerDied, inTime>>
communityOnly == <<rosters, fees, district>>

Init ==
  /\ part \in {"tournament", "rosters", "turf", "custody", "linking", "account"}
  /\ InitTournament /\ InitCommunity /\ InitCustody /\ InitLinking /\ InitAccount

Next ==
  /\ UNCHANGED part
  /\ \/ part = "tournament" /\ NextTournament /\ UNCHANGED <<communityOnly, custodyVars, linkingVars, accountVars>>
     \/ part = "rosters" /\ NextCommunity /\ UNCHANGED <<tournamentOnly, district, custodyVars, linkingVars, accountVars>>
     \/ part = "turf" /\ NextCommunity /\ UNCHANGED <<tournamentOnly, fees, custodyVars, linkingVars, accountVars>>
     \/ part = "custody" /\ NextCustody /\ UNCHANGED <<tournamentVars, communityVars, linkingVars, accountVars>>
     \/ part = "linking" /\ NextLinking /\ UNCHANGED <<tournamentVars, communityVars, custodyVars, accountVars>>
     \/ part = "account" /\ NextAccount /\ UNCHANGED <<tournamentVars, communityVars, custodyVars, linkingVars>>

Spec == Init /\ [][Next]_<<part, tournamentVars, communityVars, custodyVars, linkingVars, accountVars>>

Symmetry == Permutations(Threads)
=============================================================================

----------------------------- MODULE Withdrawal -----------------------------
(***************************************************************************)
(* Withdrawals of USDC: WalletService.withdraw (apps/api/src/wallet) in    *)
(* the processes of the API.  A process runs the withdrawals of a player   *)
(* one after the other, a promise chained to the one before; every await   *)
(* of doWithdraw ends a step.  The payment itself is what module Payment   *)
(* promises: a row that is open until the network has decided.             *)
(*                                                                         *)
(* A caller gets the outcome, a refusal (BadRequestException), or an error *)
(* of Prisma or Horizon that the handler let through, or no answer at all. *)
(* A withdrawal that throws takes its process with it: run.finally(...)    *)
(* makes a promise that is rejected as well and that nobody handles, which *)
(* ends a Node process; another one starts in its place.                   *)
(***************************************************************************)
EXTENDS Integers, Sequences, FiniteSets, Collections

CONSTANTS
  Players, Processes, Requests,
  Amounts,      \* USDC that may be asked for, at least the minimum of 1
  Asked,        \* the calls that may be made: whose, in which process, how much
  Funds,        \* USDC of each custodial account at first
  MaxDailyWithdrawals, MaxDailyUsdc,   \* 5 and 1000 in the code
  MaxRejected   \* bound on the withdrawals the network rejects

ASSUME WithdrawalAssumption ==
  /\ Amounts \subseteq Nat \ {0}
  /\ Asked \subseteq [Requests -> [who : Players, proc : Processes, amount : Amounts]]
  /\ Funds \in [Players -> Nat]
  /\ {MaxDailyWithdrawals, MaxDailyUsdc, MaxRejected} \subseteq Nat
  /\ IsFiniteSet(Requests)

VARIABLES
  request,      \* what is asked for
  at,           \* where the call of the request is
  chain,        \* per process and player, the withdrawals in the order of their promises
  payment,      \* the chainTx row: "none", "open" (PENDING or SUBMITTED), ...
  recent,       \* rows created in the last 24 hours
  moved,        \* payments the network has made
  funds

withdrawalVars == <<request, at, chain, payment, recent, moved, funds>>

Ongoing == {"queued", "limits", "balance", "submit", "submitted"}

InitWithdrawal ==
  /\ request \in Asked
  /\ at = [r \in Requests |-> "idle"]
  /\ chain = [q \in Processes |-> [p \in Players |-> <<>>]]
  /\ payment = [r \in Requests |-> "none"]
  /\ recent = {} /\ moved = {}
  /\ funds = Funds

Of(r) == chain[request[r].proc][request[r].who]
SetChain(r, s) == chain' = [chain EXCEPT ![request[r].proc][request[r].who] = s]
Proceed(r, label) == at' = [at EXCEPT ![r] = label]
Same(r) == {s \in Requests : request[s].who = request[r].who}

\* A withdrawal runs when those before it in its chain have ended.
Turn(r) == Head(Of(r)) = r

OnTurn(r, label) == at[r] = label /\ Turn(r)

-----------------------------------------------------------------------------
Withdraw(r) ==
  /\ at[r] = "idle"
  /\ Proceed(r, "queued")
  /\ SetChain(r, Append(Of(r), r))
  /\ UNCHANGED <<request, payment, recent, moved, funds>>

\* Mutant of Die: the process lives, but the chain stays at the call that threw.
DieHolds(q, r, answer) == at' = [at EXCEPT ![r] = answer] /\ UNCHANGED chain

\* The process dies: the calls it runs are never answered.  A call that throws is
\* answered before, an answer that is due is not.
Die(q, r, answer) ==
  /\ at' = [s \in Requests |->
       IF s = r THEN answer
       ELSE IF request[s].proc = q /\ at[s] \in Ongoing THEN "dead" ELSE at[s]]
  /\ chain' = [chain EXCEPT ![q] = [p \in Players |-> <<>>]]

\* A BadRequestException: the caller is told why there is no withdrawal.
Refuse(r) ==
  /\ Die(request[r].proc, r, "refused")
  /\ UNCHANGED <<request, payment, recent, moved, funds>>

\* hasUnsettledWithdrawal: a payment of the player is on its way.
Unsettled(r) == \E s \in Same(r) : payment[s] = "open"

CheckUnsettled(r) ==
  /\ OnTurn(r, "queued")
  /\ IF Unsettled(r)
     THEN Refuse(r)
     ELSE Proceed(r, "limits") /\ UNCHANGED <<request, chain, payment, recent, moved, funds>>

Counted(r) == {s \in Same(r) \cap recent : payment[s] \in {"open", "confirmed"}}
AmountOf == [s \in Requests |-> request[s].amount]
Usdc(S) == SumOf(AmountOf, S)

\* Mutant of OverLimit: the amount that is asked for is forgotten.
OverLimitBefore(r) ==
  \/ Cardinality(Counted(r)) >= MaxDailyWithdrawals
  \/ Usdc(Counted(r)) >= MaxDailyUsdc

\* The velocity limits, over rows that have not failed.
OverLimit(r) ==
  \/ Cardinality(Counted(r)) >= MaxDailyWithdrawals
  \/ Usdc(Counted(r)) + request[r].amount > MaxDailyUsdc

CheckLimits(r) ==
  /\ OnTurn(r, "limits")
  /\ IF OverLimit(r)
     THEN Refuse(r)
     ELSE Proceed(r, "balance") /\ UNCHANGED <<request, chain, payment, recent, moved, funds>>

CheckBalance(r) ==
  /\ OnTurn(r, "balance")
  /\ IF funds[request[r].who] < request[r].amount
     THEN Refuse(r)
     ELSE Proceed(r, "submit") /\ UNCHANGED <<request, chain, payment, recent, moved, funds>>

\* The journal payment, under a key of its own.
Submit(r) ==
  /\ OnTurn(r, "submit")
  /\ payment' = [payment EXCEPT ![r] = "open"]
  /\ recent' = recent \cup {r}
  /\ Proceed(r, "submitted")
  /\ UNCHANGED <<request, chain, moved, funds>>

\* Mutant of Rejected: a payment whose outcome is unknown counts as rejected.
RejectedUnlessConfirmed(r) == payment[r] # "confirmed"

Rejected(r) == payment[r] = "failed"

Answer(r, answer) == Proceed(r, answer) /\ SetChain(r, Tail(Of(r)))

\* The call returns what it has learnt: that the payment is confirmed, or rejected,
\* which is thrown, or that it is settling, whatever the reconciler has learnt since.
Return(r) ==
  /\ OnTurn(r, "submitted")
  /\ \/ Rejected(r) /\ Die(request[r].proc, r, "refused")
     \/ payment[r] = "confirmed" /\ Answer(r, "done")
     \/ Answer(r, "settling")
  /\ UNCHANGED <<request, payment, recent, moved, funds>>

\* Prisma or Horizon fails where doWithdraw awaits it, at the submission also when the
\* row is open or the money has moved: submitUsdcPayment throws what its own writes
\* throw.  The caller gets an error that tells nothing of the payment.
Throw(r) ==
  /\ at[r] \in Ongoing
  /\ Turn(r)
  /\ Die(request[r].proc, r, "error")
  /\ UNCHANGED <<request, payment, recent, moved, funds>>

-----------------------------------------------------------------------------
(* The network and the reconciler (modules Payment and ChainTx), and time. *)
Move(r) == LET p == request[r].who IN
  /\ payment[r] = "open" /\ r \notin moved
  /\ funds[p] >= request[r].amount
  /\ moved' = moved \cup {r}
  /\ funds' = [funds EXCEPT ![p] = @ - request[r].amount]
  /\ UNCHANGED <<request, at, chain, payment, recent>>

Settle(r) ==
  /\ payment[r] = "open"
  /\ r \in moved \/ Cardinality({s \in Requests : payment[s] = "failed"}) < MaxRejected
  /\ payment' = [payment EXCEPT ![r] = IF r \in moved THEN "confirmed" ELSE "failed"]
  /\ UNCHANGED <<request, at, chain, recent, moved, funds>>

Age(r) ==
  /\ r \in recent
  /\ recent' = recent \ {r}
  /\ UNCHANGED <<request, at, chain, payment, moved, funds>>

WithdrawalStep(r) == CheckUnsettled(r) \/ CheckLimits(r) \/ CheckBalance(r) \/ Submit(r) \/ Return(r)

NextWithdrawal == \E r \in Requests :
  Withdraw(r) \/ WithdrawalStep(r) \/ Throw(r) \/ Move(r) \/ Settle(r) \/ Age(r)

SpecWithdrawal == InitWithdrawal /\ [][NextWithdrawal]_withdrawalVars

\* A call that waits goes on.
FairWithdrawal == \A r \in Requests : WF_withdrawalVars(WithdrawalStep(r))

-----------------------------------------------------------------------------
(* Properties.                                                             *)
Open(p, q) == {r \in Requests : payment[r] = "open" /\ request[r].who = p /\ request[r].proc = q}
Processed(p) == {request[r].proc : r \in {s \in Requests : request[s].who = p}}

\* Every variable has its type; a chain holds the calls that are running.
WithdrawalTypeOK ==
  /\ request \in Asked
  /\ at \in [Requests -> Ongoing \cup {"idle", "settling", "done", "refused", "error", "dead"}]
  /\ payment \in [Requests -> {"none", "open", "confirmed", "failed"}]
  /\ recent \subseteq Requests /\ moved \subseteq Requests
  /\ funds \in [Players -> Nat]
  /\ \A r \in Requests : at[r] \in Ongoing <=> r \in {Of(r)[i] : i \in DOMAIN Of(r)}

\* "One withdrawal at a time per player: while a prior tx is PENDING or SUBMITTED its
\* outcome is unknown": one process never has two of a player's payments open.
OneOpen == \A p \in Players, q \in Processes : Cardinality(Open(p, q)) <= 1

\* "Serialized per player ... so the balance check can't be raced": a player who is
\* served by one process has the funds for every payment that is on its way.
Funded == \A r \in Requests :
  Cardinality(Processed(request[r].who)) = 1 /\ payment[r] = "open" /\ r \notin moved =>
    funds[request[r].who] >= request[r].amount

\* The velocity limits hold over any day, except that every other process may
\* let one more withdrawal pass that it checked at the same time: their number.
DailyCount == \A r \in Requests :
  Cardinality(Counted(r)) <= MaxDailyWithdrawals + Cardinality(Processed(request[r].who)) - 1

\* "Velocity limits: max 5 withdrawals and 1 000 USDC per rolling 24-hour window": the
\* sum of a day's withdrawals exceeds it only by what each other process let pass at
\* the same time.
DailySum == \A r \in Requests :
  Usdc(Counted(r)) <= MaxDailyUsdc + (Cardinality(Processed(request[r].who)) - 1) * Max(Amounts)

\* An answer is true of the payment, and stays so: a caller who is told that the
\* withdrawal is refused keeps the money, one who is told that it is confirmed has
\* withdrawn it once.  Of an error, or of a process that died, nothing follows: the
\* payment may have moved, or may still.
AnswersAreTrue == \A r \in Requests :
  /\ at[r] = "refused" => payment[r] \in {"none", "failed"} /\ r \notin moved
  /\ at[r] = "done" => payment[r] = "confirmed" /\ r \in moved
  /\ at[r] = "settling" => payment[r] # "none"

\* What a process does for a player at once is backed by the player's funds, a day's
\* withdrawals are as many as the limit says, and callers are told what became of
\* the money, if they are told.
WithdrawalInv == WithdrawalTypeOK /\ OneOpen /\ Funded /\ DailyCount /\ AnswersAreTrue

\* A call gets an answer, or its process dies; none waits for a predecessor forever.
Answered == \A r \in Requests : at[r] = "queued" ~> at[r] \notin Ongoing
=============================================================================

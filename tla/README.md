# DRIFT protocol: TLA+ models and proofs

This directory specifies what DRIFT does with money, races and accounts, in the
API, in the race server, on the chain and in the browser. TLC checks the models on
small instances; TLAPS proves the results that matter most for every instance.
Paths below are relative to the repository; `api/` stands for `apps/api/src/` and
`web/` for `apps/web/src/`.

## 1. The system

DRIFT is an online racing game. A NestJS API (several replicas, Postgres through
Prisma, Redis) keeps players, cars, Credits and USDC; a Colyseus server runs
race rooms; a Next.js client predicts and draws them; Stellar holds the USDC.

| Component | Source | State | Operations | Talks to |
|---|---|---|---|---|
| Ledger | `api/economy/ledger.service.ts` | `ledgerEntry` rows, unique `idempotencyKey` | `post`, `balanceOf` | Postgres (Serializable, retry on P2034) |
| Chain journal | `api/stellar/chain-tx.service.ts` | `chainTx` rows | `submitUsdcPayment`, `resolveSubmitError`, `hasUnsettledWithdrawal` | Stellar service, Horizon |
| Chain reconciler | `api/stellar/chain-reconciler.service.ts` | in-flight sweep, Redis lock | `sweep`, `resolve`, `markFailed` | journal, Horizon |
| Stellar service | `api/stellar/stellar.service.ts` | known trustlines, per process | accounts, trustlines, airdrops, build, submit, look up | Horizon, friendbot |
| Race results | `api/races/races.service.ts` | `race`, `raceParticipant` | `ingestResult` | ledger, reputation, factions, districts, betting |
| Replay verifier | `api/races/replay-verifier.service.ts` | none | `verify` | race results |
| Betting | `api/betting/betting.service.ts` | `betPool`, `bet` | `placeBet`, `lockPools`, `settleForRace`, `voidStalePools` | ledger, Redis lock |
| Wallet | `api/wallet/wallet.service.ts` | promise chain per player, challenges, `walletLink` | `withdraw`, `linkWallet`, `getWallet`, `airdrop` | chain journal, Stellar service, Redis |
| Tournaments | `api/tournaments/tournaments.service.ts` | `tournament`; the entries are ledger rows | `register`, `settle`, prizes | ledger, chain journal |
| Marketplace | `api/marketplace/marketplace.service.ts` | `marketListing`, `car.playerId` | `list`, `buy`, `cancel` | ledger |
| Garage | `api/garage/garage.service.ts` | `car`, `carUpgrade` | `purchaseUpgrade`, `ensureStarterCar` | ledger |
| Factions | `api/factions/factions.service.ts` | `faction`, `factionMember` | `create`, `join`, `leave`, `promote` | ledger |
| Districts | `api/districts/districts.service.ts` | influence and control | `awardInfluence` | Postgres |
| Reputation | `api/reputation/reputation.service.ts` | `player.rep/xp/level/repTier` | `awardRaceRep` | Postgres |
| Auth | `api/auth/*` | `player`, its identities | guest, OAuth sign-in and upgrade | Postgres, providers |
| Matchmaking | `api/matchmaking/*` | Redis queues, lock, tickets | `enqueue`, `tryForm`, `pollTicket` | betting (pools), races (rows) |
| Race room | `apps/realtime/src/rooms/RaceRoom.ts` | racers, phase, input queues | join, ready, tick, finish, leave | API (lock-pools, results) |
| Shared simulation | `packages/shared/src/sim/*` | car and progress state | step, lap progress, reconciliation | room and client |
| Escrow contract | `packages/contracts/marketplace-escrow/src/lib.rs` | listings | `init`, `list`, `buy`, `cancel` | USDC token |
| Web client: race | `web/game`, `web/components/game`, `web/stores/raceStore.ts` | one store, one input snapshot, sessions, effect pools, audio graph | play, leave, finish | room, API |
| Web client: session | `web/stores/sessionStore.ts`, `web/components/providers`, `web/app/auth` | a session per tab, one local storage | sign in, refresh, guest | API |
| Web client: pages | `web/app/*/page.tsx` | lists, selections, busy flags | load, buy, join, register, ... | API |
| Web client: wallets | `web/components/wallet/*` | address, balance, forms | connect, send, trade | wallet extension, Horizon, Soroban |
| Scripts | `scripts/*.ts` | `.env` and its backup | bootstrap, deploy | friendbot, `stellar`, cargo |

How they interact. The matchmaking worker forms a race, creates its row with
`endedAt = null` and opens two pools. Spectators bet; each stake is a ledger
journal followed by a row. At the green light the room asks the API, once and
best effort, to lock the pools. When the race closes the room posts one report,
up to three times. `ingestResult` verifies it, closes the race, stores the finish
order, pays rewards and settles the pools. A sweeper settles what that left, and
refunds the pools of races that never report. Prizes and withdrawals leave through
the chain journal, whose reconciler asks Horizon about every payment of unknown
outcome. The browser holds copies of all this, which it loads, predicts or is told
of, and buttons that act on what the copy says.

What is hard. In the API nothing but the ledger's own transaction and a few
conditional updates spans two statements: every service is a sequence of awaits,
and between any two of them other requests, the sweeps of other replicas and
crashes come in. Calls may fail before or after they take effect. The guards are
status columns, unique keys and Redis locks that expire. The room is single
threaded but its clients come and go in any phase. The browser has no threads
either, but every answer comes late, after the page, the tab or the account it was
asked for may have gone. `PROJECT.json` lists each such place under "hazards".

What makes each component correct:

- Ledger: no player overdrawn, each journal posted once and whole, true answers.
- Chain journal: a key pays at most once; CONFIRMED and FAILED are true and final;
  every payment is settled in the end.
- Custodial accounts: what a process remembers of the chain is true, and an airdrop
  that was answered minted.
- Race results: rewards at most once per entrant, after the finish order and by it; when
  a report was acknowledged, all but those a handler that broke off had not come to; a
  report of the room itself passes the verifier, but for its limits on time and drift.
- Betting: a pool is paid out or refunded and covers what it gives; every bet has
  a stake behind it and, unless it came after its pool was read, is settled in the end;
  shares follow the finish order.
- Wallet: one unsettled withdrawal per player and process, within the daily limits,
  and a true answer wherever there is one (an error is none); a linked key is somebody's who signed with it.
- Marketplace and garage: a car has one owner, who paid; an upgrade paid is built.
- Tournaments: the pool is the entries; prizes once, by one ranking.
- Factions and districts: bounded rosters, one boss, a founding fee that was kept for
  a faction, but where a key was used again or an answer lost; no influence lost.
- Auth and session: an identity keeps its account; a tab shows the account it acts as.
- Matchmaking: who queues is matched once, with a ticket for a race that exists.
- Room: a closed grid, and a race that started reports every human once and truly.
- Simulation: gates in order, points counted once; prediction agrees with the server.
- Escrow: funds go to the buyer, the seller or back; the panel trades what it shows.
- Client: what is on screen is about what it says it is about; nothing a view left
  behind acts on the next; no button sticks, charges otherwise than it said, or twice.
- Scripts: `.env` names accounts that exist and a contract that uses them.

## 2. Modules

| Module | What it is | Theorems |
|---|---|---|
| `Ledger` | what the ledger promises: atomic, covered, once | |
| `LedgerTx` | `LedgerService.post` over serializable transactions; implements `Ledger` | `LedgerTxProof` |
| `Payment` | what the chain journal promises: a key's money moves once, answers are true | |
| `ChainTx` | `submitUsdcPayment`, the reconciler, the network; implements `Payment` | `ChainTxInv`, `ChainTxProof` |
| `RaceIngest` | the room's report loop and `ingestResult` | `AnswersProof` |
| `Verifier` | `ReplayVerifierService.verify` | |
| `Betting` | extends `RaceIngest` with pools, bets, the sweeps and crashes | `BettingInv`, `BettingProof` |
| `Withdrawal` | `WalletService.withdraw` in several processes, over what `Payment` promises | `AnswersProof` |
| `Calls` | calls of the API in progress: threads, lost answers, crashes | |
| `Market` | marketplace and garage, over `Calls` | `ServicesProof` |
| `Tournament` | one tournament, over `Calls` | `ServicesProof` |
| `Community` | factions, members and one district, over `Calls` | `ServicesProof` |
| `Custody` | custodial accounts, trustlines and airdrops in several processes | `ServicesProof` |
| `Linking` | wallet challenges and links | `ServicesProof` |
| `Account` | guests, sign-ins and upgrades; the tabs of a browser and their session | `ServicesProof` |
| `Collections` | filtered lists, as of Redis and of a Map; sums over finite sets | `LobbyProof` (lists), `SumsProof` (sums) |
| `Matchmaking` | a queue, the workers that scan it, tickets | `LobbyProof` |
| `RaceRoom` | the rooms of one match; extends `Verifier` | `LobbyProof` |
| `Driving` | progress, drift and nitro of one car | `AnswersProof` |
| `Netcode` | prediction, reconciliation and interpolation against the room | `AnswersProof` |
| `Escrow` | the contract, and the panel of the web client that uses it | `ClientProof` |
| `Setup` | the two scripts, run again and side by side | `ClientProof` |
| `XlmPanel` | the player's own wallet: connect, balance, send | `ServicesProof` |
| `RaceView` | the race on screen, its session, its store | `ClientProof` |
| `RaceInput` | keyboard and touch, writing one snapshot | `ClientProof` |
| `Pages` | the pages that list and act | `ClientProof` |
| `Effects` | smoke, marks and sound of a race | `ClientProof` |
| `MC*` | the instances TLC checks | |

Each action is the code between two awaits (in the room and the browser: one
handler, callback or frame), with its guard from the conditions there.
`PROJECT.json` maps every definition to its lines. Definitions with a comment
"Mutant of" are changed forms of the definition that follows; the specifications do
not use them: each shows that a property would notice that change.

Several MC modules hold components that share no state. A variable `part`, chosen at
the start, names the one a behaviour follows; the others stay in their initial state.
So the state spaces add up instead of being multiplied, and nothing is lost, for no
action of one component reads a variable of another.

**LedgerTx.** A call of `post` is at `begin` (snapshot and balance reads), at
`commit` (insert and COMMIT) or done. The table is seen as the set of posted keys
and each account's sum. `since` collects the journals committed after a
transaction's snapshot; `Conflict` is Postgres' promise for Serializable: of two
transactions that read and write one account unseen by each other, the later
aborts. `Abort` is also allowed without reason, since Postgres' locks are
coarser. A commit may go unanswered.

**ChainTx.** A request walks through build, journal, mark, send, confirm or
resolve, and may die anywhere. An envelope has a sequence number, time bounds,
copies on the wire and a place in the ledger; Horizon shows (`indexed`) only what
it has ingested, at most `Lag` after the bounds. A sweep reads the open rows,
rules on each by a lookup and writes the ruling by row id. Time is a counter up to
`MaxClock`. `Retries` says how callers repeat a FAILED key: "quiet" (nobody else
works on the key), "serial" (no other call), "any". `Redelivery` says whether an
envelope may be delivered twice. The safety results hold for quiet retries and
single delivery; section 5 says what each assumption keeps out.

**RaceIngest.** `row` is the race row, `position` the participants', `credits` the
reward journals, `rep` counts awards that have no key. Handlers go entry by entry
in report order. `Faults` names the awaits that may fail; a handler that fails once the race has ended is `broken`, for no other one goes on with
what it left (`Lost`). `Overlap` says for which
states of the row the room's fetch may give up on a handler that still runs. The
report (who is in it, mode, difficulty, whether the row existed, whether the verifier
takes it) is chosen at the start from `Races`.

**Betting.** Bets go through read, stake, create, return; workers (the handlers
of ingestion and sweeps of any replica) through claim, payout or refund, rows and
reopen. The ledger is seen through its keys: `staked`, `returned`, `settled`,
`voided`, with `won` and `refunded` the amounts. `Faults` and `Unacked` name awaits
that may fail without, or after, their effect; `Crashes` names the steps where a
process may die; `LateBets` names the bets whose
row may be created after somebody has read the pool to settle it; `PartialReads` allows a
sweep to read a half stored finish order. The ghost `basis` keeps, per pool, the bets and
the order its last claimer had read: what is paid is told from that. The order
in which a sweep visits its pools is free, as the query gives none. The 45 s
window, the 20 minutes of a stale pool and the sweep timer become `clock` in 0..2.
The Redis lock of the sweep is not a guard of the model: it expires, so two
sweeps may overlap, and the model lets them.

**Withdrawal.** `chain` is the promise chain of a player in a process: only its head
runs. `payment` is the journal row as `Payment` promises it, `recent` the rows of the
last 24 hours, `moved` and `funds` the truth on the chain. Every await may throw, that of
the payment also when its row is open or its money has moved (the writes of the row in
`submitUsdcPayment` and `resolveSubmitError` fail after the submission): the caller gets an
error. A withdrawal that throws rejects `run.finally`'s promise too, which nobody handles:
the process dies, with every call in it.

**Calls, Market, Tournament, Community.** A thread is a handler in progress: a record
with the label of its next step and what it has read. `Faults` allows a call to lose
its answer ("lost") or its process ("crash"). Cars, listings, fees and prizes are
seen through the ledger's keys; ghosts (`unackedSale`, `abandoned`, `astray`,
`doubtful`, `unackedPayout`, `settlerDied`, `inTime`) name the events that excuse a promise.

**Custody, Linking, Account.** Jobs, links and tabs are records with the label of the
next step, in any of several processes. In Custody the chain includes a transaction
that has its source's next sequence number, at any time until it expires; accounts are
funded as on the test network (sponsored creation on mainnet is left out). In Linking
a challenge is taken once (GETDEL). In Account a tab's provider and its landing page
are two calls that overlap; storage is shared by tabs, memory is not.

**Matchmaking, RaceRoom.** A worker scans while it holds a lock that nobody releases:
it expires, also under a scan that goes on (`overran`). Rooms are numbered by their
creation in one match; `joinOrCreate` takes an unlocked one or makes the next. How
cars drive is left open: any of them may finish at any tick, with any of the drift points
of `Scores`. `report` is what `finishRace` computes; `Verify` is what the API asks of it,
with a `Ceiling` of points a tick.

**Driving, Netcode.** Arc length, points and ticks are integers; where the car gets to
and how it slips is chosen at each tick. Netcode keeps of the physics that it is one
function of state and input (`Drive` on `CarStates`, which it does not leave), and that
the prediction is compared by a pose, which shows less than the state. It starts with the
room's full state on its way to the client, which Colyseus sends on join before all
else. The room takes the inputs that are newer than the last one used, by less than
`MaxAhead` (`IsValidFrame`). The ghost `smooth` is TRUE as long as no tick was without an
input and no input was dropped from the queue or forgotten by the history.

**Escrow.** A transaction of the contract is atomic. The panel's call is built and
simulated (`Click`), signed and sent (`Send`), included or never (`Include`,
`Expire`), polled for (`Poll`), and its listing read again (`Refresh`). `fetch` holds
an answer that has not been shown yet. Ghosts: `ended`, the call that ended each
listing; `timedOut`, the transactions whose panel gave up; `retyped`, the panels whose
id was typed over while something was loading.

**XlmPanel, RaceView, RaceInput, Pages, Effects.** One player's browser. Answers arrive
in any order, if at all. Views, loads, calls and sends are numbered, so that a
property can tell whose answer is on show. In RaceView the credits are also moved by what
is no race (`Trade`), and what counts as earned is the gain of the whole balance. In
RaceInput the car is loaded (`Mount`) and the touch overlay shown and hidden (`ShowOverlay`,
`HideOverlay`) independently of each other; both go with the page (`Unmounted`). Each property names the cases in which the
code does show something else (`overtaken`, `adrift`, `remade`, ...): section 5 lists
them.

**Setup.** A run of a script is a record with the label of its next step; `.env`, its
backup and the contracts are shared. `overlapped` is set when two runs are under way
at once.

## 3. Runs

| Run | Instance | Shows |
|---|---|---|
| `ledger` | 5 journals (reward, two spends and a transfer that compete, one unbalanced), 3 calls, 1 retry | no overdraft, refinement of `Ledger` (whole, once, true replies), every call ends |
| `chaintx` | 1 key, 2 calls, 2 envelopes, 1 sweep, clock to 6 | the inductive invariant, one payment per key, a true journal, refinement of `Payment` |
| `chaintx_live` | 1 call, 2 sweepers, clock to 4 | every journaled payment settles |
| `answers` | a race of up to 3 drivers reported 3 times, matchmade or not, bot races of each difficulty, one refused, faults at every await, overlap in quick play; 3 withdrawals of 2 players in 2 processes, limits of 2 withdrawals and 3 USDC, 1 rejection, throws at every await | results ingested once and in order, everybody rewarded but those a broken handler had not come to; withdrawals backed, within the limits, truly answered, all answered |
| `betting` | 2 racers of whom one is classified, 2 bets, 2 sweeps, 1 report, crashes at every await, faults at all but the row writes, hidden effects at six, both bets late | the inductive invariant `FairInv`; books, rows and pools agree |
| `betting_settles` | podium of 4 racers, bets on places 1 and 3, stakes 50 and 73, rake 5 %, one sweep that may read half the order, one bet that may be late, failing payouts, rewards and creations | every bet settles but one left out, by the report's order, at one odds; no stake is lost |
| `market` | 3 traders, 2 cars, 2 listings, 2 threads, 2 tiers, lost answers and crashes | a car is paid for by whoever gets it, once; upgrades are paid |
| `services` | 2 threads over a tournament (bracket 2, fee 3, 3 entrants) or over factions (3 people, 2 factions, 1 member allowed) or a district (2 attempts); 1 custodial wallet, 2 processes, 3 jobs, 1 fault; 2 users, 1 key, 2 links, 3 challenges; 2 identities, 2 tabs, 3 accounts, 2 sign-ins, 1 failure | `TournamentInv`, `CommunityInv`, `CustodyInv`, `LinkingInv`, `AccountInv` |
| `lobby` | 2 players who queue twice at most, 2 workers, lobbies of 2, 1 failure; 3 drivers and 2 bots, room for 3, a race of 3 ticks at most, one driver who may drift above the ceiling | everybody matched once and served; grid closed, report true and accepted within the limits, every race ends |
| `lobby_split` | the same with 2 rooms | a violation, section 5 |
| `client` | 6 ticks over 3 gates and 2 laps; 4 frames against 4 room ticks, 2 messages in flight, a history and a queue of 2, inputs less than 3 ahead; 2 listings, buyer by the panel, seller by hand, 2 clicks; 3 runs of the scripts, 1 edit of the contract | `DrivingInv`, `NetcodeInv`, `FundsFlow`, `PanelInv`, `SetupInv` |
| `player` | 2 wallet accounts, 1 payment, 3 loads, 1 switch, 1 fault; 3 views of a race, credits that go to 0 or 3 once by something else; 1 pedal with 2 keys, the wheel, the overlay; 2 things on each page, 2 calls (garage 3), 3 loads; 6 frames of effects | `XlmPanelInv`, `RaceViewInv`, `InputInv`, `PagesInv`, `EffectsInv` |

Why the bounds are enough. Pools, keys, journals, listings and cards are independent
but for the balances, so one or two of each lose nothing; the ledger run has four
journals that share a balance, the market two listings so that one car can be listed
twice. Two actors of a kind is what a race between them takes, and each run has two
(two calls, two sweeps, two threads, two processes, two tabs). Three jobs in Custody
let one process restart between the calls of another; three loads and three views let
an answer be late by more than one. Credits move otherwise once, in the first or second of
the three views (`FewTrades`), so that a later view can see what was left of it; one pedal
with two keys has every case of a pedal, as pedals share nothing. One late bet beside one
that is not makes a settlement that leaves one out. Three handlers are all the room ever starts.
Stakes of 50 and 73 make shares that do not divide, prices of 20 and 39 fees that do
not; the code's limit of 50 000 adds nothing, as TLC's integers and the code's bigints
do not overflow there. In `betting` one racer is classified, so that the handler's own
loops are short and the interleavings of three workers fit; those loops are the
subject of `answers`. `MaxClock = 6` lets an envelope be built, expire, be ruled
FAILED, and a second one do the same. Six ticks of at most 2 take a car past the
line of a 6 long track and back and over it again. A ring of 3 marks and a pool of 4
puffs are overrun within 6 frames unless they are as large as their life asks. The
proofs remove the bounds for the results of section 4.

CHECK_DEADLOCK is off where calls end, views are left or counters run out and
nothing else happens; in Betting and ChainTx a sweep can always go on, so it is on.

Fairness. `LedgerTx`: a call that began goes on; abandoned calls are faults.
`RaceIngest`: a running handler goes on. `Withdrawal`: a call that waits goes on, or
its process dies. `ChainTx`: the sweep timer fires, the lock's TTL ends, time passes,
Horizon ingests; strong fairness says that Horizon does not fail every lookup of one
row for ever. Nothing is asked of requests. `Betting`: time passes, a placed bet's
handler and a worker go on, the sweep timer fires; strong fairness says that the
ledger does not refuse the payout of one pool for ever. Crashes are off in that run:
the code cannot recover from a crash after the claim (section 5); nor does a refund
fail, for the same reason. `Matchmaking`: time passes, the lock expires, and a worker
ticks as long as it runs (its `setInterval`). `RaceRoom`: the countdown's timer and the
simulation interval fire. Nothing is asked of players: who stays in a room may never
finish.

## 4. Proofs

Each proof module extends the components it is about. Its first section states the
inductive invariant; then come lemmas about the shapes of records (what a step leaves
of them), one lemma per action, and the theorem, which puts them together.

`LedgerTxProof`, for any journals, players, calls and number of attempts:
`TypeCorrect`; `NeverOverdrawn`; `RepliesAreTrue`; `Implementation` (LedgerTx
implements Ledger). The invariant adds to the types and the two properties that
a transaction at `commit` found its debits covered when its snapshot was taken,
and that whatever has been taken from an account it debits since then is in
`since`: so the absence of a conflict means the debits are still covered.

`ChainTxProof`, for any keys, requests, sweepers and envelopes, and any time-outs
with `Lag <= Buffer`, assuming quiet retries and single delivery (`Quiet`):
`Invariance`, `NeverPaidTwice`, `AnswersAreTrue`, `Implementation`. `TypeCorrect`
needs no such assumption. The invariant (`ChainTxInv`): a row records one envelope;
every other envelope of its key is spent (refused, failed, or past its time bounds),
and a FAILED row's is spent too. That FAILED is final is a part of what makes it
inductive: Horizon indexes before the buffer is over, so a ruling of FAILED by expiry
is about an envelope that can no longer be included.

`BettingProof`, for any race, pools, bets, stakes, reports and sweeps, with crashes
and faults anywhere and with hidden effects everywhere but in the payout and in the
creation of a bet (`Certain`, which section 5 shows to be necessary): `Invariance`,
`BooksAlwaysAgree`. The invariant (`BettingInv`) says that a worker that owns a pool
owns it alone, and that the pool's status says for what: SETTLED while it is to be
paid, VOIDED while it is to be refunded (`OwnerInv`). A pool with a journal keeps the
status of that journal for good, and its owner, if it has one still, is writing rows
(`JournalInv`), from the very shares it posted (`WriterInv`). It is the status-guarded
claim (`updateMany` with the old status) that makes owners unique: with a plain
`update`, `ClaimUnguarded`, the invariant breaks. Stakes are opaque to this proof; the
share of a bet is a function of what its worker read, which nobody else changes.

The same module proves what a pool pays, for any stakes, on top of that invariant:
`FairInvariance`, `PoolsPayRightly`. Bets may come late and orders be read half stored. They
add that there are finitely many bets, and `PoolsPayRightly` that a stake is worth a credit
after the rake (`StakesCount`, true of a `MIN_STAKE` of 50 at 500 basis points). The
invariant (`FairInv`): what is stored of the order, and so what anybody reads of it, is its
top, for the handlers go through the report by position (`TopPlaces`, `StoredInv`); a worker
settles a pool by the bets and the order it had read when it claimed it (`ReadAll`); what is
`won` is the share those bets and that order give, and what is `refunded` is the stake
(`PaidShares`, `RefundedStakes`). From `TopPlaces` it follows that the winner of a half
stored order is the winner of the race, and that a podium read from it lacks only racers
that were not stored yet: what `PaidByFinish` says. The shares are floored one by one: that
together they miss the net pool by less than a credit each, and never exceed it, is
`FlooredShares`. `StakesAreNotLost` needs none of these; its hypotheses are the three
events after which the code cannot give a stake back: the posting of the stake fails after
its effect, the refund fails too, or the process dies between them.

`SumsProof` is the library for these and the two other sums. A sum is a fold over a set,
and library induction is out of reach; so `SumOf(f, S)` is shown to be the size of a finite
set of blocks, one for each unit of each member (`SumIsSize`). From that follow how a sum
changes when one member comes, goes or changes (`SumStep`, `SumGains`, `SumLoses`), how two
sums compare (`SumBelow`), and how much `n` members can make (`SumCapped`). A set of
naturals that is not empty has a least element (`LeastOf`): `BySubsets` uses it in place of
induction over finite sets.

Market, in `ServicesProof`, for any traders, cars, listings and threads, with lost answers and
crashes: `MarketInvariant`, `MarketIsFair`, `CarsArePaidFor` (an action property). The
invariant says who may be inside a listing. The claim (ACTIVE to FILLED, conditionally)
lets one buyer in; once his payment is posted and answered nobody else can be
(`AckedClosed`), so no second one is (`AckedOnce`); after the seller was checked, the
car has gone only by another listing of it that was paid (`SellerStill`), which is the
one excuse for a buyer without his car. For upgrades: the tiers below the one being
bought are fitted or paid on their way (`TiersOnWay`), though the tier itself may drop.

`AnswersProof`. RaceIngest, for any race and number of reports. `IngestInvariant` and
`RepIsGivenOnce` and `ResultsAreWhole` assume that the room's fetch does not give up on a
running handler of a matchmade race (`"open" \notin Overlap`; section 5 says what happens
then), and hold whatever await fails: a handler that fails past the end of the race is
broken, and those it had not come to (`Lost`) are the only ones an acknowledged report may
leave unrewarded. The invariant: two handlers never both get past the end of the race
(`OneHandler`, by the conditional update, or by the key of the row that is created),
whoever has been visited has a position, a reward and rep, whoever has not has none
(`OrderOK`, `PaidOK`, `RepOK`). Withdrawal, for any players, processes, requests,
limits and funds: `WithdrawalInvariant`, `WithdrawalIsSafe`. The head of a chain is the
only call of its player and process that has begun (`FirstRuns`), so who has passed
the first check stays alone with its row (`Checked`, `OneRow`); a process that has the player to
itself finds the balance as it was checked (`Backed`); an answer other than an error is given after
the row says so (`AnswersAreTrue`); and the day's withdrawals with
those past the limits check are the limit and one for every other process at most
(`CountRoom`: a step moves one request at most between the two sets). `DailySumIsCapped`
says the same of USDC, with the greatest amount for every other process (`SumRoom`); it
assumes that there is a greatest amount.

Driving, in the same module, for any track with its gates at equal distances
and any driving: `DrivingIsHonest`. The loop over the gates is a recursive function; that
it stops at the first gate that is not reached is shown by exhibiting a function that
satisfies its equation and the least gate that stops it (`LoopEnds`; library induction is
out of reach, see `LobbyProof`). So the gates crossed are those up to the furthest
progress, `high * Gates \div L` of them (`GateFormula`), whatever jumps there were; a jump costs two
clamped ticks at most (`ProgressStep`). For points, every step of a car `Keeps` score and
chain up to what it says was slid or lost, and fills a bottle for `PerBottle` points.

Netcode, in the same module: `NetcodeIsSound`, for any physics, any sizes of history,
queue and buffer, and any delays. The invariant: the history holds the last frames,
each predicted from the one before (`HistoryOK`); acknowledgements arrive in the order
in which the room used the inputs (`AcksOK`); frames on their way are the last that were
sent, and those in the queue are newer than the last one used, in order (`FramesOK`); the replay
log is in order and ends with the last one used (`ReplayedOK`). As long as nothing was lost
(`SmoothOK`) the room is where the inputs lead from the grid (`Course`), what it sends says
so, and so the prediction is where they lead too: rewinding to a snapshot and replaying
the rest (`Replays`) and keeping the prediction (`Kept`) come to one thing there. For other
cars, the snapshots that are kept are the last ones, and those forgotten are older than
`KeepFor` (`RemoteOK`): none is missed as long as they come at most `KeepFor - Delay` apart.

`ServicesProof`. `LinkingIsSound`: a challenge that waits was taken by nobody, one that was
taken was taken once, by a call for its user that has it still (`ChallengeOK`), and a row
is the doing of a call that said so (`RowsOfLinked`). `CustodyIsSound`: the network
includes only what a call that waits for it, or has failed, has sent (`SentOK`), one
transaction at a time (`OneSent`); so what a call is told of is its own, and an account
that it goes on with is trusted (`TrustedOK`), as trustlines are never removed: the cache
is true although it is never read again. `CommunityIsSound`: the members of a faction and
those let through to join it are `MaxMembers` and the other calls at most (`RosterRoom`, a
count as for the bracket); a fee that is neither refunded nor excused is a faction's or in
a call's hands (`FeesOK`), and a key that is used again, or whose row may exist although
its creation failed, is `doubtful` from then on; the transaction of an award commits only if the scores are still
those it read, so none is lost (`TurfOK`). `AccountIsSound`: what a tab waits for was asked
for under the token it has (`TabOwn`, a predicate of one tab's record, which no other tab
can disturb); a sign-in that is about to upgrade a guest finds it a guest, or raced
another one (`UpgradesOK`). `TournamentInvariant`, `TournamentIsFair`, for any
entrants, calls, bracket and fee: a registration that is about to pay was counted while there was
room, so the entries and those about to enter are `BracketSize - 1` plus the number of
calls at most (`RoomLeft`, a count of threads by their label); late fees use up calls
that were under way in the same manner (`LateRoom`). One settling call has the
tournament to itself (`OneSettles`), a payout that was answered ends it (`PaidIsFinal`),
and the one call that sends prizes goes by the ranking that was paid (`Dispersing`).
`WalletTellsTheTruth`, for any accounts, payments and switches: while no balance is
overtaken one load is under way at most, it is that of the address on show unless that was
disconnected, and once read it counts all that was told before (`Current`); a payment
that awaits its balance was made, and its load is of its sender (`PaymentsOK`, `LoadsOK`).

`LobbyProof`. Queues and grids are lists that are filtered (`Collections`), so this module
begins with what filtering leaves: the kept entries, each at a place of its own, in
their order (`WithoutKeeps`). The library's induction cannot be instantiated here; the
lemma `Least` stands in for it (a set of naturals that is not empty has a least element,
from the well-foundedness of `<`): the lengths up to which the recursive function fails
to be defined, or to keep, have no least one. `MatchmakingInvariant`, `PlayersAreSeated`,
for any players, workers and lobby size, with failing scans and expiring locks: who is
owed a ticket is queued, in some worker's hands, or has it (`Remembered`); as long as no
scan outlives its lock one worker at most has anybody in hand (`OneScan`), so tickets
given, tickets in hand and places in the queue add up to the times a player queued
(`SeatsDue`). `RoomInvariant`, `RoomsAreInOrder`, `RacesAreFair`, for any drivers, bots with
distinct keys (`bot:<i>`) and rooms: the grid of a lobby nobody has left is numbered in
the order of joining (`InOrder`), so the bots' slots go on where the humans' end
(`Starts`); nobody has a time past the clock (`GridOK`), so the report's times are within
what the API allows, if they and the points are within its limits; a ranking is a permutation that is sorted by time (`Ranks`), so the
cars ahead of a place are among those before it and can be counted (`EntriesFair`).

`ClientProof`. `PanelTellsTheTruth`, for any wallets, offers, panels and steps of the
chain. A transaction is told apart by its panel and click (`ClicksOK`); one that was sent
is not yet made, and its panel polls for it or has given up (`WireOK`); so `SUCCESS`
means made, and an error means neither made nor on the wire unless the panel gave up
(`Own`). Listings only end (`Older` is kept by every step), so what is shown is the
listing typed as it is or as it was before it ended, unless the id was typed over while
something was loading (`Shows`). `FundsFlowRightly`: each step moves one listing's amount
into, between or out of the sums by which a balance is told (what is for sale, what was
bought, sold or taken back), and a fee is at most its price (`FlowIInv`). No balance is
assumed: it starts from what the wallets hold, and a buyer who lacks the price is refused.

The same module holds five theorems about the browser and the scripts. `CarsObey`: a hook
that is not mounted hears no key, so `InputInv` is inductive with that, and with the
touch stick being none of the pedals (`RaceInputAssumption`). `ViewShowsItsRace`:
the store was written by the view on screen or by one before it whose session was not over
when it was entered (`Written`), and while a race began with all earlier ones settled and
nothing else moved the credits, they have gained nothing or its reward (`Undisturbed`). `EffectsAreOwn`: a puff has at most as many frames left as pass
before the cursor comes round to it (`SmokeOK`); that needs half the pool to outlive the longest
puff, which sixty puffs, a pair every third frame and 84 frames do (`EffectsAssumption`).
`SetupIsWhole`: what a run has made sure of stays so whatever others do (`Doing`), what it
has read stays so while no other runs (`Alone`), and a contract in `.env` was initialised
by a run that is over (`FileOK`). `PagesKeepUp`: a load has seen what was answered before
it was asked for (`ReadOK`), so the last one asked for, once shown, shows it all; a list
that has seen every upgrade of a slot has the slot's tier (`Matches`), so an upgrade asked
for with nothing else out, and joined by none, finds the tier its button named
(`AloneOK`); a busy button belongs to a call that is out (`ButtonsOK`) and, but for the
two named exceptions, a call that is out has its button (`CallsOK`).

Only model-checked: liveness (`PostEnds`, `Settles`, `EveryoneRewarded`,
`EveryBetSettles`, `Answered`, `Served`, `RaceEnds`), which the prover does not handle under
fairness. Every invariant and every action property of the passing runs has a theorem.

## 5. Disagreements with comments

`lobby_split` is kept as a violation run: a driver who is ready locks the room before
the next one of the same match has joined, who gets a room of his own
(`RaceRoom.ts:318` against `apps/realtime/src/index.ts:27-28`).

The rest was met while modelling. Some are settings of the constants that break a
property, for which no run is kept; the others are what a property's exception is for.

Money:

- `ChainTx`, `Retries = "any"`: two retries of a FAILED key re-arm it together and pay
  twice (`PaidAtMostOnce`); with two sweeps a late ruling overwrites a row that was
  re-armed (`FailedIsFinal`); `Redelivery = TRUE`: a redelivered envelope is refused, the
  row becomes FAILED, and the first delivery pays (`FailedMeansUnpaid`).
- `LedgerTx`: a repeated post of a journal in the ledger throws "insufficient" when
  the balance is gone since, for the balance is checked before the unique key is
  (`ledger.service.ts:44` against the comment at line 70).
- `Betting`: a bet that was let in while the pool was OPEN may come after the green light,
  and after the pool was read to be settled: then it is never settled, nor its stake returned
  (the exception `LeftOut` of `EveryBetSettles`); a crash after the claim strands the pool,
  and so does a failing refund, for the pool is VOIDED before it (`EveryBetSettles`); a sweep
  between `endedAt` and the last upsert settles a podium by an order that lacks places, and
  passes over those who backed them (the exception of `PaidByFinish`); `Unacked` with a payout:
  an answer that is an error is followed by a refund under the other key
  (`SettledOnce`); with a creation: the stake of a bet whose row exists goes back.
- `RaceIngest`: a fault after `endedAt` loses the rewards of those the handler had not come
  to, for the retry is acknowledged (the exception `Lost` of `AckMeansRewarded`); a retry during a slow handler of a matchmade race awards rep
  twice (`RepOnce`).
- Verifier: the drift ceiling of 25 points a second (`replay-verifier.service.ts:57`,
  "14 pts/s at peak") is below the 29 and more that a second of drift within the window scores (`carSim.ts:133`), so
  an honest report of a race with much drifting is refused, and with it the whole race is
  unrewarded, against "even spamming perfect drifts can't exceed this" (53) (the exception of
  `HonestReportPasses`);
  `MAX_THEORETICAL_SPEED` is below the cars' and unused; the best-lap check never
  bites, as the room sends none. The table at `districts.service.ts:9-16` lacks two
  tracks, although `tracks.ts:8-9` says that ids must stay in sync.
- Wallet: a withdrawal may answer an error although its money has moved or will
  (`wallet.service.ts:194`: the writes at `chain-tx.service.ts:101`, 105 and 128 throw), and
  a caller who tries again withdraws under a new random key (196); "Cross-instance safety comes from the DB-side hasUnsettledWithdrawal guard"
  (`wallet.service.ts:24-25`) does not hold for two processes, and "we fail it cleanly
  here instead" (117) ends in an unhandled rejection of `run.finally()` (129-131). Two
  users who link one key together are both told so; a wrong signature uses up the
  challenge; of two calls that set one trustline the second fails; an airdrop whose
  answer was lost and that is called again mints twice; any error of `loadAccount`
  counts as "no account"; a sponsored account on mainnet (296-323) has no balance to pay
  for its trustline.
- Market: one car can have two ACTIVE listings (`list`, 52-57); an upgrade is written
  for the tier that was read (`garage.service.ts:69`), so a tier may drop and be bought
  again at no further charge, for its key is used.
- Tournaments: one without a fee has no registrants, so `settle` refuses it for ever;
  `settle` reads the registrants before its claim and does not ask the status;
  `void this.disperseUsdcPrizes` leaves a rejection unhandled.
- Factions: the refund's key is shared by all attempts, so a second attempt after a
  refund founds free of charge or keeps the fee (64, 82-90), and so does one after the first
  faction of that name is gone (the exception `doubtful` of `FeeBuysFaction`); "Promote another officer to
  Boss before leaving" (114) is impossible (129); a boss can demote himself; a solo boss
  cannot disband (RESTRICT, `migration.sql:389`).

Races:

- Matchmaking: a ticket serves for two sessions until it expires; `pollTicket`'s `del` may
  delete a newer one; the track in the queue's body is ignored.
- Room: `onLeave` while WAITING does not look at readiness again; `gridSim(racers.size)`
  gives a slot twice after a departure; a finisher who leaves before the close is dropped
  from the report; a race left by all its racers, with a spectator, never finishes; the
  rooms of a split match report one race; who comes late to a reserved seat becomes a
  spectator; after the finish frames are not acknowledged (252).
- Track: a grid slot is 6 m before the line with no progress; `MAX_DS` clamps jumps, where
  the comment says that they are ignored.
- Netcode: a prediction is held if position and yaw agree, whatever speed and nitro are;
  with more than `MAX_HISTORY` inputs pending the rewind replays too few; forgotten
  snapshots show after a stall of nearly their life; the replay log lacks neutral ticks.

Accounts and client:

- Two sign-ins that upgrade one guest overwrite each other (`auth.service.ts:13-14`); an
  outage throws away a signed-in session (`SessionProvider.tsx:22`); the landing page with
  an empty storage races `createGuest`; a connection makes a guest of its own
  (`onlineSession.ts:75-80`).
- Escrow: an answer fetched for one id is shown under the one typed since, and the button
  acts on the latter (`escrow-panel.tsx:50`, 69); an unfinished poll says "did not
  succeed" of a trade that may still be made; `buy` has no expiry check; the event is
  "canceld" (`lib.rs:185`) and not "cancelled" (14).
- Race view: a late connection or a room being left writes over the store of the next
  race; the rewards of a second race are not asked for again; credits before the race may
  be stale, and what a sale, a settled bet or a purchase moves during the race counts as
  earned in it, or hides what was (`OnlineRace.tsx:85`, 120-122).
- Input: the touch stick is inverted against the keyboard (`TouchControls.tsx:56`,
  `useInput.ts:31`); keys held when the car leaves the screen, or the window its focus,
  stay on, as do controls whose overlay is hidden under the finger; a joystick hidden so
  takes no finger any more until the page is left (`TouchControls.tsx:35`).
- Effects: `active` and `carYaw` are values of `PlayerCar`'s last render (150-151), so smoke
  and marks start and stop late or never; the emission gate of 0.04 s contradicts "2 per
  frame at 30fps"; puffs and marks are recycled while visible at high frame rates;
  unmounting silences the shared master gain and nothing raises it again.
- Wallet panel: an older balance may overtake a newer one; a lost answer is told as a
  failure; a late address arrives after a disconnect.
- Pages: a button is free before the page shows what it did; the garage has one flag for
  all slots; a tab switch or a poll takes a busy card away; the older of two loads may
  stay; one's own listing may have BUY, when `mine()` failed.
- Scripts: "Re-run: safe" replaces `STELLAR_MASTER_SEED`; the deployment patches
  `MARKETPLACE_ESCROW_CONTRACT_ID`, and the client reads `NEXT_PUBLIC_...`
  (`contract.ts:31`); "using unoptimized WASM" may deploy an older optimized one; a deploy
  beside a bootstrap restores the old `.env`.

## 6. Plan

Done: every component of section 1 has a model but for the parts below, and every safety
property the runs check is proved.

Left, in the order of what it would tell: the batch of 50 rows that a sweep of the chain
reconciler takes (rows that stay unresolved may keep later ones from being looked at);
sponsored accounts on the main network; the room's check of a join ticket, which the
models take for granted.

Not modelled and why: the car physics (floating point), scenery and layout (no state that
a step could leave wrong), catalogs and domain tables (constants), HTTP routing and
validation, profile reads, CI. ReputationService's level and tier are functions of sums;
`dev-start.sh` starts processes
and keeps nothing.

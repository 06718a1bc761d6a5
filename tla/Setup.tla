-------------------------------- MODULE Setup --------------------------------
(***************************************************************************)
(* The scripts that set a testnet up: testnet-bootstrap, that makes the    *)
(* accounts and writes .env, and deploy-marketplace-escrow, that builds,   *)
(* deploys and initialises the contract and patches its id into .env.      *)
(* They are run again and again, die between any two steps, and nothing    *)
(* keeps two of them apart.  External: friendbot, Horizon, cargo and the   *)
(* stellar command.                                                        *)
(***************************************************************************)
EXTENDS Naturals, FiniteSets

CONSTANTS
  Bootstraps, Deploys,    \* runs of either script; the keys a run makes are named after it
  NoOne, Circle,          \* an empty entry; the issuer a deploy falls back on
  MaxRuns, MaxEdits       \* bounds

Runs == Bootstraps \cup Deploys
Roles == {"sponsor", "issuer", "house"}

ASSUME SetupAssumption ==
  Bootstraps \cap Deploys = {} /\ {NoOne, Circle} \cap Runs = {} /\ NoOne # Circle

VARIABLES
  run,         \* where each run is, and what it has read
  env,         \* .env: whose keys it holds, and the contract id
  backups,     \* .env.backup-*
  funded,      \* accounts on the chain
  contracts,   \* on the chain: the code, and the issuer init was given
  wasm,        \* what the build directory holds, NoOne for no file
  edits,       \* versions of the contract's source
  written, overlapped   \* ghosts: every .env there was; two runs at once

setupVars == <<run, env, backups, funded, contracts, wasm, edits, written, overlapped>>

NoFile == [keys |-> NoOne, contract |-> NoOne]

InitSetup ==
  /\ run = [r \in Runs |-> [at |-> "idle"]]
  /\ env = NoFile /\ backups = {} /\ written = {}
  /\ funded = {}
  /\ contracts = [d \in Deploys |-> [code |-> NoOne, issuer |-> NoOne]]
  /\ wasm = [built |-> NoOne, optimized |-> NoOne]
  /\ edits = 0 /\ overlapped = FALSE

Step(r, from, to) == run[r].at = from /\ run' = [run EXCEPT ![r].at = to]
Running(r) == run[r].at \notin {"idle", "over"}
Write(file) == env' = file /\ written' = written \cup {file}

StartRun(r) ==
  /\ Cardinality({s \in Runs : run[s].at # "idle"}) < MaxRuns
  /\ Step(r, "idle", IF r \in Bootstraps THEN "backup" ELSE "fund")
  /\ overlapped' = (overlapped \/ \E s \in Runs : Running(s))
  /\ UNCHANGED <<env, backups, funded, contracts, wasm, edits, written>>

\* A throw, or the end of the process.
Dies(r) ==
  /\ Running(r)
  /\ run' = [run EXCEPT ![r] = [at |-> "over"]]
  /\ UNCHANGED <<env, backups, funded, contracts, wasm, edits, written, overlapped>>

-----------------------------------------------------------------------------
(* testnet-bootstrap.                                                      *)
BackUp(b) ==
  /\ Step(b, "backup", "friendbot")
  /\ backups' = IF env = NoFile THEN backups ELSE backups \cup {env}
  /\ UNCHANGED <<env, funded, contracts, wasm, edits, written, overlapped>>

\* Three calls side by side.
Friendbot(b, role) ==
  /\ run[b].at = "friendbot" /\ <<b, role>> \notin funded
  /\ funded' = funded \cup {<<b, role>>}
  /\ UNCHANGED <<run, env, backups, contracts, wasm, edits, written, overlapped>>

\* Mutant of WaitForAccounts: Promise.race for Promise.all.
WaitForOne(b) ==
  /\ Step(b, "friendbot", "write")
  /\ \E role \in Roles : <<b, role>> \in funded
  /\ UNCHANGED <<env, backups, funded, contracts, wasm, edits, written, overlapped>>

WaitForAccounts(b) ==
  /\ Step(b, "friendbot", "write")
  /\ \A role \in Roles : <<b, role>> \in funded
  /\ UNCHANGED <<env, backups, funded, contracts, wasm, edits, written, overlapped>>

\* A new file, with new keys and no contract.
WriteEnv(b) ==
  /\ Step(b, "write", "over")
  /\ Write([keys |-> b, contract |-> NoOne])
  /\ UNCHANGED <<backups, funded, contracts, wasm, edits, overlapped>>

-----------------------------------------------------------------------------
(* deploy-marketplace-escrow.                                              *)
FundDeployer(d) ==
  /\ Step(d, "fund", "build")
  /\ funded' = funded \cup {<<d, "deployer">>}
  /\ UNCHANGED <<env, backups, contracts, wasm, edits, written, overlapped>>

Build(d) ==
  /\ run[d].at = "build"
  /\ run' = [run EXCEPT ![d] = [at |-> "optimize", source |-> edits]]
  /\ wasm' = [wasm EXCEPT !.built = edits]
  /\ UNCHANGED <<env, backups, funded, contracts, edits, written, overlapped>>

\* The tool may be missing: then what an earlier run has optimized stays where it is.
Optimize(d) ==
  /\ run[d].at = "optimize"
  /\ \E works \in BOOLEAN :
       /\ wasm' = IF works THEN [wasm EXCEPT !.optimized = wasm.built] ELSE wasm
       /\ run' = [run EXCEPT ![d] = [at |-> "deploy", source |-> @.source, optimized |-> works]]
  /\ UNCHANGED <<env, backups, funded, contracts, edits, written, overlapped>>

WasmToUse == IF wasm.optimized # NoOne THEN wasm.optimized ELSE wasm.built

DeployContract(d) ==
  /\ Step(d, "deploy", "resolve")
  /\ contracts' = [contracts EXCEPT ![d].code = WasmToUse]
  /\ UNCHANGED <<env, backups, funded, wasm, edits, written, overlapped>>

Issuer(file) == IF file.keys = NoOne THEN Circle ELSE file.keys

Resolve(d) ==
  /\ run[d].at = "resolve"
  /\ run' = [run EXCEPT ![d] = [at |-> "init", source |-> @.source, optimized |-> @.optimized, usdc |-> Issuer(env)]]
  /\ UNCHANGED <<env, backups, funded, contracts, wasm, edits, written, overlapped>>

InitDeployed(d) ==
  /\ Step(d, "init", "patch")
  /\ contracts' = [contracts EXCEPT ![d].issuer = run[d].usdc]
  /\ UNCHANGED <<env, backups, funded, wasm, edits, written, overlapped>>

\* patchEnv reads the file, and writes it back with the id.
ReadEnv(d) ==
  /\ run[d].at = "patch"
  /\ run' = [run EXCEPT ![d] = [at |-> "rewrite", source |-> @.source, optimized |-> @.optimized, content |-> env]]
  /\ UNCHANGED <<env, backups, funded, contracts, wasm, edits, written, overlapped>>

Rewrite(d) ==
  /\ Step(d, "rewrite", "over")
  /\ Write([run[d].content EXCEPT !.contract = d])
  /\ UNCHANGED <<backups, funded, contracts, wasm, edits, overlapped>>

\* Somebody works on the contract.
EditContract ==
  /\ edits < MaxEdits /\ edits' = edits + 1
  /\ UNCHANGED <<run, env, backups, funded, contracts, wasm, written, overlapped>>

NextSetup ==
  \/ \E r \in Runs : StartRun(r) \/ Dies(r)
  \/ \E b \in Bootstraps : \/ BackUp(b) \/ (\E role \in Roles : Friendbot(b, role))
                           \/ WaitForAccounts(b) \/ WriteEnv(b)
  \/ \E d \in Deploys : \/ FundDeployer(d) \/ Build(d) \/ Optimize(d) \/ DeployContract(d) \/ Resolve(d)
                        \/ InitDeployed(d) \/ ReadEnv(d) \/ Rewrite(d)
  \/ EditContract

-----------------------------------------------------------------------------
\* The keys in .env are those of accounts that exist.
EnvIsFunded == env.keys # NoOne => \A role \in Roles : <<env.keys, role>> \in funded

\* The contract that .env names is initialised, and its USDC is that of the issuer in .env,
\* however runs die, unless two ran at once.
EnvNamesEscrow ==
  env.contract # NoOne =>
    /\ contracts[env.contract].issuer # NoOne
    /\ ~overlapped => contracts[env.contract].issuer = Issuer(env)

\* "existing .env is backed up first": no file is lost, but to a run beside it.
\* What a deploy adds to a file is not another file: keys are what matters.
NoKeysLost ==
  ~overlapped => \A file \in written : \/ \E kept \in backups \cup {env} : kept.keys = file.keys
                                       \/ file.keys = NoOne

\* What is deployed is what this run has built, unless it could not be optimized while an
\* older optimized build lay there, or two ran at once.
DeployedIsBuilt ==
  \A d \in Deploys : ~overlapped /\ run[d].at \in {"resolve", "init", "patch", "rewrite"} /\ run[d].optimized =>
    contracts[d].code = run[d].source

\* The .env that the scripts leave is one the system can start with, whichever ran, in
\* which order, and wherever they died.
SetupInv == EnvIsFunded /\ EnvNamesEscrow /\ NoKeysLost /\ DeployedIsBuilt
=============================================================================

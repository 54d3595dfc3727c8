----------------------------- MODULE Deployment -----------------------------
(***************************************************************************)
(* scripts/devnet-init.mjs and ops/handoff/apply-manifest.mjs: a script    *)
(* that initialises configuration accounts one by one, creates the mints   *)
(* of the stand-in assets and lists them, keeping what it did in a         *)
(* manifest file, and a second one that copies the manifest into the       *)
(* repository.  Transactions may land without an answer, the script may    *)
(* die anywhere and is run again, and the next run may start from a clean  *)
(* checkout, where the manifest is not.                                    *)
(***************************************************************************)
EXTENDS Naturals, Sequences, FiniteSets

CONSTANTS
  TopUp,      \* the transfer of rent to the governance signer
  Configs,    \* the configuration accounts, in the order they are initialised
  Registry,   \* the one of them that lists assets
  Assets,     \* the symbols, in the order they are listed
  Mints,      \* mint addresses that may be created
  Attempts,   \* how often a transaction is sent (5 in the code)
  Checkouts,  \* bound on the clean checkouts
  Faults,     \* bound on lost answers and interruptions
  Nothing     \* null, or a placeholder of the repository

Symbols == {Assets[i] : i \in DOMAIN Assets}
Plan == <<TopUp>> \o Configs \o Assets

ASSUME DeploymentAssumption ==
  /\ Attempts \in Nat \ {0} /\ {Checkouts, Faults} \subseteq Nat
  /\ Configs \in Seq({Configs[i] : i \in DOMAIN Configs}) /\ Assets \in Seq(Symbols)
  /\ Nothing \notin Mints \union Symbols
  /\ \A mints \in [Symbols -> Mints \union {Nothing}] : Nothing # mints
  /\ \E i \in DOMAIN Configs : Configs[i] = Registry
  /\ \A i, j \in DOMAIN Plan : Plan[i] = Plan[j] => i = j

VARIABLES
  script,    \* Nothing or the running script: step, phase, attempts left, what it has read
  chain,     \* accounts: initialised ones, each mint's symbol, the listed mints
  repo,      \* manifest file, mints of devnet.json, mints of the frontend
  checkouts, \* clean checkouts so far
  faults,    \* lost answers and interruptions so far
  lost       \* history: symbols whose mint only a manifest left behind knew

deploymentVars == <<script, chain, repo, checkouts, faults, lost>>

NoMints == [s \in Symbols |-> Nothing]

DeploymentInit ==
  /\ script = Nothing
  /\ chain = [done |-> {}, mints |-> [m \in Mints |-> Nothing], listed |-> {}]
  /\ repo = [manifest |-> Nothing, config |-> NoMints, frontend |-> NoMints]
  /\ checkouts = 0 /\ faults = 0
  /\ lost = {}

Known(manifest) == IF manifest = Nothing THEN NoMints ELSE manifest

In(phase) == script # Nothing /\ script.phase = phase

Item == Plan[script.step]

Start ==
  /\ script = Nothing
  /\ script' = [step |-> 1, phase |-> "check", left |-> Attempts,
                mints |-> Known(repo.manifest), config |-> repo.config]
  /\ UNCHANGED <<chain, repo, checkouts, faults, lost>>

(* The mint an asset is listed under: the configured one, else the one of  *)
(* the manifest if its account exists.                                     *)
Reusable(s) ==
  IF script.config[s] # Nothing THEN script.config[s]
  ELSE IF script.mints[s] # Nothing /\ chain.mints[script.mints[s]] # Nothing
       THEN script.mints[s] ELSE Nothing

RememberMutant(m) ==
  /\ script' = [script EXCEPT !.mints[Item] = m, !.phase = "check", !.left = Attempts]
  /\ UNCHANGED repo

(* The manifest is saved before the asset is listed.                       *)
Remember(m) ==
  /\ script' = [script EXCEPT !.mints[Item] = m, !.phase = "check", !.left = Attempts]
  /\ repo' = [repo EXCEPT !.manifest = script'.mints]

UseMint ==
  /\ In("mint")
  /\ Reusable(Item) # Nothing /\ Remember(Reusable(Item))
  /\ UNCHANGED <<chain, checkouts, faults, lost>>

CreateMint ==
  /\ In("mint") /\ Reusable(Item) = Nothing
  /\ \E m \in Mints :
       /\ chain.mints[m] = Nothing
       /\ chain' = [chain EXCEPT !.mints[m] = Item]
       /\ Remember(m)
  /\ UNCHANGED <<checkouts, faults, lost>>

PresentMutant(item) == FALSE

Present(item) ==
  IF item \in Symbols THEN script.mints[item] \in chain.listed ELSE item \in chain.done

Advance ==
  script' = IF script.step = Len(Plan) THEN Nothing
            ELSE [script EXCEPT !.step = @ + 1, !.left = Attempts,
                    !.phase = IF Plan[script.step + 1] \in Symbols THEN "mint" ELSE "check"]

Skip ==
  /\ In("check") /\ Present(Item)
  /\ Advance
  /\ UNCHANGED <<chain, repo, checkouts, faults, lost>>

Missing ==
  /\ In("check") /\ ~Present(Item)
  /\ script' = [script EXCEPT !.phase = "send"]
  /\ UNCHANGED <<chain, repo, checkouts, faults, lost>>

(* External: what the cluster accepts.  A transfer can be repeated, an     *)
(* account is initialised once; a listing needs the registry, the mint and *)
(* a payer with the rent.                                                  *)
Acceptable(item) ==
  IF item \in Symbols
  THEN /\ script.mints[item] \notin chain.listed
       /\ chain.mints[script.mints[item]] # Nothing /\ {TopUp, Registry} \subseteq chain.done
  ELSE item \in chain.done => item = TopUp

Lands ==
  /\ Acceptable(Item)
  /\ chain' = IF Item \in Symbols
              THEN [chain EXCEPT !.listed = @ \union {script.mints[Item]}]
              ELSE [chain EXCEPT !.done = @ \union {Item}]

Confirmed ==
  /\ In("send")
  /\ Lands /\ Advance
  /\ UNCHANGED <<repo, checkouts, faults, lost>>

(* The retry of a transaction that had landed fails for good.              *)
Rejected ==
  /\ In("send") /\ ~Acceptable(Item)
  /\ script' = Nothing
  /\ UNCHANGED <<chain, repo, checkouts, faults, lost>>

Fault == faults < Faults /\ faults' = faults + 1

(* An error the script takes for transient is retried, any other ends it.  *)
RetryOrDie ==
  \/ script.left > 1 /\ script' = [script EXCEPT !.left = @ - 1]
  \/ script' = Nothing

(* No answer: the transaction may have landed nevertheless.  The creation  *)
(* of a mint may leave a mint nobody knows.                                *)
Unanswered ==
  /\ script # Nothing /\ script.phase \in {"send", "mint"}
  /\ script.phase = "mint" => Reusable(Item) = Nothing
  /\ \/ script.phase = "send" /\ Lands
     \/ UNCHANGED chain
  /\ RetryOrDie
  /\ Fault /\ UNCHANGED <<repo, checkouts, lost>>

(* Killed, or an unreadable answer of a plain query.                       *)
Interrupt ==
  /\ script # Nothing /\ script' = Nothing
  /\ Fault /\ UNCHANGED <<chain, repo, checkouts, lost>>

(* A mint the frontend already has must agree, or nothing is written; the  *)
(* mint of devnet.json is replaced.  The two files are written in turn.    *)
Apply ==
  LET manifest == Known(repo.manifest)
      Filled(file) == [s \in Symbols |-> IF manifest[s] = Nothing THEN file[s] ELSE manifest[s]]
  IN  /\ repo.manifest # Nothing
      /\ \A s \in Symbols :
           manifest[s] = Nothing \/ repo.frontend[s] \in {Nothing, manifest[s]}
      /\ \/ repo' = [repo EXCEPT !.frontend = Filled(@), !.config = Filled(@)]
         \/ repo' = [repo EXCEPT !.frontend = Filled(@)]
      /\ UNCHANGED <<script, chain, checkouts, faults, lost>>

Unapplied ==
  {s \in Symbols : Known(repo.manifest)[s] \notin {Nothing, repo.config[s]}}

(* The deploy workflow runs on a checkout; its manifest is an artifact     *)
(* that the next run does not download.                                    *)
Checkout ==
  /\ script = Nothing /\ checkouts < Checkouts
  /\ repo' = [repo EXCEPT !.manifest = Nothing]
  /\ checkouts' = checkouts + 1
  /\ lost' = lost \union Unapplied
  /\ UNCHANGED <<script, chain, faults>>

Proceed == UseMint \/ CreateMint \/ Skip \/ Missing \/ Confirmed \/ Rejected

DeploymentNext == Start \/ Proceed \/ Unanswered \/ Interrupt \/ Apply \/ Checkout

(* Whoever deploys runs the script again until it completes, and a script  *)
(* that nothing stops goes on.                                             *)
DeploymentFairness == WF_deploymentVars(Start) /\ WF_deploymentVars(Proceed)

DeploymentSpec ==
  DeploymentInit /\ [][DeploymentNext]_deploymentVars /\ DeploymentFairness

(***************************************************************************)
(* Properties.                                                             *)
(***************************************************************************)
ListedFor(s) == {m \in chain.listed : chain.mints[m] = s}

(* "The script can be re-run safely": however often it dies, and whatever  *)
(* landed unseen, a symbol is listed under one mint, unless the manifest   *)
(* that knew the mint was left behind before it was applied.               *)
OneListing == \A s \in Symbols \ lost : Cardinality(ListedFor(s)) <= 1

(* Re-running completes: a run that has begun is followed by one that      *)
(* leaves every account initialised and every symbol listed.  Nor does a   *)
(* mint the repository configures stay unlisted: the faucet and the deal   *)
(* form offer it as soon as it is applied, which can be before the script  *)
(* that created it has listed it.                                          *)
Deployed ==
  /\ \A i \in DOMAIN Configs : Configs[i] \in chain.done
  /\ \A s \in Symbols : ListedFor(s) # {}

ConfiguredListed ==
  \A s \in Symbols : repo.config[s] \in chain.listed \union {Nothing}

DeploymentCompletes ==
  /\ (script # Nothing) ~> Deployed
  /\ []<>ConfiguredListed
=============================================================================

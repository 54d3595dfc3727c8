# Persat Finance in TLA+

Persat Finance is a peer-to-peer lending protocol on Solana: a borrower posts
bitcoin collateral (tBTC or zBTC), a lender lends stablecoins for 6, 12 or 24
months. Eight Anchor programs hold the state. They never call each other: web
pages used by the two parties and by an operator send the transactions that move
a deal forward. Around them stand a Node backend and a PHP twin of it (sign-in,
deal links, offers, faucet, prices), the browser's own storage (profiles,
messages, listings), deployment scripts and a waitlist.

This directory holds TLA+ modules translated from the source, TLC configurations
that check them on small instances, and TLAPS proofs of the properties that
matter most, for every value of the constants.

## The system

| Component | State it keeps | Operations | Modules |
| --- | --- | --- | --- |
| `deal_registry` | one `Deal` per id; the three program authorities | initialize, propose, confirm, cancel, begin_funding, mark_active, close | `DealRegistry` |
| `escrow_vault` | one `Vault` per deal and its token account | initialize, deposit, lock, release, seize | `EscrowVault` |
| `loan_lifecycle` | one `Loan` per deal: schedule, payments, state | initialize config, activate, make_payment, repay_in_full, flag_default, mark_liquidated | `LoanLifecycle`, `PersatMath` |
| `liquidation_engine` | `Engine`: governance, oracle key, paused | initialize, pause, evaluate, partial, full | `LiquidationEngine`, `RiskMath` |
| `price_oracle` | `OracleConfig`: window, confidence bound, paused | initialize, three setters, read_price | `PriceOracle` |
| `governance` | signers, pause flag, counter; `Proposal`s | initialize, propose, approve, execute, pause, unpause | `Governance` |
| `fee_treasury` | fee rates, recorded totals | initialize, two setters, record fee | `FeeTreasury` |
| `asset_whitelist` | one record per mint with its risk parameters | initialize, add, update, (de)activate | `AssetWhitelist` |
| `persat-core` (partly) | none | interest, schedule, valuation, LTV, liquidation amounts, fees | `PersatMath`, `RiskMath`, `FeeTreasury` |
| keeper page and the parties' pages | snapshots of deal, vault and loan; a 15 s timer; buttons | every transaction they send | `Lending`, `Settlement` |
| client protocol library | none | nineteen instruction builders, argument encoders, three account decoders | `ClientWire`, `Wire` |
| API calls | attempts in flight | `fetchWithRetry` | `ApiCalls` |
| sign-in and sessions | challenges and sessions, in MySQL or in memory; the tab's and the browser's token | challenge, verify, look up, sign out | `SessionStore`, `WalletSession` |
| deal links | `deal_links` rows | create, claim, expire | `DealLinks` |
| marketplace routes | `proposals` rows | offer | `Proposals` |
| PHP API (partly) | the same tables, its own files | the routes the pages call | `PhpHost`, `Proposals`, `PriceFeed`, `Faucet` |
| faucet | `faucet_claims` rows; page and dialog | claim, auto, dispense | `Faucet` |
| price service and display | a cache per host; the page's cache | request, join, fetch, refresh, fallback | `PriceFeed` |
| profiles and messages | localStorage maps, copies of them in each tab | rename, save, send, mark read | `Browser`, `Profiles`, `Messages` |
| marketplace, proposing, watching | stored listings; watched deals | sendAndConfirm around propose_deal; load, poll | `Market` |
| deal pages | deal, vault and loan as last read | load, reload, interval, send | `DealPage` |
| balances on display | cached balances | refresh, retry | `Balances` |
| deployment scripts | on-chain configuration, mints, manifest | initialise, apply, clean checkout | `Deployment` |
| waitlist | one row per address | form, edge function, insert | `Waitlist` |

**How they interact.** The programs share only deal ids. `deal_registry` is told
about collateral by the key recorded as `escrow_authority`, about a loan by
`loan_authority`, about a liquidation by `liquidation_authority`;
`contracts/scripts/devnet-init.mjs` records one operator key for all three and
for `LoanConfig`, and the pages create vaults with the same key. So the order in
which the pages send transactions is the only thing that ties the deal, the
vault and the loan of one id together. The client library and the programs
agree on bytes by hand: no IDL is generated. The pages call the backend through
`fetchWithRetry`, which repeats a request whose first attempt may still be
running in the server; handlers await a database that may be absent or fail at
any await. Tabs of one browser share localStorage and rewrite whole objects from
copies.

**What is hard here**, and what therefore gets the properties:

* the keeper page acts on snapshots, sends several transactions for one decision,
  carries on when one fails, gives up on confirmations of transactions that may
  still land, may run two ticks at once, and shares its authority with buttons an
  operator presses;
* parties act in between: they cure, cancel, deposit, repay at any moment;
* rounding at thresholds, remainders, caps, worthless collateral;
* old oracle updates stay presentable; parameters change under them;
* proposals race their timelock, expiry, each other and the pause;
* every POST may run twice in the server, interleaved at each await, with a
  database that fails half way and a fallback to memory;
* an account switch, a sign-out or a reload falls between a request and its
  answer;
* tabs overwrite each other; answers of overlapping refreshes arrive in any order;
* a transaction that seemed to expire is signed and sent again;
* the deployment dies between a transaction and the note that it happened.

**What makes each component correct.** *Deals*: nobody is bound to terms they did
not sign, outcomes are final. *Vaults*: every atom accounted for, nothing leaves
but to the recorded borrower or by seizure. *Loans*: what was paid is exactly the
schedule; flags agree with the clock. *Composition*: lend only against committed
collateral, return it only against a settled debt. *Engine*: act only on trusted
prices, divide collateral exactly, spare healthy positions. *Governance*: two
signers and a full day for every change, once. *Treasury, whitelist*: fees within
the cap; a listed asset is one the engine can judge. *Library*: what a page
means is what the program reads, what a program stored is what a page shows.
*Sessions, links, offers*: each names a wallet that signed; a claim stays with who
made it. *Faucet*: who was served is cooling down; every press ends. *Prices*: no
old answer comes up as fresh, one request to Hermes at a time. *Browser*: what two
tabs have settled stays, one press makes one deal. *Services*: an
interrupted deployment completes, screens settle on the truth.

## Modules

```
ProtocolBase
 +- PersatMath
 |   +- LoanLifecycle ----+
 |   +- DealRegistry -----+-- Lending ==> Settlement (abstract)
 |   |   |                |
 |   |   +- Wire (with ClientWire)
 |   |   \- Market (with Browser)
 |   +- RiskMath          |
 |   |   +- PriceOracle - LiquidationEngine
 |   |   \- AssetWhitelist|
 |   \- FeeTreasury       |
 +- EscrowVault ----------+
 +- ClientWire
 \- Browser - Profiles - Messages
Governance
ApiCalls
 +- SessionStore - DealLinks - Proposals - PhpHost - WalletSession
 \- Faucet
PriceFeed   Deployment   Balances   DealPage   Waitlist
```

A module named `MC...` gives values for TLC; one named `...Proofs` holds theorems.
An operator named `...Mutant` is the definition after it with one plausible
mistake; no specification uses one. They record that the properties can fail.

**ProtocolBase** – deal ids, wallets, `NoAccount` for an address that is not
initialised, `U64`, and the SPL transfer. A step of every program module is one
instruction, because a Solana transaction applies as a whole or not at all.

**PersatMath, RiskMath** – the crate's arithmetic. The Rust code computes in
`u128` and narrows to `u64` with errors; a predicate named `...Ok` is true exactly
when the function returns `Ok`. `MaxU64` is a small number in the runs, so the
narrowing errors happen. `Pow10` is a recursive function: valuation needs it at
up to 36, far beyond TLC's integers, and the proofs need it for every decimal.

**LoanLifecycle** – `loans`, `loanConfig`, `cash` (token accounts of the wallets
and the treasury) and `now`, the chain clock. `ActivateLoan` makes both transfers;
`MakePayment` takes exactly `AmountDue`; `AfterPayment` is the state a payment
leaves. `activate_loan` takes its numbers as arguments and so does the action; of
the fee's account the program checks only the mint, so `feeAccount` is any account
of the currency: the treasury's, the lender's own or a third wallet's. `charged` and
`collected` are histories of the fees a borrower bore and an account received.

**EscrowVault** – `vaults`, `btc` (token balances, the vaults' under the deal id),
and `flows`, a history of what entered and left. The SPL account behind a vault
can receive transfers the program does not see: `StrayTransfer`.

**DealRegistry** – `registry`, `deals`, and `signed`, a history of who signed which
terms. `Hash` is the list of hashed fields: SHA-256 over fixed-width fields is
injective for our purposes. `ConfirmDeal` takes the terms the confirmer's screen
showed, which may be stale.

**Lending** – the three programs, the parties (one action per handler of the deal
pages, with the page's own guards), the keeper page and the operator's buttons.
The keeper page decides on accounts it has loaded, of any age. What it loaded
matters only through what a tick would then send, so `plans[d]` is that: the list of
transactions of the branch of `tick` the loaded accounts select (`LockPlan` to
`SeizeHalfPlan`). `Load` is opening a deal or pressing reload; `Tick(k)` puts a list
of `plans[d]` in `sending[k]` and looks at nothing else. Then each transaction, in
order, lands (`Land`), fails (`Fail`: refused, lost, or thrown on), or times out
(`TimeOut`) into `late`, from where it lands later (`LandLate`) or expires
(`Expire`); and after each, as `act` does, the tick waits for a load that succeeds
(`Reload`) or fails (`ReloadFails`). A console's button sends its one transaction
the same way. Between the load, the decision and each landing any other step may
happen, which is what a stale snapshot is. Simplifications: the three account
reads of `load` are one, and loads that overlap end in the order they began; a
page stays with the deal it was opened on; the LTV the page computes from its
price feed is an input; the clock starts at the first activation; the
configuration accounts exist (as after the deployment script); one collateral
mint. The second of these is a bound worth knowing: a page that is given another
deal id acts, until that deal is loaded, on the new id with the old deal's state.
`RepaymentPage` is what `/deal/[id]/repay` offers, with the
amount of the next installment computed by the page.

**Settlement** – the promise to the parties as four small rules over `collateral`
and `debt`. `Lending` maps its state to it with `CollateralOf` and `DebtOf`.

**PriceOracle, LiquidationEngine** – `updates` are posted Pyth accounts, any of
which can be presented at any time; `Usable` is `read_price`. The engine emits
events and changes nothing else, so `event` holds the last event with the inputs
that produced it. Positions, penalties and caps are supplied by the caller, in
the code and in the model; nothing ties a seizure in `escrow_vault` to an event.

**Governance** – `governance`, `proposals`, `tick`, and `acts`, a history of
signatures with their times. Proposals carry no payload here: no program reads an
executed proposal, and none reads the pause flag.

**FeeTreasury, AssetWhitelist** – rates and totals under their caps, with the sum
of what was charged as history; asset records under `validate_asset_policy`.

**ClientWire, Wire** – `ClientWire` is the web application's side: for each
instruction the accounts and arguments in the order the builders write them, the
width they are encoded at, and the offsets at which the decoders read. `Wire` is
the programs' side, and the steps that send a message through both: a number that
does not fit its field keeps its low bits, a blank form gives what
`Number("")` and the encoders make of it.

**ApiCalls** – `callers` with an attempt under way and `handlers` in the server.
A caller that gives up sends again while the abandoned handler goes on; only the
last attempt is listened to. **SessionStore**, **DealLinks**, **Proposals** have
one action per await of each route. **PhpHost** does the same routes at the
grain of that host. **WalletSession** adds the tabs: the connected account, the
token in the tab and the one in storage, requests made on behalf of an account
that may be gone when the answer comes. **Faucet** composes the calls with both
hosts' routes, the page, the dialog and the page's own dispenser. The dispenser
waits for a confirmation and does not look at the error it may carry
(`failedOnChain`), so what a panel announces is that a transaction was
confirmed, not that it did anything.

**PriceFeed** – both hosts' caches, the fetch that requests join, the page's
refreshes, which overlap, and its direct fallback. `Mount` is another page opening on
the cached price of whatever age, with the verdict that came with it
(`useState(cache.data)`); its refresh follows.

**Browser, Profiles, Messages, Market** – storage shared by tabs, and each tab's
copies. Within a tab a handler runs to its next await without interruption. Tabs
are processes of their own and no lock is held on the storage, so in `Messages`
a handler reads the stored array in one step (`Rewrite`) and stores its own in
another (`Write`), and what another tab stored in between is gone. A save of a
profile and a write of the listings are still one step each, as is the poll that
writes a tab's own listing back. `Messages` has the four screens that read them:
a tab's drawer, any page with its badge, the inbox, and the inbox opened by a
link. With `?partner=` the inbox never comes to rest: `conversationPartners` is
a new array at each render, so the effect that marks messages as read rewrites
the array again after each (`KeepMarking`); the drawer's list of threads is
inert, `initialPartner` being set again at each render. `Conversation` and
`ProfilePage` are what a tab does besides. `Market` has the proposing handler
with its time-out, second signature and late landing, over the real
`ProposeDeal`; `Tracked` is what the deals page lists for a wallet. `ListCap <
StoreCap`: the page shows 100, the store holds 200. With equal caps a save could
drop a listing the page still shows.

**Deployment, Balances, DealPage, Waitlist** – one action per await of a script
or page: `Deployment` keeps the chain, the manifest and the position in the
script; `Balances` and `DealPage` keep what is on chain, what each read in
flight has seen, and what the screen shows; `Waitlist` the forms, the function
and the table. `Offers` is what each form lets its visitor choose as a role and
`RoleTypes` what the function accepts; the two of the repository have no role in
common, so the instance has a guest with the repository's form, whose complete
posts are all refused, and one with a form that offers the function's own roles,
the function taking posts from any site.

## Runs

| Run | Instance | Shows |
| --- | --- | --- |
| `programs` | one deal, three wallets; one loan of six months at rates 0 and 10%, principals 0, 100, 125, fees 2 and 255, `MaxU64` 127, clock 8; two such loans out of the same token accounts (`two_loans`, clock standing at 0); two governance proposals, four keys, timelock 2, expiry 4; fee rates 2, 5 and 6%; forms with ordinary, oversized, negative and blank numbers | `PaidIsScheduled`, `DefaultedIsOverdue`, `LenderIsOutPrincipal`, `LoanOnlyProgresses`: loans; `MutualConsent`: deals; `EnactedInTheOpen`: governance; `TotalWithinCap`: fees; `ArgumentsArrive`, `ShownIsStored`: the client library |
| `custody` | two vaults with amounts 0-2; nine price observations, two posted updates, five positions; three mints, six parameter sheets; two refreshes, two fetches, caches of two ticks, clock 3 | `VaultBacked`, `CollateralAccounted`: vaults; `VerdictsAreTrusted`, `SeizureIsExact`, `OnlyUnhealthySeized`, `RoundsForTheLender`: the engine; `ListedIsEngineReady`: the whitelist; `OneFetch`, `ShownInTime`: prices |
| `lending` | one deal, two parties and an operator, two installments; two ticks, or one tick and either a late transaction or a pressed button | `FundingIsBacked`, `LoanMatchesDeal`, `ReleasedOnlyWhenRepaid`, `CompletedIsRepaid`, and `KeepsPromise`: Lending implements Settlement |
| `sessions` | two wallets, one tab and one anonymous visitor, a Node and a PHP handler, one retry, one challenge, token, link, listing and offer | `ActsAreProved`, `AuthenticatedIsOwner`, `ClaimSticks` |
| `faucet` | one tab, two handlers, one retry, both hosts | `ServedIsCooling`, `AnnouncedIsConfirmed`, `ClaimEnds`; no deadlock |
| `browser` | two tabs, two wallets that compete for a handle, two deals, two messages between accounts that stay connected, a page of one listing over a store of two | `HandlesAgree`, `ListedWasProposed`, `SettledIsKept`, `DroppedOnlyWhenFull`, `OnePressOneDeal` |
| `services` | two configuration accounts, two assets, four mints, three faults, one checkout; two wallets and two overlapping balance reads; two accounts and two overlapping page loads; two guests, one with the repository's form, two posts, one address in two spellings | `OneListing`, `DeploymentCompletes`; `ScreensSettle`; `ToldIsListed`; no deadlock |

Every property has a mutant: a plausible mistake in a modelled definition under
which the same run finds it violated. The type invariant of each module is not
repeated in the runs; those of the protocol are theorems.

**Parts explored alone.** Components that share no variable are put into one run
and explored one at a time: `focus` (and `Parts`, the choices it has) picks the part
once, in the initial state. Nothing is lost by it. No step of one part is guarded
by or writes a variable of another, and every property is about one part, so a
behaviour of the product that violated it would, with the other parts' steps
removed, be a behaviour of that part alone. Their product is out of TLC's reach.
Composition is checked where components do interact: `Lending`, `Market`,
`WalletSession`, `Faucet`, `Wire`. Two loans meet in the token accounts, so they
have a choice of `focus` of their own; there no time passes, because what defaults
and liquidations do to one loan is in the other exploration.

**Why the bounds are enough.** Deals, vaults and loans of different ids share
only token balances, so one id (two where that is the question: vaults and
loans, which share the wallets) shows every interaction the code has. Two
installments give a first and a last one; six give a default and a cure in the
middle; principal 125 at 10% overflows `MaxU64`, 100 leaves a remainder in the
last installment. Two ticks are one overlap, one late transaction is one
arbitrarily delayed repeat; `OneOverlap` keeps the second tick, the late
transaction and the operator's button apart, each being one sender more on top
of the first tick. `OneKind` fixes the visibility and the side of the proposal,
which nothing after the confirmation looks at. The prices run from healthy
through partial and full thresholds to worthless, with updates that must be
refused for each reason `read_price` has. Two handlers are the pair of a request
and its repeat, or of two users; one link, token and challenge are enough for
both to meet on it. Two refreshes, reads or loads are one pair that ends out of
order. A page of one listing over a store of two makes both truncations happen;
one name typed to start a chat and one answer to a proposal meet every branch of
the code that reads them. Three faults break off the deployment, lose an answer
and break off the run after it.

The constants that only bound the runs are `MaxTime`, `MaxClock`, `MaxUpdates`,
`LastTick`, `MaxVolume`, `MaxLate`, `Ticks`, `Consoles`, `InitialCash`, `InitialBtc`,
`Handlers`, `MaxRetries`, `Faults`, `Attempts`, `Checkouts`, `MaxTransfers`,
`MaxOutages`, `MaxRefusals`, `MaxFailures` and `MaxMessages`. Symmetry is used only in
runs without liveness, between values no definition tells apart.

**Deadlock** is checked in `faucet` and `services`, whose parts must be able to go
on. Elsewhere the clocks are bounded and the protocols may come to rest, so a
state without steps is an end, not a fault.

**Fairness.**

* `keeper_never_polls` (`KeeperFairness`): more than the page provides, so that what
  goes wrong is not the network's doing. The `setInterval` keeps starting ticks (WF
  on `Tick`), each tick works through its list because `act` catches every error and
  returns (WF on `Land` or `Fail`, and on the loads), and a transaction or a load that
  is tried again and again succeeds at some point (SF on `Land`, `Reload`). The
  operator keeps the page open and visible, and does not reload it by hand.
* `faucet`: a caller goes on and its timer fires (WF on `Continue`, `TimeOut`), a
  handler that runs comes to its next await (WF on `Handle`), and a caller that is
  to send does so (SF on `Send`, which needs a free handler). Nobody has to press.
* `services`: someone starts the deployment again and the script goes on (WF on
  `Start`, `Proceed`; faults are finitely many); the interval of a visible page
  fires and a read that began ends, with a value or an error (WF on `Poll`,
  `ReadOn`, `Tick`, `LoadOn`). Each is asked only while its part is explored.

`ScreensSettle` promises nothing of a page that is hidden again and again, of a
wallet that keeps being switched, or of `/deal/[id]`, which has no interval: what
the code does there is among the differences below.

### Where the code and its documents disagree

Five runs state what a comment or page says and find it violated.

| Run | Says | Happens |
| --- | --- | --- |
| `partial_dead_end` | `persat-core/src/liquidation.rs:5-7`: after a partial liquidation "the loan continues with reduced collateral" | `make_payment`, `repay_in_full` and `mark_liquidated` refuse `PartiallyLiquidated`: the loan can neither be paid nor liquidated again |
| `cured_seized` | `deal/[id]/repay/page.tsx:166`: "Borrower can still repay to cure." | the payment lands between the keeper's decision and its seizure; the loan is Active, the collateral gone |
| `keeper_never_polls` | `keeper/page.tsx:336`: "All state fetched from chain on mount + 10s poll"; `:219`: "Autonomous mode will progress states automatically" | the timer loads nothing: a deal that the lender funds after the page's last load is never marked active, however long the page goes on ticking |
| `price_fails_open` | `lib/protocol/oracle.ts:3-6`: "fail-closed" | when every source fails, the last price stays usable however old it becomes |
| `hidden_tab_polls` | `known-limitations/page.tsx:60`, `keeper/page.tsx:336`: "10s poll, hidden-tab backoff" | each reload renders, each render makes a new `dealId` and so a new `reload`, and the effect starts it at once, hidden or not |

Others were met while modelling and need no run to see:

* `escrow_vault/src/lib.rs:18-21` has lock and disbursement in a single transaction;
  lock_vault and activate_loan are sent by different signers at different times.
* `deal_registry/src/lib.rs:178-179` calls cancellation safe before value has moved;
  a Confirmed deal is cancelled with its collateral deposited (line 180).
* `security-audits/pass-3/cycles/cycle-01-happy.md:52-53` has a completed deal's
  collateral returned; the release may fail and the close succeed, and no later
  tick looks at the deal again (`keeper/page.tsx:131`).
* The keeper's timer depends on the price, which is polled every 15 seconds too,
  and each new price begins the 15 seconds anew: it fires only when an answer
  takes longer than the one before (`keeper/page.tsx:178-187`). With a key
  bundle it never fires, although line 219 says "Actions signed directly":
  `bundle.ts:353-360` makes a new key object at each render, which restarts the
  effect, which logs, which renders.
* `activate_loan` lets the lender name any account of the currency as the
  treasury's (`loan_lifecycle/src/lib.rs:322-326`), its own included.
* `activate_loan` accepts any fee below the principal, though `fees.rs` and the
  `fee_treasury` header promise a 5% cap; `is_accepted` is to be called by "every
  other program" (`asset_whitelist/src/lib.rs:259-261`) and none calls it; the
  whitelist leaves the loan currency's decimals unbounded and the engine refuses
  more than 18.
* `required_collateral_atoms` rounds down instead of up when the loan currency has
  more decimals than collateral and price together.
* A second claimant of a link is told it was claimed though the write matched no
  row (`dealLinks.ts:81-84`); a link that expired or was claimed can never be issued
  again (UNIQUE `deal_id`). Two pending offers of one wallet on one listing are
  possible (`marketplace.ts:39-51`), and no code moves an offer out of pending.
* Free numbers of the new-deal page lose their high bits at 16 (a rate of 66356
  is registered as 820 and one of -65000 as 536, half a month is dropped; the
  limits of the inputs are not enforced, the button being in no form), although
  the page says the terms are registered on-chain. `ArgumentsArrive` is about
  whole 16-bit numbers.
* `database.ts:126-128`: the Postgres translation of `INTERVAL n MINUTE` drops its
  number.
* Sign-out revokes the stored token, not the tab's (`session.ts:180`); a failed
  `authMe` clears storage another tab set (`session.ts:131`); a reload drops the
  stored session before the wallet reconnects (`session.ts:93-99`).
* Faucet: a transaction that was confirmed with an error is announced as sent
  (`faucet.ts:135-138`); two requests that race, or one that timed out, may both
  be dispensed (`docs/CLEAN_BUILD_COMPLETE.md:36` excludes it); a refusal shows
  "Faucet claim recorded." (`page.tsx:116`); PHP's `/auto` records the claim and
  then errors.
* A page that opens shows the cached price of any age with the verdict of then
  (`oracle.ts:86`), in a file that calls itself fail-closed, until its refresh ends.
* Every complete post of the waitlist's page is refused: the roles it offers
  (`waitlist/index.html:1253-1256`) are none of those the function accepts
  (`functions/waitlist/index.ts:24-29`).
* Two tabs that write messages at once lose one of the writes
  (`messagesStore.ts:78-80`, `89-96`, `103-116`), and the inbox opened by a link writes
  without end (`messages/page.tsx:37-43`), so a message sent elsewhere may vanish.
* `persat_proposals_*` is read (`deals/page.tsx:184-210`) and never written;
  listings are not removed when a deal closes; a stale creator handle survives a
  rename; a proposal that timed out lands unlisted.
* `devnet-init.mjs:16-17` calls itself idempotent; a clean checkout without the
  applied mints lists a symbol under a second mint.
* `hooks.ts:39-44`: a `getAccountInfo` that throws leaves the page busy for ever,
  though `keeper/page.tsx:337` says errors show a message. After a switch of
  wallets the other wallet's balances may stand for a while
  (`userBalance.ts:146-149`), and a failed token read counts as 0.
* `BridgeDepositPanel.tsx:15` falls back to tBTC although `bridge.ts:46` says never to
  guess a route; the backend keeper of the docs is a stub (`services/keeper.ts`).

## Proofs

The proofs assume only the named `ASSUME`s of the modules (sizes, ranges and
disjointness of the constants), which TLC evaluates in the runs above. Every
inductive invariant below was first checked by TLC on the instance of its run.

* **ProgramProofs**: the three programs that hold a deal, its loan and its vault.
  `HashIsFaithful`: equal hashes are equal terms. `DealInv` strengthens
  `MutualConsent` to proposals: the creator signed them, sits on the declared side,
  and no wallet sits twice; a confirmation then adds only the other party's
  signature. `LoanInv` adds to the types, for every loan (`GoodLoan`): its
  installments sum to its total, what was paid is the schedule up to the payments
  counted, Completed exactly at the full count, Defaulted only when overdue.
  `PaidIsScheduled` alone is not inductive: that the last payment reaches the total
  needs the sum, which activation gets from `ScheduleSums`. `VaultInv` is the types
  and, per deal, both conservation laws and that an address without a vault has
  had no flows. They need each other: a release pays the recorded atoms, so that
  no balance goes negative needs the backing. `LendersAreOutPrincipal` is for any
  number of loans between any wallets: the cash of all wallets together never
  changes, and each wallet has what it began with, less what it lent and is owed,
  plus what it borrowed and owes, less the fees it bore, plus those the lenders
  had sent to its account (`CashInv`). The totals are folds
  over the set of deals; the proof needs of them only that a sum does not depend
  on the order of its terms and changes by what one term changes, and both are
  proved of the recursive function the fold is defined by. `BindingIsForGood`,
  `OutcomesAreFinal`, `LoansOnlyProgress`, `CollateralLeavesByDesign` and
  `CommitmentIsForGood` follow step by step.
* **LendingProofs**. Every step of the composition is a step of each program or
  leaves it alone, so the three invariants above carry over (`ProgramsInv`), and
  what each program promises alone holds of them together (`TogetherAsAlone`).
  `SendingOK` says of each transaction under way, on time or late, and of each a
  tick would send on what the page has loaded, the fact it rests on; all of them
  are facts no step takes back, which is why a decision on a snapshot of any age
  stays harmless to these properties. `Tied(d)` relates deal, vault, loan and
  the history of one id. Together they are `LendingInv`. The four safety
  properties follow, and `PromiseIsKept` is the refinement of `Settlement`:
  initial states map to initial states, each step to a settlement step or a
  stutter.
* **RiskProofs**. Of the arithmetic: `HealthIsExact` (LTV rounds up, so a threshold
  falls on the unhealthy side), `LossNeverHelps`, `FullLiquidationSettles` and
  `PartialLiquidationIsBounded`. Of the engine: an event rests on an update
  `read_price` accepts, whatever governance did to its limits
  (`VerdictsRestOnTrustedPrices`), and carries the numbers of those four theorems
  (`SeizuresAreExact`, `HealthyIsSpared`). `RoundingIsForTheLender` needs no more of
  the scale between decimals than that it is positive: the collateral is scaled up
  and its value down by the same one. That a power of ten is positive is
  `Pow10Positive`, by way of the solutions of its equation up to each number
  (`Powers`). Of the treasury and the whitelist: `FeesStayWithinCap`,
  `ListedStaysEngineReady`. Of governance, `GovernanceInv`: the three seats differ,
  and every approval bit is backed by a signature of the key in that seat, none
  older than the proposal, the first as old as it. `EnactmentIsOpen` is what the
  guards of `execute_proposal` then mean. `CounterIsExact` follows the counter and
  the set of executed proposals with the library's cardinality theorems.
* **WireProofs**. `RoundTrip`: read with the table it was written with, a message gives
  back every field, whatever else it carries. It goes by induction on the fields
  read: before each of them, what is left of the bytes is what the remaining
  fields were written as (`ReadPiece`, `TakePut`). The tables of the two sides, nineteen
  instructions and three account layouts, are then compared one by one
  (`TablesAgree`, `LayoutsAgree`, `EnumsAgree`), and every enumerated field is
  shown to travel in one byte (`BuilderFields`). `WireInv` says of a message on its
  way that it was written from the client's table with names for its enumerated
  fields and a digest of the terms on the screen (`Written`), and of a deal
  that it has the fields its layout stores and that its parties signed (`Bound`).
  `ArgumentsAlwaysArrive` and `ShownAsStored` follow; so does `ConsentOverTheWire`,
  which is `MutualConsent` again where nobody hands the program its arguments: the
  terms come out of a form's bytes, and the confirmation is a digest the page
  computed of the fields it decoded. `WireAssumption` is about the pages' inputs
  only: a rate or a term is any number or none, an amount is one that the encoder
  accepts (it throws at a negative one and nothing is sent).
* **SessionProofs**. `SessionInv` has three parts. `CallsInv`: at most one attempt of
  a call is listened to, and it carries what its caller asked for. `TablesInv`:
  each session, link and offer, and each handler about to write one, is backed by
  a signature. `TabsInv`: what a tab holds and awaits belongs to the account it was
  asked for. `Stable` collects what no step takes back, which is what lets a handler
  that was abandoned finish much later.
* **FaucetProofs**. `FaucetInv` follows a claim from the button to the answer: a
  handler about to dispense has its claim on record, or the database failed for
  it (`DispensingCools`); a handler that is still listened to carries the
  request of the call that listens (`Attended`); a call is for the wallet of its
  panel and is answered "dispensed" only when a pack for that wallet was
  confirmed since the flow began (`Asked`); and a panel heard, remembers or
  announces only such a pack (`GoodPanel`). `ServedIsCooling` and
  `AnnouncedIsConfirmed` are its two ends; neither is inductive, the handlers
  between select and insert being where they could break.
* **BrowserProofs**. `HandleInv` says what the copies of a profile in each tab
  may still differ in. `DeskInv` is the types of the messages, the arrays about
  to be stored included, and that none has an id not yet given. Every operation
  starts from the stored array and keeps what it read (`Keeps`), so what is in
  the store and in every array about to replace it stays there (`SettledStays`);
  that the inbox picks the most recent partner needs that a set of positions has
  a smallest member (`NatHasLeast`). `MarketInv`: two proposals for one deal
  that may still land, on the wire or being sent, have the same creator and
  draft, and where the deal exists it is the proposed one; without that, the
  late landing of an abandoned attempt could leave a listing that disagrees with
  the chain (`ListedWasProposed`). `DroppedOnlyWhenFull` and `OnePressOneDeal`
  follow step by step.
* **WebProofs**. `FreshIsRecent` needs the age of the cache, of every answer on its way
  and of the page's price as one invariant (`FeedInv`); `OneRequestToHermes`;
  `ListedAsTold`. `DeploymentInv`: the manifest, the configuration and the script
  name only mints that were created for their symbol, the script knows what the
  manifest says and has a mint before it lists an asset, and for a symbol that was
  not lost whatever is listed is the mint the manifest knows, or else the configured
  one (`SymbolInv`). `OneListing` says nothing of the script's memory and is not
  inductive: what rules out a second mint is that a script which has read no
  configured mint finds the configured one in the manifest.

Every safety property of the passing runs is a theorem. Out of the prover's
reach: liveness (`AutonomousProgresses`, `ClaimEnds`, `DeploymentCompletes`,
`ScreensSettle`) and `PartialLiquidationContinues`, which uses `ENABLED`. The
library's induction theorems take an operator as a parameter and cannot be cited
here; where a proof needs induction over the natural numbers it takes the least
counterexample instead, and what a recursive function has as its value is taken
from a function shown to satisfy its equation (`PowersExist`, `JoinedExists`,
`ReadingExists`).

## Not modelled

* Proposal resolution (`domain/proposalResolution`): only its unit test calls it.
* The bridge service: constant data behind a cache. The backend keeper: a stub.
* Backend server, configuration, connection pool: wiring. That the database may be
  absent or fail at any await is in every module that uses it.
* The files under `public/api`, which nothing in the repository calls, and the request
  plumbing of the PHP API.
* `liquidation_price`, the late-fee split and `is_due`, which no instruction calls, and
  the stored `collateral_atoms` of a loan, which none reads.
* Layout, wallet adapters, address derivation, error texts, the waitlist dashboard,
  token metadata scripts and the programs' test suites, which were read as evidence
  of intended behaviour.
* Within modelled components: names, texts, amounts and counters no property tells
  apart; unmounting of pages; a deal that does not exist on the deal pages. The
  notes in `PROJECT.json` name them per component.

## Plan

Done: the arithmetic, the eight programs, their composition and its refinement;
the client library; sessions, links, offers and the faucet over both hosts; the
browser's storage; prices, pages, balances, deployment and waitlist; theorems for
all safety properties of the passing runs.

Left, in the order of what they would add:

1. Two deals in `Lending` that share the parties' balances, which the proofs cover and
   the run does not.
2. `ApiCalls` with a second retry, once TLC's state space allows it.

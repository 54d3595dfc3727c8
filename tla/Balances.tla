------------------------------ MODULE Balances ------------------------------
(***************************************************************************)
(* useUserRealBalances: the balances a page shows of the connected wallet, *)
(* read over RPC on every change of wallet and every fifteen seconds while *)
(* the tab is visible, with a cache per wallet.  Refreshes are not tied to *)
(* the wallet that is connected when they end: each writes to the screen.  *)
(***************************************************************************)
EXTENDS Naturals

CONSTANTS
  Owners,      \* wallets that may be connected
  Nobody,      \* publicKey = null
  Slots,       \* bound on refreshes under way
  MaxTransfers,\* bound on changes of what the wallets hold
  MaxOutages   \* bound on RPC failures that outlast the retries

ASSUME BalanceAssumption ==
  /\ Nobody \notin Owners
  /\ {MaxTransfers, MaxOutages} \subseteq Nat

VARIABLES
  owner,      \* the connected wallet, of which the running interval has a copy
  hidden,     \* document.hidden
  held,       \* on chain: what each wallet has of SOL and of the tokens
  remembered, \* the cache: amounts younger than ten seconds
  reads,      \* refreshes under way: for whom, Nobody in a free slot, and the amounts read
  screen,     \* data: the amounts, and the flags loading and error
  transfers, outages

balanceVars == <<owner, hidden, held, remembered, reads, screen, transfers, outages>>

Unread == 2    \* an amount nobody holds
Amounts == [sol : 0..1, token : 0..1]
Zero == [sol |-> 0, token |-> 0]
Idle == [by |-> Nobody, sol |-> Unread, token |-> Unread]
Showing(amounts, loading, error) == [amounts |-> amounts, loading |-> loading, error |-> error]

BalanceInit ==
  /\ owner = Nobody /\ hidden = FALSE
  /\ held = [w \in Owners |-> [sol |-> 1, token |-> 1]]
  /\ remembered = [w \in Owners |-> {}]
  /\ reads = [s \in Slots |-> Idle] /\ screen = Showing(Zero, FALSE, FALSE)
  /\ transfers = 0 /\ outages = 0

(* What is remembered is shown at once, and read again all the same.       *)
Refresh(w) ==
  IF w = Nobody THEN screen' = Showing(Zero, FALSE, FALSE) /\ UNCHANGED reads
  ELSE /\ \/ \E a \in remembered[w] : screen' = Showing(a, FALSE, FALSE)
          \/ remembered[w] = {} /\ screen' = Showing(screen.amounts, TRUE, FALSE)
       /\ \E s \in Slots : reads[s] = Idle /\ reads' = [reads EXCEPT ![s].by = w]

TimerMutant == Owners

(* The interval is cleared and set again for every wallet, with its        *)
(* refresh.                                                                *)
Timer == {owner}

ChangeWallet(w) ==
  /\ w # owner /\ owner' = w
  /\ Refresh(w)
  /\ UNCHANGED <<hidden, held, remembered, transfers, outages>>

Poll ==
  /\ ~hidden
  /\ \E w \in Timer : Refresh(w)
  /\ UNCHANGED <<owner, hidden, held, remembered, transfers, outages>>

Outage == outages < MaxOutages /\ outages' = outages + 1

Underway(s) == reads[s] # Idle

ReadLamports(s) ==
  /\ Underway(s) /\ reads[s].sol = Unread
  /\ reads' = [reads EXCEPT ![s].sol = held[reads[s].by].sol]
  /\ UNCHANGED <<owner, hidden, held, remembered, screen, transfers, outages>>

(* The third attempt fails as well: an error, over the amounts shown.      *)
GiveUpReading(s) ==
  /\ Underway(s) /\ reads[s].sol = Unread /\ Outage
  /\ reads' = [reads EXCEPT ![s] = Idle]
  /\ screen' = Showing(screen.amounts, FALSE, TRUE)
  /\ UNCHANGED <<owner, hidden, held, remembered, transfers>>

(* A token account that cannot be read counts as empty, without a retry.   *)
ReadToken(s) ==
  /\ reads[s].sol # Unread /\ reads[s].token = Unread
  /\ \/ reads' = [reads EXCEPT ![s].token = held[reads[s].by].token] /\ UNCHANGED outages
     \/ reads' = [reads EXCEPT ![s].token = 0] /\ Outage
  /\ UNCHANGED <<owner, hidden, held, remembered, screen, transfers>>

(* Kept for the wallet it was read for, shown to whoever is connected.     *)
EndRead(s) ==
  /\ reads[s].token # Unread
  /\ LET amounts == [sol |-> reads[s].sol, token |-> reads[s].token]
     IN  /\ remembered' = [remembered EXCEPT ![reads[s].by] = {amounts}]
         /\ screen' = Showing(amounts, FALSE, FALSE)
  /\ reads' = [reads EXCEPT ![s] = Idle]
  /\ UNCHANGED <<owner, hidden, held, transfers, outages>>

Forget(w) ==
  /\ remembered[w] # {} /\ remembered' = [remembered EXCEPT ![w] = {}]
  /\ UNCHANGED <<owner, hidden, held, reads, screen, transfers, outages>>

HideOrShow ==
  /\ hidden' = ~hidden
  /\ UNCHANGED <<owner, held, remembered, reads, screen, transfers, outages>>

Transfer(w) ==
  /\ transfers < MaxTransfers /\ transfers' = transfers + 1
  /\ \E a \in Amounts \ {held[w]} : held' = [held EXCEPT ![w] = a]
  /\ UNCHANGED <<owner, hidden, remembered, reads, screen, outages>>

ReadOn(s) == ReadLamports(s) \/ ReadToken(s) \/ EndRead(s)

BalanceNext ==
  \/ \E w \in Owners \union {Nobody} : ChangeWallet(w)
  \/ Poll \/ HideOrShow
  \/ \E s \in Slots : ReadOn(s) \/ GiveUpReading(s)
  \/ \E w \in Owners : Forget(w) \/ Transfer(w)

(* The browser's interval fires and RPC calls end.                         *)
BalanceFairness ==
  /\ WF_balanceVars(Poll)
  /\ \A s \in Slots : WF_balanceVars(ReadOn(s))

BalanceSpec == BalanceInit /\ [][BalanceNext]_balanceVars /\ BalanceFairness

(***************************************************************************)
(* Properties.                                                             *)
(***************************************************************************)
(* A visible page of a wallet that stays connected comes to show what the  *)
(* wallet holds and stays so, although refreshes of another wallet end     *)
(* after the switch, old amounts are remembered, and failed reads count as *)
(* zero (refresh() and the interval in userBalance.ts).                    *)
BalancesSettle ==
  \A w \in Owners :
    <>[](owner = w /\ ~hidden) => <>[](screen.amounts = held[w] /\ ~screen.error)
=============================================================================

------------------------------ MODULE Profiles ------------------------------
(***************************************************************************)
(* Profiles and handles, kept by the browser in one localStorage object    *)
(* that every tab reads and rewrites as a whole: each profile is stored    *)
(* twice, under its wallet and under its handle.  A profile page works on  *)
(* the copy it loaded, so another tab may have changed the store since.    *)
(* A save reads and writes in one step: it follows a press or a change of  *)
(* account, and two of them in the same instant are left out.              *)
(*                                                                         *)
(* Handles stand for what is left after trimming, lower-casing and the     *)
(* length and character checks; text that fails those is refused and       *)
(* changes nothing.  Display name, bio and the counters are left out.      *)
(***************************************************************************)
EXTENDS Browser, Sequences

CONSTANTS
  Handles,     \* handles, default ones included
  DefaultsOf,  \* per wallet: user_xxxxyyyy, user_xxxxyyyy_1, ... in order
  Absent         \* no profile under this key, no page open

ASSUME ProfileAssumption ==
  /\ Wallets \intersect Handles = {}
  /\ Absent \notin Wallets
  /\ DefaultsOf \in [Wallets -> Seq(Handles)]

VARIABLES
  wallet,    \* per tab: the connected wallet, or Absent
  profiles,  \* the stored object: wallets and handles to profiles
  card,      \* per tab: the profile its profile page loaded
  editing    \* per tab: is the edit dialog open?

profileVars == <<profiles, card, editing>>

Keys == Wallets \union Handles

Profile == [wallet : Wallets, username : Handles]

ProfilesInit ==
  /\ wallet = [t \in Tabs |-> Absent]
  /\ profiles = [k \in Keys |-> Absent]
  /\ card = [t \in Tabs |-> Absent]
  /\ editing = [t \in Tabs |-> FALSE]

(* getProfileByWalletOrUsername *)
Lookup(k) == profiles[k]

(* The scan is over every stored profile, under whichever key.             *)
Available(h, w) ==
  \A k \in Keys : profiles[k] # Absent /\ profiles[k].username = h
                    => profiles[k].wallet = w

ForgetOldMutant(store, p) == store

(* delete current[previous.username] *)
ForgetOld(store, p) ==
  LET old == store[p.wallet]
  IN  IF old = Absent \/ old.username = p.username THEN store
      ELSE [store EXCEPT ![old.username] = Absent]

Stored(p) == [ForgetOld(profiles, p) EXCEPT ![p.wallet] = p, ![p.username] = p]

MaySaveMutant(p) == TRUE

(* The availability the screen showed may be old; saving checks again.     *)
MaySave(p) == Available(p.username, p.wallet)

SaveProfile(p) == MaySave(p) /\ profiles' = Stored(p)

(***************************************************************************)
(* Every page shows the connected wallet's profile and, when there is      *)
(* none yet, stores one under the first default handle that is free.       *)
(***************************************************************************)
IsFirstFree(i, w) ==
  /\ Available(DefaultsOf[w][i], w)
  /\ \A j \in 1 .. i - 1 : ~Available(DefaultsOf[w][j], w)

EnsureProfile(w) ==
  /\ Lookup(w) = Absent
  /\ \E i \in 1 .. Len(DefaultsOf[w]) :
       IsFirstFree(i, w) /\ SaveProfile([wallet |-> w, username |-> DefaultsOf[w][i]])

(* Connecting, changing or disconnecting the account reruns the effect in  *)
(* that tab; the pages it has open keep what they loaded.                  *)
Connect(t, w) ==
  /\ wallet[t] # w
  /\ wallet' = [wallet EXCEPT ![t] = w]
  /\ \/ EnsureProfile(w)
     \/ Lookup(w) # Absent /\ UNCHANGED profiles
  /\ UNCHANGED <<card, editing>>

Disconnect(t) ==
  /\ wallet[t] # Absent
  /\ wallet' = [wallet EXCEPT ![t] = Absent]
  /\ UNCHANGED profileVars

(***************************************************************************)
(* The profile page.                                                       *)
(***************************************************************************)
OpenPage(t, k) ==
  /\ card' = [card EXCEPT ![t] = Lookup(k)]
  /\ editing' = [editing EXCEPT ![t] = FALSE]
  /\ UNCHANGED <<wallet, profiles>>

StartEditing(t) ==
  /\ card[t] # Absent /\ card[t].wallet = wallet[t]
  /\ ~editing[t]
  /\ editing' = [editing EXCEPT ![t] = TRUE]
  /\ UNCHANGED <<wallet, profiles, card>>

(* The dialog stays open through a change of account and saves for the     *)
(* wallet of the page.  Refused saves leave it open.                       *)
Save(t, h) ==
  /\ editing[t]
  /\ LET p == [card[t] EXCEPT !.username = h]
     IN  SaveProfile(p) /\ card' = [card EXCEPT ![t] = p]
  /\ editing' = [editing EXCEPT ![t] = FALSE]
  /\ UNCHANGED wallet

ProfilePage(t) ==
  \/ \E k \in Keys : OpenPage(t, k)
  \/ StartEditing(t)
  \/ \E h \in Handles : Save(t, h)

ProfileStep ==
  \E t \in Tabs :
    \/ \E w \in Wallets : Connect(t, w)
    \/ Disconnect(t)
    \/ ProfilePage(t)

ProfileSpec == ProfilesInit /\ [][ProfileStep]_<<wallet, profileVars>>

(***************************************************************************)
(* Properties.                                                             *)
(***************************************************************************)
(* A handle finds exactly the wallet that carries it: each profile is      *)
(* under both its keys and nowhere else, so no two wallets share a handle  *)
(* and no abandoned handle still resolves (saveProfile's check and its     *)
(* deletion of the old key, with pages in several tabs saving old copies). *)
(* Private deals and messages go to the wallet a handle finds.             *)
HandlesAgree ==
  /\ \A w \in Wallets : profiles[w] # Absent =>
       profiles[w].wallet = w /\ profiles[profiles[w].username] = profiles[w]
  /\ \A h \in Handles : profiles[h] # Absent =>
       profiles[h].username = h /\ profiles[profiles[h].wallet] = profiles[h]
=============================================================================

--------------------------- MODULE WalletSession ----------------------------
(***************************************************************************)
(* The browser side of a session: each tab keeps a token and the wallet it *)
(* was issued for, all tabs share local storage, and the wallet extension  *)
(* may switch or drop the account at any time, also while the sign-in is   *)
(* waiting for the user or for the server.                                 *)
(***************************************************************************)
EXTENDS PhpHost

CONSTANTS Tabs, Visitors   \* the callers: tabs of one browser; holders of links

ASSUME BrowserAssumption == Callers = Tabs \union Visitors /\ Tabs \intersect Visitors = {}

VARIABLES
  tabs,      \* tab |-> connected account, token, its wallet, the challenge on screen
  storage    \* local storage: token and wallet

browserVars == <<tabs, storage>>
sessionVars == <<callVars, TableVars, browserVars>>

(***************************************************************************)
(* The bodies of the requests, and a call with its answer.                 *)
(***************************************************************************)
VerifyRequest  == [op : {"verify"}, challenge : Challenges, signer : Wallets, wallet : Wallets]
CreateRequest  == [op : {"create"}, token : Tokens, deal : DealIds, wallet : Wallets]
ProposeRequest == [op : {"propose"}, token : Tokens, listing : Listings, wallet : Wallets]
ClaimRequest   == [op : {"claim"}, link : Links, wallet : Wallets]

Request == VerifyRequest \union CreateRequest \union ProposeRequest \union ClaimRequest

CallRecord ==
  [request : Request, left : Nat, status : {"sending", "waiting", "answered"},
   answer : {Nothing} \union [token : Tokens, wallet : Wallets] \union [link : Links]
              \union [claimed : Wallets] \union [proposer : Wallets]]

ASSUME NothingIsNoCall == Nothing \notin CallRecord

NoToken == [token |-> Nothing, wallet |-> Nothing]

SessionTypeOK ==
  /\ CallsTypeOK /\ StoreTypeOK /\ LinksTypeOK /\ ProposalsTypeOK
  /\ tabs \in [Tabs -> [connected : Wallets \union {Nothing},
                        token     : Tokens \union {Nothing},
                        owner     : Wallets \union {Nothing},
                        prompt    : Challenges \union {Nothing}]]
  /\ storage \in [token : Tokens \union {Nothing}, wallet : Wallets \union {Nothing}]

SessionInit ==
  /\ CallsInit /\ StoreInit /\ LinksInit /\ ProposalsInit
  /\ tabs = [t \in Tabs |-> [connected |-> Nothing, token |-> Nothing,
                             owner |-> Nothing, prompt |-> Nothing]]
  /\ storage = NoToken

Authenticated(tab) ==
  /\ tab.token # Nothing /\ tab.connected # Nothing
  /\ tab.owner = tab.connected

(* The effect that runs after every render: a session without its wallet   *)
(* is dropped, here and in the storage the other tabs read.                *)
Foreign(tab) ==
  IF tab.connected = Nothing THEN tab.token # Nothing
                             ELSE tab.owner \notin {Nothing, tab.connected}

Render(t, tab, stored) ==
  /\ tabs' = [tabs EXCEPT ![t] =
       IF Foreign(tab) THEN [tab EXCEPT !.token = Nothing, !.owner = Nothing] ELSE tab]
  /\ storage' = IF Foreign(tab) THEN NoToken ELSE stored

Local == UNCHANGED <<callVars, TableVars>>

(* The account changes: connected, switched in the extension, or gone.     *)
ChangeAccount(t) ==
  /\ \E w \in (Wallets \union {Nothing}) \ {tabs[t].connected} :
       Render(t, [tabs[t] EXCEPT !.connected = w], storage)
  /\ Local

(* The reconnection of the wallet comes later than the token is read back. *)
Reload(t) ==
  /\ Render(t, [connected |-> Nothing, token |-> storage.token,
                owner |-> storage.wallet, prompt |-> Nothing], storage)
  /\ calls' = Done(t) /\ handlers' = Abandoned(t)
  /\ UNCHANGED TableVars

(* /v1/auth/me for the token of this tab: the lookup, or no answer at all. *)
CheckSession(t) ==
  LET tab == tabs[t]
      confirmed == \E s \in Stores : LookupFinds(tab.token, s)
  IN  /\ tab.token # Nothing /\ tab.connected # Nothing
      /\ \/ /\ confirmed /\ sessions[tab.token].wallet = tab.connected
            /\ tabs' = [tabs EXCEPT ![t].owner = tab.connected]
            /\ storage' = [storage EXCEPT !.wallet = tab.connected]
         \/ /\ tabs' = [tabs EXCEPT ![t].token = Nothing, ![t].owner = Nothing]
            /\ storage' = NoToken
      /\ Local

Idle(t) == calls[t] = Nothing /\ tabs[t].prompt = Nothing

StartSignIn(t) ==
  LET w == tabs[t].connected
  IN  /\ w # Nothing /\ Idle(t) /\ ~Authenticated(tabs[t])
      /\ \E c \in Challenges :
           /\ IssueChallenge(c, w) \/ PhpIssueChallenge(c, w)
           /\ tabs' = [tabs EXCEPT ![t].prompt = c]
      /\ UNCHANGED <<callVars, linkVars, proposalVars, storage>>

(* The extension signs with the account it has now; the page names the     *)
(* account it had when the button was pressed.                             *)
Approve(t) ==
  LET c == tabs[t].prompt
      signer == tabs[t].connected
  IN  /\ c # Nothing /\ signer # Nothing
      /\ Call(t, [op |-> "verify", challenge |-> c, signer |-> signer,
                  wallet |-> challenges[c].wallet])
      /\ signed' = signed \union {<<signer, c>>}
      /\ tabs' = [tabs EXCEPT ![t].prompt = Nothing]
      /\ UNCHANGED <<challenges, sessions, linkVars, proposalVars, storage>>

Reject(t) ==
  /\ tabs[t].prompt # Nothing
  /\ tabs' = [tabs EXCEPT ![t].prompt = Nothing]
  /\ UNCHANGED storage /\ Local

SessionOwnerMutant(t) == tabs[t].connected

(* The wallet the server verified, not the one connected by now.           *)
SessionOwner(t) == calls[t].answer.wallet

SignedIn(t) ==
  /\ Status(t, "answered") /\ calls[t].request.op = "verify"
  /\ LET a == [token |-> calls[t].answer.token, wallet |-> SessionOwner(t)]
     IN  Render(t, [tabs[t] EXCEPT !.token = a.token, !.owner = a.wallet], a)
  /\ calls' = Done(t)
  /\ UNCHANGED <<handlers, TableVars>>

(* The token revoked is the stored one, which another tab may have set; an *)
(* error of the call is ignored.                                           *)
SignOut(t) ==
  /\ Authenticated(tabs[t])
  /\ \/ storage.token # Nothing /\ Revoke(storage.token)
     \/ UNCHANGED storeVars
  /\ tabs' = [tabs EXCEPT ![t].token = Nothing, ![t].owner = Nothing]
  /\ storage' = NoToken
  /\ UNCHANGED <<callVars, linkVars, proposalVars>>

(* External to the pages: clients of the link routes.                      *)
CreateLink(t) ==
  /\ storage.token # Nothing /\ tabs[t].connected # Nothing /\ tabs[t].prompt = Nothing
  /\ \E d \in DealIds :
       Call(t, [op |-> "create", token |-> storage.token, deal |-> d,
                wallet |-> tabs[t].connected])
  /\ UNCHANGED <<TableVars, browserVars>>

CreateProposal(t) ==
  /\ storage.token # Nothing /\ tabs[t].connected # Nothing /\ tabs[t].prompt = Nothing
  /\ \E g \in Listings :
       Call(t, [op |-> "propose", token |-> storage.token, listing |-> g,
                wallet |-> tabs[t].connected])
  /\ UNCHANGED <<TableVars, browserVars>>

ClaimLink(v) ==
  /\ \E l \in Links, w \in Wallets :
       links[l] # Nothing /\ Call(v, [op |-> "claim", link |-> l, wallet |-> w])
  /\ UNCHANGED <<TableVars, browserVars>>

(* The answer has been shown.                                              *)
Acknowledge(c) ==
  /\ Status(c, "answered") /\ calls[c].request.op # "verify"
  /\ calls' = Done(c)
  /\ UNCHANGED <<handlers, TableVars, browserVars>>

Unstored == UNCHANGED <<TableVars, browserVars>>

NetworkStep(c) == (Send(c) \/ TimeOut(c)) /\ Unstored

ServerStep(h) ==
  \/ VerifyStep(h) /\ UNCHANGED <<linkVars, proposalVars, browserVars>>
  \/ LinkStep(h) /\ UNCHANGED <<proposalVars, browserVars>>
  \/ ProposalStep(h) /\ UNCHANGED browserVars

PhpServerStep(h) ==
  \/ PhpVerifyStep(h) /\ UNCHANGED <<linkVars, proposalVars, browserVars>>
  \/ PhpLinkStep(h) /\ UNCHANGED <<proposalVars, browserVars>>
  \/ PhpProposalStep(h) /\ UNCHANGED browserVars

TabStep(t) ==
  \/ ChangeAccount(t) \/ Reload(t)   \/ CheckSession(t)
  \/ StartSignIn(t)   \/ Approve(t)  \/ Reject(t)
  \/ SignedIn(t)      \/ SignOut(t)  \/ CreateLink(t)
  \/ CreateProposal(t)

SessionNext ==
  \/ \E t \in Tabs : TabStep(t)
  \/ \E v \in Visitors : ClaimLink(v)
  \/ \E c \in Callers : NetworkStep(c) \/ Acknowledge(c)
  \/ \E h \in Handlers \ PhpHandlers : ServerStep(h)
  \/ \E h \in PhpHandlers : PhpServerStep(h)
  \/ \E c \in Challenges : ExpireChallenge(c) /\ UNCHANGED <<callVars, linkVars, proposalVars, browserVars>>
  \/ \E t \in Tokens : ExpireSession(t) /\ UNCHANGED <<callVars, linkVars, proposalVars, browserVars>>
  \/ \E l \in Links : ExpireLink(l) /\ UNCHANGED <<proposalVars, browserVars>>
  \/ RestartServer(Handlers \ PhpHandlers)
     /\ UNCHANGED <<linkVars, proposalVars, browserVars>>

SessionSpec == SessionInit /\ [][SessionNext]_sessionVars

(***************************************************************************)
(* Properties.                                                             *)
(***************************************************************************)
(* Whoever the server takes a caller for has signed a challenge for that   *)
(* very wallet: each session, the initiator of each link and the proposer  *)
(* of each offer, through account switches in the middle of a sign-in,     *)
(* fallbacks, restarts and requests that different hosts answer.           *)
ActsAreProved ==
  /\ \A t \in Tokens : sessions[t] # Nothing =>
       <<sessions[t].wallet, sessions[t].challenge>> \in signed
  /\ \A l \in Links : links[l] # Nothing =>
       \E c \in Challenges : <<links[l].initiator, c>> \in signed
  /\ \A p \in ProposalIds : proposals[p] # Nothing =>
       \E c \in Challenges : <<proposals[p].proposer, c>> \in signed

(* A tab that shows "signed in" holds a token issued for the account that  *)
(* is connected now, not for one that was connected when it asked.         *)
AuthenticatedIsOwner ==
  \A t \in Tabs : Authenticated(tabs[t]) =>
    /\ sessions[tabs[t].token] # Nothing
    /\ sessions[tabs[t].token].wallet = tabs[t].connected

(* The wallet a link is recorded as claimed by never changes, however many *)
(* claims passed the check before the first of them wrote.                 *)
ClaimSticks ==
  [][\A l \in Links :
       links[l] # Nothing /\ links[l].claimer # Nothing =>
         links'[l] # Nothing /\ links'[l].claimer = links[l].claimer]_sessionVars
=============================================================================

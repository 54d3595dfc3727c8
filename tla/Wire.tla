-------------------------------- MODULE Wire --------------------------------
(***************************************************************************)
(* What the programs read out of the client's bytes and the pages out of   *)
(* the programs': the handlers' and structs' own order of the fields, and  *)
(* the steps of a deal that is proposed from a form, opened, confirmed and *)
(* driven on through both.                                                 *)
(***************************************************************************)
EXTENDS DealRegistry, ClientWire

CONSTANTS
  Forms,      \* what the proposal form may hold when its button is pressed
  Shorts,     \* 16-bit field |-> the number a page passes in it, in halves
  NaN,        \* a field of the form that is not a number
  Empty       \* nothing sent, received or on the screen

(* What a form may hold when it is sent: any number of basis points and    *)
(* months, negative ones too, for the limits of its inputs are advice; the *)
(* encoder of an amount throws at a negative one.                          *)
Form ==
  LET Entry == Int \union {NaN}
      AmountEntry == Nat \union {NaN}
  IN  [principal : AmountEntry, loanMint : Mints, collateralMint : Mints,
       collateral : AmountEntry, rate : Entry, months : Entry, side : {"Borrower", "Lender"},
       counterparty : Parties]

ShortFields ==
  {"rate", "duration", "ltv", "maxLtv", "partialLtv", "fullLtv", "penalty", "maxPartial",
   "paymentsMade"}

ASSUME WireAssumption ==
  /\ Forms \subseteq Form
  /\ NaN \notin Int
  /\ Shorts \in [ShortFields -> Int]

VARIABLES
  flight,     \* the transaction on its way
  received,   \* the last instruction, as the program read it
  screen      \* the account open until a button is pressed: as stored and as shown

messageVars == <<flight, received, screen>>
wireVars == <<dealVars, messageVars>>

(***************************************************************************)
(* The programs' tables: arguments and accounts in declaration order.  An  *)
(* account the program does not mark `mut` may still be sent as writable.  *)
(***************************************************************************)
Reads(role) == [role |-> role, signs |-> TRUE, writable |-> FALSE]

DealTermsFields ==
  <<Amount("principal"), Key("loanMint"), Key("collateralMint"), Amount("collateral"),
    Short("rate"), Short("duration"), Short("ltv")>>

RegistryHandlers ==
  LET AdvanceState == <<Reads("authority"), Writer("deal"), Reader("config")>>
  IN  [proposeDeal |-> Ix(
         <<DealIdField>> \o DealTermsFields \o
         <<Byte("visibility"), Byte("creatorSide"), Optional("counterparty")>>,
         <<Signer("creator"), Writer("deal"), Reader("system")>>),
       confirmDeal |-> Ix(<<Digest>>, <<Reads("confirmer"), Writer("deal")>>),
       cancelDeal |-> Ix(<<>>, <<Reads("actor"), Writer("deal")>>),
       beginFunding |-> Ix(<<>>, AdvanceState),
       markActive |-> Ix(<<>>, AdvanceState),
       closeDeal |-> Ix(<<Byte("outcome")>>, AdvanceState)]

VaultHandlers ==
  LET Pays(to) == <<Writer("vault"), Reads("authority"), Reader("collateralMint"),
                    Writer("vaultTokens"), Writer(to), Reader("tokenProgram")>>
  IN  [initializeVault |-> Ix(
         <<DealIdField, Key("loanAuthority"), Key("liquidationAuthority")>>,
         <<Signer("borrower"), Writer("vault"), Reader("collateralMint"),
           Writer("vaultTokens"), Reader("tokenProgram"), Reader("system")>>),
       depositCollateral |-> Ix(<<Amount("amount")>>,
         <<Writer("vault"), Signer("borrower"), Reader("collateralMint"),
           Writer("borrowerTokens"), Writer("vaultTokens"), Reader("tokenProgram")>>),
       lockVault |-> Ix(<<Amount("required")>>, <<Writer("vault"), Reads("authority")>>),
       releaseCollateral |-> Ix(<<>>, Pays("borrowerTokens")),
       seizeCollateral |-> Ix(<<Amount("amount")>>, Pays("recipientTokens"))]

LoanHandlers ==
  LET Payment == <<Writer("loan"), Signer("borrower"), Reader("loanMint"),
                   Writer("borrowerTokens"), Writer("lenderTokens"), Reader("tokenProgram")>>
  IN  [activateLoan |-> Ix(
         <<DealIdField, Amount("principal"), Short("rate"), Short("duration"),
           Amount("collateral"), Amount("treasuryFee")>>,
         <<Signer("lender"), Reader("borrower"), Writer("loan"), Reader("loanMint"),
           Writer("lenderTokens"), Writer("borrowerTokens"), Writer("treasuryTokens"),
           Reader("tokenProgram"), Reader("system")>>),
       makePayment |-> Ix(<<Amount("amount")>>, Payment),
       repayInFull |-> Ix(<<>>, Payment),
       flagDefault |-> Ix(<<>>, <<Writer("loan"), Reads("reporter")>>),
       markLiquidated |-> Ix(<<Byte("fully")>>,
         <<Writer("loan"), Reads("liquidationEngine"), Reader("loanConfig")>>)]

PositionFields ==
  <<DealIdField, Amount("outstandingDebt"), Amount("collateral"),
    Byte("collateralDecimals"), Byte("loanDecimals"), Short("maxLtv"),
    Short("partialLtv"), Short("fullLtv")>>

EngineHandlers ==
  LET Execute == <<Reader("engine"), Reads("keeper"), Reader("oracle"), Reader("priceUpdate")>>
  IN  [evaluate |-> Ix(PositionFields, Execute),
       executePartialLiquidation |-> Ix(
         PositionFields \o <<Amount("missedPayment"), Short("penalty"), Short("maxPartial")>>,
         Execute),
       executeFullLiquidation |-> Ix(PositionFields \o <<Byte("terminalDefault")>>, Execute)]

HandlerTable == Merged(Merged(RegistryHandlers, VaultHandlers),
                       Merged(LoanHandlers, EngineHandlers))

DealLayout ==
  <<DealIdField, Key("creator"), Key("borrower"), Key("lender"), Byte("creatorSide")>>
  \o DealTermsFields \o
  <<Byte("visibility"), Byte("origin"), Byte("dealState"), Stamp("createdAt"),
    Stamp("confirmedAt"), Byte("bump")>>

LoanLayout ==
  <<DealIdField, Key("borrower"), Key("lender"), Key("loanMint"), Amount("principal"),
    Short("rate"), Short("duration"), Amount("collateral"), Amount("totalRepayment"),
    Amount("installment"), Amount("finalInstallment"), Short("paymentsMade"),
    Amount("totalPaid"), Stamp("activatedAt"), Byte("loanState"), Byte("bump")>>

VaultLayout ==
  <<DealIdField, Key("borrower"), Key("collateralMint"), Key("tokenAccount"),
    Key("loanAuthority"), Key("liquidationAuthority"), Amount("collateral"),
    Byte("vaultState"), Byte("bump")>>

Layouts == [Deal |-> DealLayout, Loan |-> LoanLayout, Vault |-> VaultLayout]

ProgramEnums ==
  [creatorSide |-> <<"Borrower", "Lender">>, visibility |-> <<"Private", "Public">>,
   origin |-> <<"Direct", "Marketplace">>,
   dealState |-> <<"Proposed", "Confirmed", "Funding", "Active", "Repaying", "Defaulted",
                   "PartiallyLiquidated", "FullyLiquidated", "Completed", "Cancelled">>,
   outcome |-> <<"Completed", "PartiallyLiquidated", "FullyLiquidated">>,
   loanState |-> <<"Active", "Defaulted", "PartiallyLiquidated", "FullyLiquidated", "Completed">>,
   vaultState |-> <<"Open", "Locked", "Closed">>]

(***************************************************************************)
(* The pages.  A number typed into the form is given in halves, so that a  *)
(* fraction is among them; the encoders drop it and keep the low sixteen   *)
(* bits of the rest, in two's complement when it is negative.              *)
(***************************************************************************)
Number(typed) == IF typed = NaN THEN 0 ELSE typed

(* `Number(x) || 1` in the field for custom months, and at least one.      *)
Months(typed) == IF Number(typed) < 2 THEN 2 ELSE typed

FromForm(d, form) ==
  [dealId |-> d, principal |-> Number(form.principal), loanMint |-> form.loanMint,
   collateralMint |-> form.collateralMint, collateral |-> Number(form.collateral),
   rate |-> Number(form.rate), duration |-> Months(form.months), ltv |-> 10000,
   visibility |-> IF form.counterparty = Default THEN "Public" ELSE "Private",
   creatorSide |-> form.side, counterparty |-> form.counterparty]

Whole(halves) == IF halves < 0 THEN -((-halves) \div 2) ELSE halves \div 2

Low16(halves) == Whole(halves) % 65536

Sent(layout, input) ==
  [i \in {layout[j][1] : j \in DOMAIN layout} |->
     IF i \in DOMAIN Shorts THEN Low16(input[i]) ELSE input[i]]

Send(name, by, input) ==
  LET ix == Builders[name]
  IN  /\ flight = Empty
      /\ flight' = [name |-> name, by |-> by, input |-> input, keys |-> ix.keys,
                    bytes |-> Write(ClientEnums, ix.data, Sent(ix.data, input))]
      /\ received' = Empty /\ screen' = Empty
      /\ UNCHANGED dealVars

(* propose(): the button of the new-deal page.                             *)
PressPropose(w) ==
  \E d \in Deals, form \in Forms : Send("proposeDeal", w, FromForm(d, form))

SerializedBy(enums, layout, terms) == Write(enums, layout, terms)

(* "Accept & Confirm These Exact Terms": of the deal on the screen.        *)
PressConfirm(w) ==
  /\ screen # Empty /\ screen.kind = "Deal"
  /\ Send("confirmDeal", w,
          [termsHash |-> SerializedBy(ClientEnums, SerializeTerms, screen.shown),
           dealId |-> screen.shown.dealId, seen |-> screen.shown])

(* The other buttons pass what they were given; nothing here reads it.     *)
Given(name) ==
  LET fields == {Builders[name].data[i][1] : i \in DOMAIN Builders[name].data}
  IN  {[f \in fields \union {"dealId"} |->
          CASE f = "dealId" -> d
            [] f = "outcome" -> outcome
            [] f \in DOMAIN Shorts -> Shorts[f]
            [] OTHER -> f] : d \in Deals, outcome \in CloseOutcome}

Press(w) ==
  \E name \in DOMAIN Builders \ {"proposeDeal", "confirmDeal"} :
    \E input \in Given(name) : Send(name, w, input)

(***************************************************************************)
(* The cluster runs the transaction: the program reads its own order of    *)
(* arguments and accounts out of the bytes and keys it was sent.           *)
(***************************************************************************)
Terms(args) ==
  [principal |-> args.principal, loanMint |-> args.loanMint,
   collateralMint |-> args.collateralMint, collateral |-> args.collateral,
   rate |-> args.rate, duration |-> args.duration, ltv |-> args.ltv]

Effect(name, d, by, args) ==
  \/ /\ name = "proposeDeal"
     /\ ProposeDeal(args.dealId, by, Terms(args), args.visibility, args.creatorSide,
                    args.counterparty)
  \/ /\ name = "confirmDeal" /\ HasDeal(d)
     /\ args.termsHash = SerializedBy(ProgramEnums, DealTermsFields, deals[d].terms)
     /\ ConfirmDeal(d, by, Terms(flight.input.seen))
  \/ name = "cancelDeal" /\ CancelDeal(d, by)
  \/ name = "beginFunding" /\ BeginFunding(d, by)
  \/ name = "markActive" /\ MarkActive(d, by)
  \/ name = "closeDeal" /\ CloseDeal(d, by, args.outcome)

Arrive ==
  LET handler == HandlerTable[flight.name]
      args == Read(ProgramEnums, handler.data, flight.bytes)
  IN  /\ flight # Empty
      /\ received' = [name |-> flight.name, input |-> flight.input, args |-> args,
                      keys |-> flight.keys]
      /\ \/ Effect(flight.name, flight.input.dealId, flight.by, args)
         \/ UNCHANGED dealVars
      /\ flight' = Empty
      /\ UNCHANGED screen

(***************************************************************************)
(* Opening an account: deals are those of the registry, loans and vaults   *)
(* any state of theirs.                                                    *)
(***************************************************************************)
StoredDeal(d) ==
  LET deal == deals[d]
  IN  Merged(deal.terms,
        [dealId |-> d, creator |-> deal.creator, borrower |-> deal.borrower,
         lender |-> deal.lender, creatorSide |-> deal.creatorSide,
         visibility |-> deal.visibility, dealState |-> deal.state,
         origin |-> IF deal.visibility = "Public" THEN "Marketplace" ELSE "Direct",
         createdAt |-> "createdAt", confirmedAt |-> "confirmedAt", bump |-> "bump"])

Stored(kind) ==
  IF kind = "Deal" THEN {StoredDeal(d) : d \in {e \in Deals : HasDeal(e)}}
  ELSE LET layout == Layouts[kind]
           state == IF kind = "Loan" THEN "loanState" ELSE "vaultState"
           names == ProgramEnums[state]
       IN  {[f \in {layout[i][1] : i \in DOMAIN layout} |->
               IF f = state THEN names[n]
               ELSE IF f \in DOMAIN Shorts THEN Low16(Shorts[f]) ELSE f]
            : n \in DOMAIN names}

Open ==
  /\ flight = Empty
  /\ \E kind \in DOMAIN Layouts : \E account \in Stored(kind) :
       screen' = [kind |-> kind, stored |-> account,
                  shown |-> Read(ClientEnums, Decoders[kind],
                                 Write(ProgramEnums, Layouts[kind], account))]
  /\ received' = Empty
  /\ UNCHANGED <<dealVars, flight>>

WireInit == DealInit /\ flight = Empty /\ received = Empty /\ screen = Empty

WireNext ==
  \/ \E o \in Operators : InitializeRegistry(o, o, o) /\ UNCHANGED messageVars
  \/ \E w \in Wallets : PressPropose(w) \/ PressConfirm(w) \/ Press(w)
  \/ Arrive \/ Open

WireSpec == WireInit /\ [][WireNext]_wireVars

(***************************************************************************)
(* Properties.                                                             *)
(***************************************************************************)
Fits(f, input) ==
  f \in DOMAIN Shorts =>
    input[f] \in Nat /\ input[f] % 2 = 0 /\ input[f] < 2 * 65536

(* Whatever a page passes to a builder is what the handler of the program  *)
(* reads under that name, whole 16-bit numbers among it, every account is  *)
(* in the place of its role with the privileges the program requires, and  *)
(* the digest is the one the program computes of the terms on the screen.  *)
ArgumentsArrive ==
  received # Empty =>
    LET handler == HandlerTable[received.name]
        input == received.input
    IN  /\ \A i \in DOMAIN handler.data :
             LET f == handler.data[i][1]
             IN  Fits(f, input) =>
                   received.args[f] =
                     CASE f \in DOMAIN Shorts -> input[f] \div 2
                       [] f = "termsHash" ->
                            SerializedBy(ProgramEnums, DealTermsFields, input.seen)
                       [] OTHER -> input[f]
        /\ Len(received.keys) = Len(handler.keys)
        /\ \A i \in DOMAIN handler.keys :
             /\ received.keys[i].role = handler.keys[i].role
             /\ handler.keys[i].signs => received.keys[i].signs
             /\ handler.keys[i].writable => received.keys[i].writable

(* A page that opens an account shows every field as the program stored    *)
(* it, states by their names.                                              *)
ShownIsStored ==
  screen # Empty =>
    \A f \in DOMAIN screen.stored : screen.shown[f] = screen.stored[f]
=============================================================================

----------------------------- MODULE ClientWire -----------------------------
(***************************************************************************)
(* The client's side of the bytes between the pages and the programs.  It  *)
(* has no IDL: each builder writes the arguments and lists the accounts of *)
(* its instruction by hand, and each decoder reads an account by hand, in  *)
(* the order its author took from the program.  Here they are tables, and  *)
(* Write and Read what either side does with such a table.                 *)
(*                                                                         *)
(* What is sent is the sequence of its fields, each its width in bytes and *)
(* its value.  A field read with another width than it was written with is *)
(* garbage, and so is whatever is read after it.                           *)
(***************************************************************************)
EXTENDS ProtocolBase, Sequences, SequencesExt

CONSTANT Garbage   \* what is read out of bytes that are not one whole field

(***************************************************************************)
(* Bytes.                                                                  *)
(***************************************************************************)
DealIdField  == <<"dealId", "id">>
Key(f)       == <<f, "key">>
Amount(f)    == <<f, "u64">>
Stamp(f)     == <<f, "i64">>
Short(f)     == <<f, "u16">>
Byte(f)      == <<f, "u8">>
Optional(f)  == <<f, "option">>
Digest       == <<"termsHash", "hash">>

Sizes == [id |-> 16, key |-> 32, hash |-> 32, u64 |-> 8, i64 |-> 8, u16 |-> 2]

Width(kind) == IF kind \in DOMAIN Sizes THEN Sizes[kind] ELSE 1

Put(width, value) == <<[width |-> width, value |-> value]>>

(* Enumerations travel as the index of the name in the writer's table.     *)
Index(names, name) == CHOOSE i \in DOMAIN names : names[i] = name

WriteField(enums, field, value) ==
  LET f == field[1]
      kind == field[2]
  IN  CASE kind = "option" /\ value = Default -> Put(1, 0)
        [] kind = "option" /\ value # Default -> Put(1, 1) \o Put(Width("key"), value)
        [] f \in DOMAIN enums -> Put(1, Index(enums[f], value))
        [] OTHER -> Put(Width(kind), value)

Write(enums, layout, values) ==
  FlattenSeq([i \in DOMAIN layout |-> WriteField(enums, layout[i], values[layout[i][1]])])

(* What a read of `width` bytes returns and what it leaves to be read.     *)
Take(bytes, width) ==
  IF bytes # <<>> /\ Head(bytes).width = width
  THEN [value |-> Head(bytes).value, rest |-> Tail(bytes)]
  ELSE [value |-> Garbage, rest |-> <<>>]

(* f, and g where f has nothing.                                           *)
Merged(f, g) ==
  [x \in DOMAIN f \union DOMAIN g |-> IF x \in DOMAIN f THEN f[x] ELSE g[x]]

ReadField(enums, soFar, field) ==
  LET f == field[1]
      kind == field[2]
      taken == Take(soFar.rest, Width(kind))
      Got(value, rest) == [values |-> Merged(soFar.values, [x \in {f} |-> value]),
                           rest |-> rest]
  IN  CASE kind = "option" /\ taken.value = 0 -> Got(Default, taken.rest)
        [] kind = "option" /\ taken.value = 1 ->
             LET key == Take(taken.rest, Width("key")) IN Got(key.value, key.rest)
        [] f \in DOMAIN enums /\ taken.value \in DOMAIN enums[f] ->
             Got(enums[f][taken.value], taken.rest)
        [] OTHER -> Got(taken.value, taken.rest)

Read(enums, layout, bytes) ==
  LET after[i \in 0..Len(layout)] ==
        IF i = 0 THEN [values |-> <<>>, rest |-> bytes]
                 ELSE ReadField(enums, after[i - 1], layout[i])
  IN  after[Len(layout)].values

(***************************************************************************)
(* The client's tables.  The accounts of an instruction are given by role. *)
(***************************************************************************)
Signer(role) == [role |-> role, signs |-> TRUE, writable |-> TRUE]
Writer(role) == [role |-> role, signs |-> FALSE, writable |-> TRUE]
Reader(role) == [role |-> role, signs |-> FALSE, writable |-> FALSE]

Ix(data, keys) == [data |-> data, keys |-> keys]

RegistryBuilders ==
  LET AdvanceKeys == <<Signer("authority"), Writer("deal"), Reader("config")>>
  IN  [proposeDeal |-> Ix(
         <<DealIdField, Amount("principal"), Key("loanMint"), Key("collateralMint"),
           Amount("collateral"), Short("rate"), Short("duration"), Short("ltv"),
           Byte("visibility"), Byte("creatorSide"), Optional("counterparty")>>,
         <<Signer("creator"), Writer("deal"), Reader("system")>>),
       confirmDeal |-> Ix(<<Digest>>, <<Signer("confirmer"), Writer("deal")>>),
       cancelDeal |-> Ix(<<>>, <<Signer("actor"), Writer("deal")>>),
       beginFunding |-> Ix(<<>>, AdvanceKeys),
       markActive |-> Ix(<<>>, AdvanceKeys),
       closeDeal |-> Ix(<<Byte("outcome")>>, AdvanceKeys)]

VaultBuilders ==
  LET Payout(to) == <<Writer("vault"), Signer("authority"), Reader("collateralMint"),
                      Writer("vaultTokens"), Writer(to), Reader("tokenProgram")>>
  IN  [initializeVault |-> Ix(
         <<DealIdField, Key("loanAuthority"), Key("liquidationAuthority")>>,
         <<Signer("borrower"), Writer("vault"), Reader("collateralMint"),
           Writer("vaultTokens"), Reader("tokenProgram"), Reader("system")>>),
       depositCollateral |-> Ix(<<Amount("amount")>>,
         <<Writer("vault"), Signer("borrower"), Reader("collateralMint"),
           Writer("borrowerTokens"), Writer("vaultTokens"), Reader("tokenProgram")>>),
       lockVault |-> Ix(<<Amount("required")>>, <<Writer("vault"), Signer("authority")>>),
       releaseCollateral |-> Ix(<<>>, Payout("borrowerTokens")),
       seizeCollateral |-> Ix(<<Amount("amount")>>, Payout("recipientTokens"))]

Repayment == <<Writer("loan"), Signer("borrower"), Reader("loanMint"),
               Writer("borrowerTokens"), Writer("lenderTokens"), Reader("tokenProgram")>>

ActivateLoanMutant ==
  <<DealIdField, Amount("principal"), Short("duration"), Short("rate"),
    Amount("collateral"), Amount("treasuryFee")>>

ActivateLoanData ==
  <<DealIdField, Amount("principal"), Short("rate"), Short("duration"),
    Amount("collateral"), Amount("treasuryFee")>>

LoanBuilders ==
  [activateLoan |-> Ix(
     ActivateLoanData,
     <<Signer("lender"), Reader("borrower"), Writer("loan"), Reader("loanMint"),
       Writer("lenderTokens"), Writer("borrowerTokens"), Writer("treasuryTokens"),
       Reader("tokenProgram"), Reader("system")>>),
   makePayment |-> Ix(<<Amount("amount")>>, Repayment),
   repayInFull |-> Ix(<<>>, Repayment),
   flagDefault |-> Ix(<<>>, <<Writer("loan"), Signer("reporter")>>),
   markLiquidated |-> Ix(<<Byte("fully")>>,
     <<Writer("loan"), Signer("liquidationEngine"), Reader("loanConfig")>>)]

EncodePositionInput ==
  <<DealIdField, Amount("outstandingDebt"), Amount("collateral"),
    Byte("collateralDecimals"), Byte("loanDecimals"), Short("maxLtv"),
    Short("partialLtv"), Short("fullLtv")>>

EngineBuilders ==
  LET keys == <<Writer("engine"), Signer("keeper"), Reader("oracle"), Reader("priceUpdate")>>
  IN  [evaluate |-> Ix(EncodePositionInput, keys),
       executePartialLiquidation |-> Ix(
         EncodePositionInput \o <<Amount("missedPayment"), Short("penalty"), Short("maxPartial")>>,
         keys),
       executeFullLiquidation |-> Ix(EncodePositionInput \o <<Byte("terminalDefault")>>, keys)]

Builders == Merged(Merged(RegistryBuilders, VaultBuilders),
                   Merged(LoanBuilders, EngineBuilders))

SerializeTerms ==
  <<Amount("principal"), Key("loanMint"), Key("collateralMint"), Amount("collateral"),
    Short("rate"), Short("duration"), Short("ltv")>>

DealStates ==
  <<"Proposed", "Confirmed", "Funding", "Active", "Repaying", "Defaulted",
    "PartiallyLiquidated", "FullyLiquidated", "Completed", "Cancelled">>

ClientEnums ==
  [visibility |-> <<"Private", "Public">>, creatorSide |-> <<"Borrower", "Lender">>,
   outcome |-> <<"Completed", "PartiallyLiquidated", "FullyLiquidated">>,
   origin |-> <<"Direct", "Marketplace">>, dealState |-> DealStates,
   loanState |-> <<"Active", "Defaulted", "PartiallyLiquidated", "FullyLiquidated", "Completed">>,
   vaultState |-> <<"Open", "Locked", "Closed">>]

DecodeDealMutant ==
  <<DealIdField, Key("creator"), Key("lender"), Key("borrower"), Byte("creatorSide")>>
  \o SerializeTerms \o
  <<Byte("visibility"), Byte("origin"), Byte("dealState"), Stamp("createdAt"),
    Stamp("confirmedAt"), Byte("bump")>>

DecodeDeal ==
  <<DealIdField, Key("creator"), Key("borrower"), Key("lender"), Byte("creatorSide")>>
  \o SerializeTerms \o
  <<Byte("visibility"), Byte("origin"), Byte("dealState"), Stamp("createdAt"),
    Stamp("confirmedAt"), Byte("bump")>>

DecodeLoan ==
  <<DealIdField, Key("borrower"), Key("lender"), Key("loanMint"), Amount("principal"),
    Short("rate"), Short("duration"), Amount("collateral"), Amount("totalRepayment"),
    Amount("installment"), Amount("finalInstallment"), Short("paymentsMade"),
    Amount("totalPaid"), Stamp("activatedAt"), Byte("loanState"), Byte("bump")>>

DecodeVault ==
  <<DealIdField, Key("borrower"), Key("collateralMint"), Key("tokenAccount"),
    Key("loanAuthority"), Key("liquidationAuthority"), Amount("collateral"),
    Byte("vaultState"), Byte("bump")>>

Decoders == [Deal |-> DecodeDeal, Loan |-> DecodeLoan, Vault |-> DecodeVault]
=============================================================================

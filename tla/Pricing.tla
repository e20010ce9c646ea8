------------------------------ MODULE Pricing ------------------------------
(***************************************************************************)
(* The pricing provider (src/pkg/providers/pricing/pricing.go): an update, *)
(* run at startup and then by one controller, asks the billing service for *)
(* the prices of the flavors that the instance type provider holds, batch  *)
(* by batch.  The service rejects a whole batch for one product it does    *)
(* not sell; the update then remembers that product for as long as the     *)
(* process lives, and asks again without it.  The prices are replaced only *)
(* once every batch is answered.                                           *)
(*                                                                         *)
(* An update holds no lock while it asks, so that the flavors are          *)
(* refreshed, the service changes its rates and the process ends between   *)
(* its calls.                                                              *)
(*                                                                         *)
(* Simplifications: instance types are numbered in the order in which      *)
(* batches take them; what an SDK error says is reduced to its codes and   *)
(* the product it names.                                                   *)
(***************************************************************************)
EXTENDS Naturals, FiniteSets

CONSTANTS
  Type,       \* instance types
  Product,    \* resource specs of the billing service
  SpecOf,     \* resourceSpec: the product of an instance type
  Price,      \* positive amounts
  Rates,      \* what the service may ask for its products
  Errors,     \* errors of the service or of the way to it
  BatchSize,  \* maxProductsPerBatch
  Missing,    \* the service does not sell the product
  Unrated     \* it sells it, and names no positive amount

\* Stands for math.MaxFloat64; no price is 0.
MaxPrice == 0

NotFoundCodes == {"CBC.6006", "CBC.99006006"}
NoCode == "none"
NoProduct == "none"

\* The code of the error, NoCode if it is no response of the service; the code
\* in the payload its message may carry; the product its message names.
Error == [code : STRING, payload : STRING, product : Product \cup {NoProduct}]

ASSUME TypeAssumption == Type \subseteq Nat
ASSUME SpecAssumption == SpecOf \in [Type -> Product]
ASSUME ProductAssumption == NoProduct \notin Product
ASSUME RatesAssumption == Rates \subseteq [Product -> Price \cup {Missing, Unrated}]
ASSUME PriceAssumption == Price \subseteq Nat \ {0}
ASSUME RateAssumption == Missing \notin Price /\ Unrated \notin Price
ASSUME ErrorsAssumption == Errors \subseteq Error
ASSUME BatchAssumption == BatchSize \in Nat \ {0}

VARIABLES
  flavors,      \* InstanceTypeInfos of the instance type provider
  rates,        \* what the service asks
  step,         \* "idle" or "update"
  todo,         \* instance types in no batch so far
  remaining,    \* those of the batch being asked for
  fetched,      \* the prices answered so far
  quotes,       \* history: what the service asked at some time of this update
  steady,       \* history: those of this update it asked a price for throughout
  prices,       \* onDemandPrices
  unsupported   \* unsupportedProducts

env == <<flavors, rates>>
update == <<step, todo, remaining, fetched, quotes, steady>>
vars == <<env, update, prices, unsupported>>

\* Prices of some of the instance types.
Maps == UNION {[T -> Price] : T \in SUBSET Type}

Nothing == [t \in {} |-> MaxPrice]

Rate(t) == rates[SpecOf[t]]

Rated(r) == {t \in Type : r[SpecOf[t]] \in Price}

Quoted(r) == {<<t, r[SpecOf[t]]>> : t \in Rated(r)}

TypeOK ==
  /\ flavors \subseteq Type /\ rates \in Rates
  /\ step \in {"idle", "update"}
  /\ todo \subseteq Type /\ remaining \subseteq Type /\ steady \subseteq Type
  /\ fetched \in Maps /\ prices \in Maps
  /\ unsupported \subseteq Type

Init ==
  /\ flavors \in SUBSET Type /\ rates \in Rates
  /\ step = "idle" /\ todo = {} /\ remaining = {} /\ fetched = Nothing
  /\ quotes = {} /\ steady = {}
  /\ prices = Nothing /\ unsupported = {}

-----------------------------------------------------------------------------
(* UpdateOnDemandPricing *)

\* filterUnsupportedInstanceTypes.
Supported(types) == types \ unsupported

\* Without flavors the update fails before it asks anything.
Start ==
  /\ step = "idle" /\ flavors # {}
  /\ step' = "update" /\ todo' = Supported(flavors)
  /\ remaining' = {} /\ fetched' = Nothing
  /\ quotes' = Quoted(rates) /\ steady' = todo' \cap Rated(rates)
  /\ UNCHANGED <<env, prices, unsupported>>

\* The first BatchSize of what is left, or all of it.
IsBatch(B) ==
  /\ \A t \in B, u \in todo \ B : t < u
  /\ Cardinality(B) <= BatchSize
  /\ Cardinality(B) = BatchSize \/ B = todo

NextBatch ==
  /\ step = "update" /\ remaining = {} /\ todo # {}
  /\ \E B \in SUBSET todo :
       /\ IsBatch(B)
       /\ remaining' = B /\ todo' = todo \ B
  /\ UNCHANGED <<env, step, fetched, quotes, steady, prices, unsupported>>

\* The service's answer: rejected when it does not sell one of the products.
Sold == \A t \in remaining : Rate(t) # Missing

\* Any result is a price.
EveryResult == remaining

\* onDemandPage takes the positive amounts.
OnDemandPage == remaining \cap Rated(rates)

BatchRated ==
  /\ step = "update" /\ remaining # {} /\ Sold
  /\ fetched' = [t \in DOMAIN fetched \cup OnDemandPage |->
                   IF t \in OnDemandPage THEN Rate(t) ELSE fetched[t]]
  /\ remaining' = {}
  /\ UNCHANGED <<env, step, todo, quotes, steady, prices, unsupported>>

\* unsupportedProductResourceSpec reads the payload of a wrapped error first.
ErrorCode(err) == IF err.payload # NoCode THEN err.payload ELSE err.code

Names(err, product) ==
  /\ err.code # NoCode
  /\ ErrorCode(err) \in NotFoundCodes
  /\ err.product = product

\* The whole batch goes for one product.
WholeBatch(err) == IF \E t \in remaining : Names(err, SpecOf[t]) THEN remaining ELSE {}

\* filterOutProductInfoByResourceSpec.
RemovedFor(err) == {t \in remaining : Names(err, SpecOf[t])}

\* The service names a product that it does not sell, of this batch or not.
Truthful(err) == err.product # NoProduct => rates[err.product] = Missing

\* The update asks again without it; when nothing is left of a batch, the batch
\* is answered.
ProductRejected(err) ==
  /\ step = "update" /\ Truthful(err)
  /\ RemovedFor(err) # {}
  /\ unsupported' = unsupported \cup RemovedFor(err)
  /\ remaining' = remaining \ RemovedFor(err)
  /\ UNCHANGED <<env, step, todo, fetched, quotes, steady, prices>>

\* What the service says, when nothing else goes wrong.
Answered == BatchRated \/ \E err \in Errors : ProductRejected(err)

Idle ==
  /\ step' = "idle" /\ todo' = {} /\ remaining' = {} /\ fetched' = Nothing
  /\ quotes' = {} /\ steady' = {}

\* Any other error ends the update, and the prices stay.
UpdateFails(err) ==
  /\ step = "update" /\ Truthful(err)
  /\ remaining # {} /\ RemovedFor(err) = {}
  /\ Idle
  /\ UNCHANGED <<env, prices, unsupported>>

\* An update that merges what it fetched into what it had.
MergedWithOld ==
  [t \in DOMAIN prices \cup DOMAIN fetched |-> IF t \in DOMAIN fetched THEN fetched[t] ELSE prices[t]]

NewPrices == fetched

Store ==
  /\ step = "update" /\ remaining = {} /\ todo = {}
  /\ prices' = NewPrices
  /\ Idle
  /\ UNCHANGED <<env, unsupported>>

-----------------------------------------------------------------------------
(* The rest of the program, and the service *)

\* offeringPrice of the instance type provider.
OfferingPrice(t) == IF t \in DOMAIN prices THEN prices[t] ELSE MaxPrice

FlavorsRefreshed ==
  /\ flavors' \in SUBSET Type
  /\ UNCHANGED <<rates, update, prices, unsupported>>

RatesChange ==
  /\ rates' \in Rates
  /\ quotes' = IF step = "update" THEN quotes \cup Quoted(rates') ELSE quotes
  /\ steady' = steady \cap Rated(rates')
  /\ UNCHANGED <<flavors, step, todo, remaining, fetched, prices, unsupported>>

\* The process ends; the next one begins with nothing.
Restart ==
  /\ prices' = Nothing /\ unsupported' = {}
  /\ Idle
  /\ UNCHANGED env

Next ==
  \/ Start \/ NextBatch \/ BatchRated \/ Store
  \/ \E err \in Errors : ProductRejected(err) \/ UpdateFails(err)
  \/ FlavorsRefreshed \/ RatesChange
  \/ Restart

Spec == Init /\ [][Next]_vars

\* The controller updates again and again; the service answers each request, and
\* one that is made again and again is answered without another error.
Fairness ==
  /\ WF_vars(Start) /\ WF_vars(NextBatch) /\ WF_vars(Store)
  /\ \A B \in (SUBSET Type) \ {{}} : SF_vars(remaining = B /\ Answered)

FairSpec == Spec /\ Fairness

-----------------------------------------------------------------------------
(* Properties *)

\* A product that the service rejects costs no other its price: an update that
\* answered all batches has a price for each instance type it began with that
\* the service asked one for throughout.
RejectionCostsNoOther ==
  step = "update" => steady \subseteq DOMAIN fetched \cup remaining \cup todo

\* Prices are replaced as a whole, by what the service asked while the update
\* ran: none is kept from an earlier update, none comes from one that failed.
PricesAreCurrent ==
  [][prices' # prices => \A t \in DOMAIN prices' : <<t, prices'[t]>> \in quotes]_vars

\* An instance type is given up only while the service does not sell it.
GivenUpForCause ==
  [][\A t \in unsupported' \ unsupported : Rate(t) = Missing]_vars

\* Once flavors and rates stay and the process lives, every flavor comes to be
\* offered at the service's price, and those it rejected behind all others.
PricesConverge ==
  (<>[][FALSE]_env /\ <>[][~Restart]_vars) =>
    <>[](\A t \in flavors :
           OfferingPrice(t) = IF t \notin unsupported /\ Rate(t) \in Price THEN Rate(t) ELSE MaxPrice)
=============================================================================

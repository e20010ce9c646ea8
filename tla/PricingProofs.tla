--------------------------- MODULE PricingProofs ---------------------------
(***************************************************************************)
(* No price is lost to a rejected product, none survives from an earlier   *)
(* update, and none is given up without cause, for any instance types,     *)
(* rates, errors and batch size.                                           *)
(*                                                                         *)
(* What an update still owes lies in the batch or behind it, and the two   *)
(* are disjoint, so that a rejection, which removes instance types from    *)
(* the batch, cannot give up one that is still to come; what it removes    *)
(* has no rate now, so that nothing that was rated throughout goes.        *)
(***************************************************************************)
EXTENDS Pricing, TLAPS

\* The history of an update, related to the service and to what was fetched.
QuotesKnown ==
  step = "update" =>
    /\ Quoted(rates) \subseteq quotes
    /\ \A t \in DOMAIN fetched : <<t, fetched[t]>> \in quotes

SteadyIsRated == step = "update" => steady \subseteq Rated(rates)

BatchesDisjoint == todo \cap remaining = {}

\* What the service rejected is not asked for again while the process lives, not
\* by the update that learned of it nor by a later one: rejecting costs a call
\* for the whole batch each time.
RejectedOnce == unsupported \cap (todo \cup remaining) = {}

IInv == /\ TypeOK /\ QuotesKnown /\ SteadyIsRated /\ BatchesDisjoint
        /\ RejectedOnce /\ RejectionCostsNoOther

-----------------------------------------------------------------------------

\* A function on some of the instance types is a map, and conversely.
LEMMA MapIntro ==
  ASSUME NEW T \in SUBSET Type, NEW m \in [T -> Price] PROVE m \in Maps
BY DEF Maps

LEMMA MapElim ==
  ASSUME NEW m \in Maps PROVE DOMAIN m \subseteq Type /\ m \in [DOMAIN m -> Price]
BY DEF Maps

LEMMA NothingIsMap == Nothing \in Maps /\ DOMAIN Nothing = {}
BY DEF Nothing, Maps

\* What a rejection removes has no rate.
LEMMA RemovedUnrated ==
  ASSUME TypeOK, NEW err \in Errors, Truthful(err)
  PROVE  /\ RemovedFor(err) \subseteq remaining
         /\ \A t \in RemovedFor(err) : Rate(t) = Missing
         /\ RemovedFor(err) \cap Rated(rates) = {}
<1>1. RemovedFor(err) \subseteq remaining
  BY DEF RemovedFor
<1>2. ASSUME NEW t \in RemovedFor(err) PROVE Rate(t) = Missing
  <2>1. t \in Type /\ SpecOf[t] \in Product
    BY <1>1, SpecAssumption DEF TypeOK
  <2>2. err.product = SpecOf[t] /\ err.product # NoProduct
    BY <1>2, <2>1, ProductAssumption DEF RemovedFor, Names
  <2> QED BY <2>2 DEF Truthful, Rate
<1> QED BY <1>1, <1>2, RateAssumption DEF Rated, Rate

\* The initial states satisfy the invariant.
LEMMA InitInv == Init => IInv
BY NothingIsMap
   DEF Init, IInv, TypeOK, QuotesKnown, SteadyIsRated, BatchesDisjoint, RejectedOnce,
       RejectionCostsNoOther

\* An update that ends leaves nothing to show.
LEMMA IdleInv ==
  ASSUME IInv, Idle, flavors' \in SUBSET Type, rates' \in Rates, prices' \in Maps,
         unsupported' \in SUBSET Type
  PROVE  IInv'
BY NothingIsMap
   DEF Idle, IInv, TypeOK, QuotesKnown, SteadyIsRated, BatchesDisjoint, RejectedOnce,
       RejectionCostsNoOther

\* Every step preserves the invariant.
LEMMA StepInv == IInv /\ [Next]_vars => IInv'
<1> SUFFICES ASSUME IInv, [Next]_vars PROVE IInv'
  OBVIOUS
<1>a. TypeOK
  BY DEF IInv
<1>b. UNCHANGED rates => Rated(rates') = Rated(rates) /\ Quoted(rates') = Quoted(rates)
  OBVIOUS
<1>1. CASE Start
  BY <1>1, <1>a, NothingIsMap
     DEF Start, Supported, env, IInv, TypeOK, QuotesKnown, SteadyIsRated, BatchesDisjoint,
         RejectedOnce, RejectionCostsNoOther
<1>2. CASE NextBatch
  <2>1. PICK B \in SUBSET todo : remaining' = B /\ todo' = todo \ B
    BY <1>2 DEF NextBatch
  <2> QED
    BY <1>2, <1>a, <2>1
       DEF NextBatch, env, IInv, TypeOK, QuotesKnown, SteadyIsRated, BatchesDisjoint,
           RejectedOnce, RejectionCostsNoOther
<1>3. CASE BatchRated
  <2>1. OnDemandPage \subseteq Type /\ \A t \in OnDemandPage : Rate(t) \in Price /\ <<t, Rate(t)>> \in Quoted(rates)
    BY <1>a DEF OnDemandPage, TypeOK, Rated, Rate, Quoted
  <2>2. fetched' = [t \in DOMAIN fetched \cup OnDemandPage |->
                     IF t \in OnDemandPage THEN Rate(t) ELSE fetched[t]]
    BY <1>3 DEF BatchRated
  <2>3. fetched' \in Maps
    <3>1. DOMAIN fetched \cup OnDemandPage \in SUBSET Type
      BY <1>a, <2>1, MapElim DEF TypeOK
    <3>2. fetched' \in [DOMAIN fetched \cup OnDemandPage -> Price]
      BY <1>a, <2>1, <2>2, MapElim DEF TypeOK
    <3> QED BY <3>1, <3>2, MapIntro
  <2>4. DOMAIN fetched' = DOMAIN fetched \cup OnDemandPage
    BY <2>2
  <2>5. TypeOK'
    BY <1>3, <1>a, <2>3 DEF BatchRated, TypeOK, env
  <2>6. QuotesKnown'
    <3>1. step = "update" /\ UNCHANGED <<rates, step, quotes>>
      BY <1>3 DEF BatchRated, env
    <3>2. Quoted(rates) \subseteq quotes /\ \A t \in DOMAIN fetched : <<t, fetched[t]>> \in quotes
      BY <3>1 DEF IInv, QuotesKnown
    <3>3. ASSUME NEW t \in DOMAIN fetched' PROVE <<t, fetched'[t]>> \in quotes
      <4>1. CASE t \in OnDemandPage
        BY <4>1, <2>1, <2>2, <3>2
      <4>2. CASE t \notin OnDemandPage
        BY <4>2, <2>2, <2>4, <3>2, <3>3
      <4> QED BY <4>1, <4>2
    <3> QED BY <1>b, <3>1, <3>2, <3>3 DEF QuotesKnown
  <2>7. RejectionCostsNoOther'
    BY <1>3, <2>4 DEF BatchRated, IInv, RejectionCostsNoOther, SteadyIsRated, OnDemandPage
  <2> QED
    BY <1>3, <2>5, <2>6, <2>7
       DEF BatchRated, env, IInv, SteadyIsRated, BatchesDisjoint, RejectedOnce
<1>4. ASSUME NEW err \in Errors, ProductRejected(err) PROVE IInv'
  <2>1. RemovedFor(err) \subseteq remaining /\ RemovedFor(err) \cap Rated(rates) = {}
    BY <1>4, <1>a, RemovedUnrated DEF ProductRejected
  <2>2. /\ step = "update"
        /\ unsupported' = unsupported \cup RemovedFor(err)
        /\ remaining' = remaining \ RemovedFor(err)
        /\ UNCHANGED <<env, step, todo, fetched, quotes, steady, prices>>
    BY <1>4 DEF ProductRejected
  <2>3. TypeOK'
    BY <1>a, <2>1, <2>2 DEF TypeOK, env
  <2>4. RejectedOnce' /\ BatchesDisjoint'
    BY <2>1, <2>2 DEF IInv, RejectedOnce, BatchesDisjoint
  <2>5. RejectionCostsNoOther'
    BY <2>1, <2>2 DEF IInv, RejectionCostsNoOther, SteadyIsRated
  <2>6. QuotesKnown' /\ SteadyIsRated'
    BY <2>2 DEF IInv, QuotesKnown, SteadyIsRated, env
  <2> QED BY <2>3, <2>4, <2>5, <2>6 DEF IInv
<1>5. ASSUME NEW err \in Errors, UpdateFails(err) PROVE IInv'
  BY <1>5, <1>a, IdleInv DEF UpdateFails, env, TypeOK
<1>6. CASE Store
  BY <1>6, <1>a, IdleInv DEF Store, NewPrices, env, TypeOK
<1>7. CASE FlavorsRefreshed
  BY <1>7, <1>a
     DEF FlavorsRefreshed, update, IInv, TypeOK, QuotesKnown, SteadyIsRated, BatchesDisjoint,
         RejectedOnce, RejectionCostsNoOther
<1>8. CASE RatesChange
  <2>1. /\ rates' \in Rates
        /\ step = "update" => quotes' = quotes \cup Quoted(rates')
        /\ steady' = steady \cap Rated(rates')
        /\ UNCHANGED <<flavors, step, todo, remaining, fetched, prices, unsupported>>
    BY <1>8 DEF RatesChange
  <2>2. TypeOK'
    BY <1>a, <2>1 DEF TypeOK
  <2>3. QuotesKnown' /\ SteadyIsRated'
    BY <2>1 DEF IInv, QuotesKnown, SteadyIsRated
  <2>4. BatchesDisjoint' /\ RejectedOnce' /\ RejectionCostsNoOther'
    BY <2>1 DEF IInv, BatchesDisjoint, RejectedOnce, RejectionCostsNoOther
  <2> QED BY <2>2, <2>3, <2>4 DEF IInv
<1>9. CASE Restart
  BY <1>9, <1>a, IdleInv, NothingIsMap DEF Restart, env, TypeOK
<1>10. CASE UNCHANGED vars
  BY <1>10 DEF vars, env, update, IInv, TypeOK, QuotesKnown, SteadyIsRated, BatchesDisjoint,
               RejectedOnce, RejectionCostsNoOther
<1> QED
  BY <1>1, <1>2, <1>3, <1>4, <1>5, <1>6, <1>7, <1>8, <1>9, <1>10 DEF Next

\* A step stores only what was quoted while the update ran.
LEMMA StepCurrent ==
  IInv /\ [Next]_vars =>
    [prices' # prices => \A t \in DOMAIN prices' : <<t, prices'[t]>> \in quotes]_vars
<1> SUFFICES ASSUME IInv, Next, prices' # prices
             PROVE  \A t \in DOMAIN prices' : <<t, prices'[t]>> \in quotes
  BY DEF vars
<1>1. Store \/ Restart
  BY DEF Next, Start, NextBatch, BatchRated, ProductRejected, UpdateFails, FlavorsRefreshed,
         RatesChange, update
<1>2. CASE Store
  BY <1>2 DEF Store, NewPrices, IInv, QuotesKnown
<1>3. CASE Restart
  BY <1>3, NothingIsMap DEF Restart
<1> QED BY <1>1, <1>2, <1>3

\* A step gives up only what the service does not sell at that moment.
LEMMA StepForCause ==
  IInv /\ [Next]_vars => [\A t \in unsupported' \ unsupported : Rate(t) = Missing]_vars
<1> SUFFICES ASSUME IInv, Next, NEW t \in unsupported', t \notin unsupported
             PROVE  Rate(t) = Missing
  BY DEF vars
<1>1. PICK err \in Errors : ProductRejected(err)
  BY DEF Next, Start, NextBatch, BatchRated, Store, UpdateFails, FlavorsRefreshed, RatesChange,
         Restart
<1>2. t \in RemovedFor(err) /\ Truthful(err)
  BY <1>1 DEF ProductRejected
<1> QED BY <1>2, RemovedUnrated DEF IInv

-----------------------------------------------------------------------------

\* The invariant holds in every reachable state.
THEOREM Invariance == Spec => []IInv
<1>1. Init => IInv
  BY InitInv
<1>2. IInv /\ [Next]_vars => IInv'
  BY StepInv
<1> QED BY <1>1, <1>2, PTL DEF Spec

\* Variables have their types.
THEOREM TypeCorrect == Spec => []TypeOK
<1>1. IInv => TypeOK
  BY DEF IInv
<1> QED BY <1>1, Invariance, PTL

\* What the service rejected is not asked for again.
THEOREM AskedOnce == Spec => []RejectedOnce
<1>1. IInv => RejectedOnce
  BY DEF IInv
<1> QED BY <1>1, Invariance, PTL

\* A rejection costs no other instance type its price.
THEOREM NoPriceLost == Spec => []RejectionCostsNoOther
<1>1. IInv => RejectionCostsNoOther
  BY DEF IInv
<1> QED BY <1>1, Invariance, PTL

\* Prices are replaced as a whole, by what was quoted during the update.
THEOREM Current == Spec => PricesAreCurrent
<1>1. IInv /\ [Next]_vars =>
        [prices' # prices => \A t \in DOMAIN prices' : <<t, prices'[t]>> \in quotes]_vars
  BY StepCurrent
<1> QED BY <1>1, Invariance, PTL DEF PricesAreCurrent, Spec

\* An instance type is given up only while the service does not sell it.
THEOREM ForCause == Spec => GivenUpForCause
<1>1. IInv /\ [Next]_vars => [\A t \in unsupported' \ unsupported : Rate(t) = Missing]_vars
  BY StepForCause
<1> QED BY <1>1, Invariance, PTL DEF GivenUpForCause, Spec
=============================================================================

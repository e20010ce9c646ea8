----------------------------- MODULE MCPricing -----------------------------
(***************************************************************************)
(* Three instance types in batches of two.  The first changes its price,   *)
(* the second is sold or not, the third sold without an amount or not      *)
(* sold; an error names a product directly or in a payload, or has         *)
(* another code, or is no response of the service.                         *)
(***************************************************************************)
EXTENDS Pricing

CONSTANTS a, b, c

MCSpecOf == [t \in 1..3 |-> CASE t = 1 -> a [] t = 2 -> b [] t = 3 -> c]

MCRates == {[p \in {a, b, c} |-> CASE p = a -> x [] p = b -> y [] p = c -> z] :
              x \in 1..2, y \in {1, Missing}, z \in {Unrated, Missing}}

MCErrors ==
  {[code |-> "CBC.6006", payload |-> NoCode, product |-> p] : p \in {b, c}} \cup
  {[code |-> "APIGW.0301", payload |-> "CBC.99006006", product |-> p] : p \in {b, c}} \cup
  {[code |-> "CBC.6006", payload |-> "CBC.0999", product |-> b],
   [code |-> NoCode, payload |-> NoCode, product |-> NoProduct]}
=============================================================================

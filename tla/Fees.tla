-------------------------------- MODULE Fees --------------------------------
(***************************************************************************)
(* Deribit's option fees (core/fees.py).  Money is in whole units of an    *)
(* arbitrary small size; a fee is rounded down to a unit.                  *)
(***************************************************************************)
EXTENDS Integers

CONSTANTS
    Asset,        \* the underlyings
    FeeRate,      \* OPTIONS_FEE_PCT, per 10000 of the underlying
    MinFeeRate,   \* OPTIONS_MIN_FEE_*: asset -> floor, per 10000 of the underlying
    FeeCap        \* OPTIONS_DELIVERY_FEE_CAP, per 1000 of the option's value

ASSUME FeesAssumption ==
    /\ FeeRate \in Nat
    /\ MinFeeRate \in [Asset -> Nat]
    /\ FeeCap \in Nat

Least(a, b) == IF a <= b THEN a ELSE b
Greatest(a, b) == IF a >= b THEN a ELSE b

\* Trading fee of one leg: a floor, then a share of the option's value as cap.  No
\* caller asks for the fee of a maker.
LegFee(asset, spot, qty, price) ==
    Least(Greatest((spot * FeeRate * qty) \div 10000,
                   (MinFeeRate[asset] * spot * qty) \div 10000),
          (price * qty * FeeCap) \div 1000)

\* A combo pays for its dearer leg only.
EntryFees(asset, spot, qty, nearPrice, farPrice, viaCombo) ==
    LET near == LegFee(asset, spot, qty, nearPrice)
        far == LegFee(asset, spot, qty, farPrice)
    IN  IF viaCombo THEN Greatest(near, far) ELSE near + far

ExitFees(asset, spot, qty, nearPrice, farPrice) ==
    LegFee(asset, spot, qty, nearPrice) + LegFee(asset, spot, qty, farPrice)

RollFees(asset, spot, qty, nearPrice, newNearPrice) ==
    LegFee(asset, spot, qty, nearPrice) + LegFee(asset, spot, qty, newNearPrice)

RoundTripFees(asset, spot, qty, nearPrice, farPrice, viaCombo) ==
    EntryFees(asset, spot, qty, nearPrice, farPrice, viaCombo)
        + ExitFees(asset, spot, qty, nearPrice, farPrice)

=============================================================================

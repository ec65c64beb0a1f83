-------------------------- MODULE MCSpotPortfolio --------------------------
(***************************************************************************)
(* Two orders on one pair, amounts in half steps and fees of 0 (maker) or  *)
(* one half (taker) of the trade.  The configured portfolio lists the base *)
(* only, so the quote is missing until a read, a deposit, a sale or a lock *)
(* creates it, and again after a reset; two of the larger orders exhaust   *)
(* what there is of either.                                                *)
(***************************************************************************)
EXTENDS SpotPortfolio

MCStartingPortfolio == [a \in {"base"} |-> 5]
MCFullPortfolio == [a \in Assets |-> IF a = "base" THEN 5 ELSE 7]
=============================================================================

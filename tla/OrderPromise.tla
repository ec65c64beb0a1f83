---------------------------- MODULE OrderPromise ----------------------------
(***************************************************************************)
(* What the bot promises about one order, whatever tasks work on it: the   *)
(* exchange decides how the order ends, then the portfolio is updated      *)
(* once, then the order becomes the trade that tells how it ended.         *)
(***************************************************************************)
VARIABLES
  ending,   \* how the order ended on the exchange, "none" while it is open there
  settled,  \* the portfolio has been updated for the order
  trade     \* the trade the order became

vars == <<ending, settled, trade>>

Endings == {"filled", "canceled"}

Init == ending = "none" /\ settled = FALSE /\ trade = "none"

EndOnExchange ==
  /\ ending = "none" /\ ending' \in Endings
  /\ UNCHANGED <<settled, trade>>

Settle ==
  /\ ending \in Endings /\ ~settled
  /\ settled' = TRUE
  /\ UNCHANGED <<ending, trade>>

BecomeTrade ==
  /\ settled /\ trade = "none"
  /\ trade' = ending
  /\ UNCHANGED <<ending, settled>>

Next == EndOnExchange \/ Settle \/ BecomeTrade

Spec == Init /\ [][Next]_vars
=============================================================================

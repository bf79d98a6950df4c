---------------------------- MODULE MCRampOrders ----------------------------
(* Instances of RampOrders for TLC. *)
EXTENDS RampOrders, TLC

CONSTANTS handler1, handler2, creator, buy1, buy2, sell

MCHandler == {handler1, handler2}
MCKind == creator :> "list" @@ [h \in MCHandler |-> "credit"]
MCHeld == <<20>>
\* 2 tokens, which a credit joins its digits to, then 2.5, which none can be joined to.
MovingHeld == <<20, 25>>

\* Two purchases of one user and a sale; the end of one purchase is told twice, and
\* the other may take its record from it.
MCOrder == {buy1, buy2, sell}
MCSide == sell :> "SELL" @@ [o \in {buy1, buy2} |-> "BUY"]
MCCryptoAmount == sell :> 20 @@ [o \in {buy1, buy2} |-> 10]
MCMaxDeliveries == <<buy1, "ORDER_COMPLETED">> :> 2
                @@ <<buy2, "ORDER_PAYMENT_VERIFYING">> :> 1
                @@ <<sell, "ORDER_COMPLETED">> :> 1
MCEvent == DOMAIN MCMaxDeliveries

HandlerSymmetry == Permutations(MCHandler)
=============================================================================

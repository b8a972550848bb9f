------------------------------- MODULE MCDCA -------------------------------
(* Instances of DCA: a schedule with a budget that sells, one that buys,   *)
(* and a rolling one.                                                      *)
EXTENDS DCA

CONSTANTS alice, bob

SellTemplate == [owner |-> alice, kind |-> "Sell", amount |-> 2, period |-> 2,
                 total |-> 6, maxRetries |-> 1]
BuyTemplate == [owner |-> bob, kind |-> "Buy", amount |-> 1, period |-> 3,
                total |-> 7, maxRetries |-> 3]
RollingTemplate == [owner |-> alice, kind |-> "Sell", amount |-> 2, period |-> 2,
                    total |-> 0, maxRetries |-> 2]

MCTemplates == {SellTemplate, BuyTemplate, RollingTemplate}
MCStartBlocks == {None, 3}
=============================================================================

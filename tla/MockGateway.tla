---------------------------- MODULE MockGateway ----------------------------
(***************************************************************************)
(* The mock order gateway (src/gateway.rs): it numbers an order, counts it *)
(* and fills it whole at once, at the touch when the limit reaches it and  *)
(* at the limit otherwise.                                                 *)
(***************************************************************************)
EXTENDS OrderBook

Gateway == [next_id : Nat \ {0}, accepted : Nat]

GatewayNew == [next_id |-> 1, accepted |-> 0]

Submit(g) ==
    [next_id |-> g.next_id + 1, accepted |-> g.accepted + 1]

FillPx(side, px_raw, bbo) ==
    CASE /\ side = Buy
         /\ bbo.offer_px_raw # None
         /\ px_raw >= bbo.offer_px_raw[1] -> bbo.offer_px_raw[1]
      [] /\ side = Sell
         /\ bbo.bid_px_raw # None
         /\ px_raw <= bbo.bid_px_raw[1] -> bbo.bid_px_raw[1]
      [] OTHER -> px_raw
=============================================================================

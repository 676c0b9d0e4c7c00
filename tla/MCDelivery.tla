----------------------------- MODULE MCDelivery -----------------------------
(* Instances of Delivery for TLC. *)
EXTENDS Delivery, TLC

(* Two intervals are enough to tell the first retry, a later one and the    *)
(* clamped index apart; the eight ranks stand for 1m, 5m, ... 7d.           *)
MCIntervals     == <<1, 2>>
MCEightIntervals == <<1, 2, 3, 4, 5, 6, 7, 8>>
=============================================================================

--------------------------- MODULE MCOrderClient ---------------------------
(* Instances of OrderClient for TLC.                                       *)
EXTENDS OrderClient, TLC

CONSTANTS a, b, d, i1, c1, c2

OneItem    == [o \in Orders |-> i1]
OneOneFour == [o \in Orders |-> IF o = d THEN 4 ELSE 1]
StockOfTwo == i1 :> 2
NoDeltas   == {}

\* The seed script, two of its sections in a row, and another caller that
\* confirms and cancels an order of the same item meanwhile.
SeedAndOther == c1 :> Shipped(a) \o Rejected(d) @@ c2 :> Cancelled(b)
HappyPath    == c1 :> Delivered(a)

ASSUME ScriptsAreLegal == LegalScripts
=============================================================================

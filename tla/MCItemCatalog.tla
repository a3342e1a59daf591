--------------------------- MODULE MCItemCatalog ---------------------------
(* Instances of ItemCatalog, and of Server around it, for TLC.             *)
EXTENDS Server, TLC

CONSTANTS r1, r2, r3, r4, n1, n2

\* Two requests for one name, one for another with a stock that does not fit, and
\* one without a key.
TwoAndOne  == r1 :> n1 @@ r2 :> n1 @@ r3 :> n2 @@ r4 :> n2
OneKeyless == [r \in Requests |-> IF r = r4 THEN "none" ELSE "valid"]

SameName == [r \in Requests |-> n1]
NoKeys   == [r \in Requests |-> "none"]
=============================================================================

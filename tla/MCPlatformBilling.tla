--------------------------- MODULE MCPlatformBilling ---------------------------
(* Instances of PlatformBilling. *)
EXTENDS PlatformBilling

CONSTANTS r1, r2, w1, w2, s1

Changes == {"upgrade", "downgrade"}
Cancellations == {"cancel", "reactivate"}
Downgrades == {"downgrade", "withdraw"}
Everything == Changes \cup Cancellations \cup {"withdraw"}

================================================================================

-------------------------------- MODULE MCAccess --------------------------------
(* A small instance of Access for TLC.                                        *)
EXTENDS Access

CONSTANTS c1, c2, c3, c4, t1, t2, h1, h2, z1, z2

Parents == [h \in {h1, h2} |-> IF h = h1 THEN z1 ELSE None]

\* Adopting is for the end-to-end suite, alone on the host; the rows of sending
\* domains are written back whole, so one request at a time touches them.
SendingOps == {"verify", "adopt", "addSending", "deleteSending", "verifySending", "pause", "resume"}
Alone == (SendingOps \X SendingOps) \cup ({"adopt"} \X AllOperations)

ASSUME KeyConstants == CredentialConstants
================================================================================

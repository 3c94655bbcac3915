--------------------------- MODULE MCCryptoShred ---------------------------
(* CryptoShred for TLC: a crypto session and a rotation racing two shred
   requests and a workflow whose attempts may overlap; three rows in two
   tables, so that one table takes two batches. *)
EXTENDS CryptoShred

MCShredders == Requests \cup ((1..MaxExecutions) \X (1..ShredAttempts))
MCRows      == 1..3
MCTableOf   == <<1, 1, 2>>
=============================================================================

--------------------------- MODULE MCCreditWindow ---------------------------
(* CreditWindow on a small window; the constants are in CreditWindow.cfg.   *)
EXTENDS CreditWindow
=============================================================================

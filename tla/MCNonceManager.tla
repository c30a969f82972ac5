--------------------------- MODULE MCNonceManager ---------------------------
(* Small instances of NonceManager.                                        *)
EXTENDS NonceManager

\* Everything but a holder that outlives its lock; failing reads with failing
\* submissions, and with an expiring counter; and an overrun by itself.
SafetySettings ==
  { AllFaults \ {"overrun"}, {"rpcFails", "sendFails"}, {"rpcFails", "cacheExpires"},
    {"overrun"} }

LateSettings == {{"receiptTimeout"}}
GapSettings == {{"sendFails"}}
=============================================================================

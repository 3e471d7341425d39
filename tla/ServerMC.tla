------------------------------ MODULE ServerMC ------------------------------
(* Two requests against four command lines: the default; a trusted proxy   *)
(* in front, over SSE, with write access and no limit; keys of a provider; *)
(* and an unknown transport.                                               *)
EXTENDS Server

MCConfigs ==
  {[EnableRateLimiting |-> TRUE, EnableImpersonation |-> FALSE, jwks |-> FALSE,
    ReadWrite |-> FALSE, transport |-> "streamable-http"],
   [EnableRateLimiting |-> FALSE, EnableImpersonation |-> TRUE, jwks |-> FALSE,
    ReadWrite |-> TRUE, transport |-> "sse"],
   [EnableRateLimiting |-> TRUE, EnableImpersonation |-> TRUE, jwks |-> TRUE,
    ReadWrite |-> FALSE, transport |-> "streamable-http"],
   [EnableRateLimiting |-> TRUE, EnableImpersonation |-> FALSE, jwks |-> FALSE,
    ReadWrite |-> FALSE, transport |-> "invalid"]}
=============================================================================

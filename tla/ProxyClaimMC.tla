----------------------------- MODULE ProxyClaimMC -----------------------------
(* Instances of ProxyClaim for TLC; requests that take the claim are       *)
(* interchangeable.                                                        *)
EXTENDS ProxyClaim, TLC

Requests == Permutations(Proxies \ Bitnet)
=============================================================================

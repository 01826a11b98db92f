----------------------------- MODULE MCForward -----------------------------
(* One connection of each request kind; every dial error class; one chunk  *)
(* each way, enough for data to be in flight when an end closes.          *)
EXTENDS Forward

MCModes == {"CONNECT", "plain"}
MCDialErrors == DOMAIN Traits
\* An empty value, which validation refuses for the hub, and the probe's
\* own secret, another, or an empty SECRET (set, so "required" accepts it).
MCHubSecrets == {"", "s1"}
MCProbeSecrets == {"", "s1", "s2"}

\* fault.Code and fault.RawCode, through which every code of the forward
\* run is computed, agree with their reference definitions; TLC checks this
\* before it explores a state.
ASSUME CodeMatchesReference
=============================================================================

---------------------------- MODULE MCEventGate ----------------------------
(* Small instances of EventGate: one event of a business seen twice and    *)
(* another of its events, and an event of a second business.               *)
EXTENDS EventGate, TLC

CONSTANTS tap1, tap2, view, other

MCRequest == {tap1, tap2, view, other}
MCKey == {"tap", "view", "page", "other"}
MCBusiness == {"cafe", "bar"}
MCBusinessOf == [k \in MCKey |-> IF k = "other" THEN "bar" ELSE "cafe"]

MCKeyOf == [r \in MCRequest |-> CASE r \in {tap1, tap2} -> "tap" [] r = view -> "view" [] r = other -> "other"]

TapsAlike == Permutations({tap1, tap2})
=============================================================================

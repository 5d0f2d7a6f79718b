-------------------------- MODULE MCSendersManager --------------------------
(* SendersManager on two tokens: two handlings compete for the first one,  *)
(* an observer and a replacement default use the second.                   *)
EXTENDS SendersManager, TLC

CONSTANTS t1, t2, h1, h2, h3, d0, d1

MCToken == {t1, t2}
MCHandling == {h1, h2, h3, d0, d1}
MCTokenOf == (h1 :> t1) @@ (h2 :> t1) @@ (h3 :> t2) @@ (d0 :> t2) @@ (d1 :> t2)
MCOneShot == {h1, h2, d0}
MCObserved == {t2}

(* The calls that do not delete the handling whose callback is running.    *)
SafeOps == {"send", "removeOther", "updateDefault"}
==============================================================================

--------------------------- MODULE ObjectLifetime ---------------------------
(***************************************************************************)
(* What ElRefBase promises the holders of AutoPtrs: the object exists as   *)
(* long as somebody holds it strongly, is destroyed once, and, unless its  *)
(* creator extended its lifetime, nobody gets hold of it again once the    *)
(* last strong holder let go.                                              *)
(***************************************************************************)
CONSTANT Ref

VARIABLES
  holders,    \* the strong handles
  phase,      \* "new": never held.  "live".  "gone": destroyed
  revivable   \* the creator asked for the longer lifetime

lifetimeVars == <<holders, phase, revivable>>

Extend ==
  /\ phase = "new"
  /\ revivable' = TRUE
  /\ UNCHANGED <<holders, phase>>

Acquire(h) ==
  /\ h \notin holders
  /\ \/ phase = "new"
     \/ phase = "live" /\ (holders # {} \/ revivable)
  /\ holders' = holders \cup {h}
  /\ phase' = "live"
  /\ UNCHANGED revivable

Drop(h) ==
  /\ h \in holders
  /\ holders' = holders \ {h}
  /\ UNCHANGED <<phase, revivable>>

Destroy ==
  /\ phase = "live" /\ holders = {}
  /\ phase' = "gone"
  /\ UNCHANGED <<holders, revivable>>

LInit == holders = {} /\ phase = "new" /\ revivable = FALSE

LNext == Extend \/ Destroy \/ \E h \in Ref : Acquire(h) \/ Drop(h)

LSpec == LInit /\ [][LNext]_lifetimeVars
=============================================================================

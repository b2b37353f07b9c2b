----------------------------- MODULE KillSwitch -----------------------------
(***************************************************************************)
(* What the README promises of overrides, apart from how requests carry it *)
(* out: "One active override per flag: recording a new one lifts the       *)
(* previous", and lifting it "restores the configured state".  At most one *)
(* override forces the flag; one that was superseded or lifted is over.    *)
(***************************************************************************)
CONSTANTS Overrides, NoOverride

VARIABLES
  configured,  \* the flag's own is_enabled
  recorded,    \* the trail of overrides
  forcing,     \* the override that forces the flag
  effective    \* what the SDKs are served

Init ==
  /\ configured = FALSE /\ effective = FALSE
  /\ recorded = {} /\ forcing = NoOverride

Configure(value) ==
  /\ configured' = value
  /\ effective' = IF forcing = NoOverride THEN value ELSE effective
  /\ UNCHANGED <<recorded, forcing>>

Force(o, value) ==
  /\ o \notin recorded
  /\ recorded' = recorded \cup {o}
  /\ forcing' = o /\ effective' = value
  /\ UNCHANGED configured

Lift ==
  /\ forcing' = NoOverride /\ effective' = configured
  /\ UNCHANGED <<configured, recorded>>

Next ==
  \/ \E value \in BOOLEAN : Configure(value) \/ \E o \in Overrides : Force(o, value)
  \/ Lift

Spec == Init /\ [][Next]_<<configured, recorded, forcing, effective>>
=============================================================================

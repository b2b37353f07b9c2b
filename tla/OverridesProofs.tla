--------------------------- MODULE OverridesProofs ---------------------------
(* What Overrides guarantees for every set of overrides and workers.        *)
EXTENDS Overrides, TLAPS

(* The locals of a worker whose query answered. *)
LEMMA QueriedType ==
  ASSUME NEW locals \in Request, NEW S \in SUBSET Overrides
  PROVE  [locals EXCEPT !.pc = "lifting", !.previous = S] \in Request
BY DEF Request

(* The invariant holds before anything was recorded. *)
LEMMA InitInv == Init => OverridesInv
<1>. SUFFICES ASSUME Init PROVE OverridesInv OBVIOUS
<1>. USE DEF Init, Idle
<1>1. DOMAIN override = {} /\ override \in [{} -> OverrideRow] OBVIOUS
<1>2. TypeOK BY <1>1 DEF TypeOK, Request
<1>3. RequestsInv BY DEF RequestsInv
<1>4. SawRows BY <1>1 DEF SawRows
<1>5. AloneInv BY <1>1 DEF AloneInv, active, InAtomic
<1>. QED BY <1>2, <1>3, <1>4, <1>5 DEF OverridesInv

LEMMA StepInv == ASSUME OverridesInv, [Next]_vars PROVE OverridesInv'
<1>. USE OverridesAssumption DEF OverridesInv
<1>1. CASE UNCHANGED vars
  BY <1>1 DEF vars, TypeOK, RequestsInv, SawRows, AloneInv, active, InAtomic
<1>2. ASSUME NEW value \in Values, SetEnabled(value) PROVE OverridesInv'
  BY <1>2 DEF SetEnabled, TypeOK, RequestsInv, SawRows, AloneInv, active, InAtomic
<1>3. ASSUME NEW r \in Requests, NEW o \in Overrides, NEW value \in Values,
             ValidateOverride(r, o, value)
      PROVE OverridesInv'
  <2>. USE <1>3 DEF ValidateOverride, Unused, Continue, Idle
  <2>1. TypeOK' BY DEF TypeOK, Request
  <2>2. RequestsInv' BY DEF RequestsInv, TypeOK, Request
  <2>3. SawRows' BY DEF SawRows
  <2>4. AloneInv' BY DEF AloneInv, active, InAtomic, TypeOK, Request
  <2>. QED BY <2>1, <2>2, <2>3, <2>4
<1>4. ASSUME NEW r \in Requests, NEW o \in Overrides, LoadForLift(r, o) PROVE OverridesInv'
  <2>. USE <1>4 DEF LoadForLift, Continue, Idle
  <2>1. TypeOK' BY DEF TypeOK, Request
  <2>2. RequestsInv' BY DEF RequestsInv, TypeOK, Request, active
  <2>3. SawRows' BY DEF SawRows
  <2>4. AloneInv' BY DEF AloneInv, active, InAtomic, TypeOK, Request
  <2>. QED BY <2>1, <2>2, <2>3, <2>4
<1>5. ASSUME NEW r \in Requests, ReadActive(r) PROVE OverridesInv'
  <2>a. active \subseteq Overrides BY DEF active, TypeOK
  <2>b. request \in [Requests -> Request] BY DEF TypeOK
  <2>c. [request[r] EXCEPT !.pc = "lifting", !.previous = active] \in Request
    BY <2>a, <2>b, QueriedType
  <2>. USE <1>5 DEF ReadActive, Continue, Idle
  <2>1. TypeOK'
    <3>1. request' \in [Requests -> Request] BY <2>b, <2>c
    <3>. QED BY <3>1 DEF TypeOK
  <2>2. RequestsInv' BY DEF RequestsInv, TypeOK, Request, active
  <2>3. SawRows' BY DEF SawRows
  <2>4. AloneInv' BY DEF AloneInv, active, InAtomic, TypeOK, Request, MayWrite
  <2>. QED BY <2>1, <2>2, <2>3, <2>4
<1>6. ASSUME NEW r \in Requests, LiftPrevious(r) PROVE OverridesInv'
  <2>. USE <1>6 DEF LiftPrevious, Continue, Idle
  <2>. PICK o \in Newest(request[r].previous) :
         request' = [request EXCEPT ![r] =
           [request[r] EXCEPT !.previous = @ \ {o}, !.lifted = @ \cup {o}]]
    OBVIOUS
  <2>o. o \in request[r].previous BY DEF Newest
  <2>p. /\ o \in Overrides
        /\ request'[r] = [pc |-> request[r].pc, target |-> request[r].target,
                          value |-> request[r].value, previous |-> request[r].previous \ {o},
                          lifted |-> request[r].lifted \cup {o}]
        /\ \A q \in Requests \ {r} : request'[q] = request[q]
        /\ request' = [q \in Requests |-> request'[q]]
    <3>1. request \in [Requests -> Request] /\ request[r] \in Request BY DEF TypeOK
    <3>2. o \in Overrides BY <2>o, <3>1 DEF Request
    <3>. QED BY <3>1, <3>2 DEF Request
  <2>1. TypeOK'
    <3>1. \A q \in Requests : request'[q] \in Request BY <2>p DEF TypeOK, Request
    <3>. QED BY <2>p, <3>1 DEF TypeOK
  <2>2. RequestsInv'
    <3>1. request[r].pc = "lifting" /\ request[r].target \in Overrides \ DOMAIN override
      BY DEF RequestsInv
    <3>2. \A q \in Requests : request'[q].pc = request[q].pc /\ request'[q].target = request[q].target
      BY <2>p
    <3>3. \A q \in Requests \ {r} :
            request'[q].previous = request[q].previous /\ request'[q].lifted = request[q].lifted
      BY <2>p
    <3>4. request'[r].previous \cup request'[r].lifted \subseteq DOMAIN override
      <4>1. request[r].previous \cup request[r].lifted \subseteq DOMAIN override BY DEF RequestsInv
      <4>2. /\ request'[r].previous = request[r].previous \ {o}
            /\ request'[r].lifted = request[r].lifted \cup {o}
        BY ONLY <2>p
      <4>3. o \in DOMAIN override BY <4>1, <2>o
      <4>. QED BY <4>1, <4>2, <4>3
    <3>. QED BY <3>1, <3>2, <3>3, <3>4 DEF RequestsInv
  <2>3. SawRows' BY DEF SawRows
  <2>4. AloneInv' BY <2>o DEF AloneInv, active, InAtomic, TypeOK, Request
  <2>. QED BY <2>1, <2>2, <2>3, <2>4
<1>7. ASSUME NEW r \in Requests, InsertOverride(r) PROVE OverridesInv'
  <2>. USE <1>7 DEF InsertOverride, Continue, Idle
  <2>1. TypeOK' BY DEF TypeOK, Request, Inserted, RequestsInv
  <2>2. RequestsInv' BY DEF RequestsInv, TypeOK, Request
  <2>3. SawRows' BY DEF SawRows
  <2>4. AloneInv' BY DEF AloneInv, active, InAtomic, TypeOK, Request
  <2>. QED BY <2>1, <2>2, <2>3, <2>4
<1>8. ASSUME NEW r \in Requests, Commit(r) PROVE OverridesInv'
  <2>. USE <1>8 DEF Commit, End, Continue, Idle
  <2>1. TypeOK' BY DEF TypeOK, Request, OverrideRow, RequestsInv
  <2>2. RequestsInv' BY DEF RequestsInv, TypeOK, Request
  <2>3. SawRows' BY DEF SawRows, RequestsInv, TypeOK, Request, OverrideRow
  <2>4. AloneInv' BY DEF AloneInv, active, InAtomic, TypeOK, Request, RequestsInv, OverrideRow
  <2>. QED BY <2>1, <2>2, <2>3, <2>4
<1>9. ASSUME NEW r \in Requests, SaveLift(r) PROVE OverridesInv'
  <2>. USE <1>9 DEF SaveLift, End, Continue, Idle
  <2>1. TypeOK' BY DEF TypeOK, Request, OverrideRow, RequestsInv
  <2>2. RequestsInv' BY DEF RequestsInv, TypeOK, Request
  <2>3. SawRows' BY DEF SawRows, TypeOK, OverrideRow, RequestsInv
  <2>4. AloneInv' BY DEF AloneInv, active, InAtomic, TypeOK, Request, OverrideRow, MayWrite, RequestsInv
  <2>. QED BY <2>1, <2>2, <2>3, <2>4
<1>10. ASSUME NEW r \in Requests, Fail(r) PROVE OverridesInv'
  <2>. USE <1>10 DEF Fail, End, Continue, Idle
  <2>1. TypeOK' BY DEF TypeOK, Request
  <2>2. RequestsInv' BY DEF RequestsInv, TypeOK, Request
  <2>3. SawRows' BY DEF SawRows
  <2>4. AloneInv' BY DEF AloneInv, active, InAtomic, TypeOK, Request
  <2>. QED BY <2>1, <2>2, <2>3, <2>4
<1>. QED
  BY <1>1, <1>2, <1>3, <1>4, <1>5, <1>6, <1>7, <1>8, <1>9, <1>10 DEF Next, Advance

(* Every reachable state has the types and the facts of OverridesInv. *)
THEOREM InvHolds == Spec => []OverridesInv
BY InitInv, StepInv, PTL DEF Spec

(* Every reachable state is well-typed, whatever overlaps. *)
THEOREM TypeCorrect == Spec => []TypeOK
<1>1. OverridesInv => TypeOK BY DEF OverridesInv
<1>. QED BY <1>1, InvHolds, PTL

(* Where transactions run alone, overlapping requests never leave a flag    *)
(* under two overrides.                                                     *)
THEOREM OneActiveAlone == Spec => [](database = "sqlite" => OneActive)
<1>1. OverridesInv => (database = "sqlite" => OneActive) BY DEF OverridesInv, AloneInv, OneActive
<1>. QED BY <1>1, InvHolds, PTL

(* A recording that commits leaves nothing active that it saw, whatever     *)
(* overlaps it and on either database.                                      *)
THEOREM SeenAreLifted == Spec => []OnlyOverlappingActive
<1>1. Init => OnlyOverlappingActive BY DEF Init, OnlyOverlappingActive, active
<1>2. ASSUME OverridesInv, OnlyOverlappingActive, [Next]_vars PROVE OnlyOverlappingActive'
  <2>. USE <1>2 DEF OverridesInv, OnlyOverlappingActive, active
  <2>1. ASSUME NEW r \in Requests, Commit(r) PROVE OnlyOverlappingActive'
    BY <2>1, OverridesAssumption DEF Commit, RequestsInv, TypeOK, Request, OverrideRow, SawRows
  <2>2. ASSUME NEW r \in Requests, SaveLift(r) PROVE OnlyOverlappingActive'
    BY <2>2, OverridesAssumption DEF SaveLift, RequestsInv, TypeOK, OverrideRow
  <2>3. CASE UNCHANGED override BY <2>3
  <2>. QED
    BY <2>1, <2>2, <2>3 DEF Next, Advance, vars, SetEnabled, ValidateOverride, LoadForLift, ReadActive,
         LiftPrevious, InsertOverride, Fail
<1>. QED BY <1>1, <1>2, InvHolds, PTL DEF Spec

-----------------------------------------------------------------------------
(* The refinement of KillSwitch. *)

LEMMA OneForces ==
  ASSUME OneActive, NEW o \in active
  PROVE  active = {o} /\ active_for = {o} /\ Forcing = o
BY DEF OneActive, active_for, Newest, Forcing

(* Where transactions run alone, overlapping recordings and lifts implement *)
(* the README's kill switch.                                                *)
THEOREM KillSwitchRefined == Spec => IsKillSwitch
<1>. USE DEF Forcing
<1>1. Init => Promise!Init
  BY DEF Init, Promise!Init, active, effective_is_enabled
<1>2. ASSUME OverridesInv, OneActive, OneActive', [Next]_vars
      PROVE  [Promise!Next]_<<is_enabled, DOMAIN override, Forcing, effective_is_enabled>>
  <2>. USE <1>2 DEF OverridesInv
  <2>1. ASSUME NEW value \in Values, SetEnabled(value) PROVE Promise!Configure(value)
    <3>1. active' = active /\ active_for' = active_for /\ override' = override
      BY <2>1 DEF SetEnabled, active, active_for, Newest
    <3>2. Forcing = NoOverride <=> active = {}
      BY OneForces, OverridesAssumption DEF active, TypeOK
    <3>3. Forcing' = Forcing BY <3>1
    <3>4. effective_is_enabled' = IF Forcing = NoOverride THEN value ELSE effective_is_enabled
      BY <2>1, <3>1, <3>2 DEF SetEnabled, effective_is_enabled
    <3>. QED BY <2>1, <3>3, <3>4 DEF SetEnabled, Promise!Configure
  <2>2. ASSUME NEW r \in Requests, Commit(r), NEW o, o = request[r].target,
               NEW value, value = request[r].value
        PROVE  Promise!Force(o, value)
    <3>1. o \notin DOMAIN override /\ DOMAIN override' = DOMAIN override \cup {o}
      BY <2>2 DEF Commit, RequestsInv
    <3>2. o \in active' /\ override'[o].is_enabled = value
      BY <2>2 DEF Commit, active
    <3>3. active' = {o} /\ active_for' = {o} BY <3>2 DEF OneActive, active_for, Newest
    <3>4. Forcing' = o BY <3>3
    <3>5. effective_is_enabled' = value
      <4>1. value \in BOOLEAN BY <2>2 DEF TypeOK, Request
      <4>2. effective_is_enabled' = (\E p \in {o} : override'[p].is_enabled)
        BY <3>3 DEF effective_is_enabled
      <4>. QED BY <4>1, <4>2, <3>2
    <3>. QED BY <2>2, <3>1, <3>4, <3>5 DEF Commit, Promise!Force
  <2>3. ASSUME NEW r \in Requests, SaveLift(r), request[r].target \in active PROVE Promise!Lift
    <3>. DEFINE o == request[r].target
    <3>1. active = {o} BY <2>3 DEF OneActive
    <3>2. DOMAIN override' = DOMAIN override /\ is_enabled' = is_enabled BY <2>3 DEF SaveLift
    <3>3. active' = {}
      BY <2>3, <3>1, OverridesAssumption DEF SaveLift, active, TypeOK
    <3>. QED BY <3>2, <3>3 DEF Promise!Lift, effective_is_enabled
  <2>4. ASSUME active' = active, is_enabled' = is_enabled, DOMAIN override' = DOMAIN override,
               \A o \in DOMAIN override : override'[o].is_enabled = override[o].is_enabled
        PROVE  UNCHANGED <<is_enabled, DOMAIN override, Forcing, effective_is_enabled>>
    <3>1. active_for' = active_for BY <2>4 DEF OneActive, active_for, Newest
    <3>2. Forcing' = Forcing BY <2>4, <3>1
    <3>3. effective_is_enabled' = effective_is_enabled
      BY <2>4, <3>1 DEF effective_is_enabled, active_for, Newest, active
    <3>. QED BY <2>4, <3>2, <3>3
  <2>5. ASSUME NEW r \in Requests, SaveLift(r), request[r].target \notin active
        PROVE  UNCHANGED <<is_enabled, DOMAIN override, Forcing, effective_is_enabled>>
    <3>1. active' = active BY <2>5, OverridesAssumption DEF SaveLift, active, TypeOK, RequestsInv
    <3>2. \A o \in DOMAIN override : override'[o].is_enabled = override[o].is_enabled
      BY <2>5 DEF SaveLift, TypeOK, OverrideRow
    <3>. QED BY <2>5, <3>1, <3>2, <2>4 DEF SaveLift
  <2>6. CASE UNCHANGED <<is_enabled, override>>
    BY <2>6, <2>4 DEF active
  <2>7. ASSUME NEW value \in Values, SetEnabled(value) PROVE Promise!Next
    BY <2>1, <2>7, OverridesAssumption DEF Promise!Next
  <2>8. ASSUME NEW r \in Requests, Commit(r) PROVE Promise!Next
    <3>1. request[r].target \in Overrides /\ request[r].value \in BOOLEAN
      BY <2>8 DEF Commit, RequestsInv, TypeOK, Request
    <3>2. PICK o \in Overrides, value \in BOOLEAN : o = request[r].target /\ value = request[r].value
      BY <3>1
    <3>3. Promise!Force(o, value) BY <2>2, <2>8, <3>2
    <3>. QED BY <3>3 DEF Promise!Next
  <2>9. CASE \/ UNCHANGED <<is_enabled, override>>
             \/ \E value \in Values : SetEnabled(value)
             \/ \E r \in Requests : Commit(r) \/ SaveLift(r)
    BY <2>3, <2>5, <2>6, <2>7, <2>8, <2>9 DEF Promise!Next
  <2>. QED
    BY <2>9 DEF Next, Advance, vars, ValidateOverride, LoadForLift, ReadActive, LiftPrevious,
         InsertOverride, Fail
<1>3. ASSUME OverridesInv, OverridesInv', [Next]_vars
      PROVE  [database = "sqlite" =>
                [Promise!Next]_<<is_enabled, DOMAIN override, Forcing, effective_is_enabled>>]_vars
  <2>1. ASSUME database = "sqlite" PROVE OneActive /\ OneActive'
    <3>1. database' = database
      BY <1>3 DEF Next, Advance, vars, SetEnabled, ValidateOverride, LoadForLift, ReadActive,
           LiftPrevious, InsertOverride, Commit, SaveLift, Fail
    <3>. QED BY <1>3, <2>1, <3>1 DEF OverridesInv, AloneInv, OneActive
  <2>. QED BY <1>2, <1>3, <2>1
<1>. QED BY <1>1, <1>3, InvHolds, PTL DEF Spec, IsKillSwitch
=============================================================================

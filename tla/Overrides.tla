------------------------------ MODULE Overrides ------------------------------
(***************************************************************************)
(* The kill switch of one flag (core_flags/models.py FlagOverride,         *)
(* core_flags/api/views.py FlagOverrideViewSet): recording an override     *)
(* lifts the active ones one by one and inserts its own row, all in one    *)
(* transaction; lifting loads a row, looks at it and saves it, in none.    *)
(*                                                                         *)
(* Rows a transaction wrote are invisible to others and locked until it    *)
(* commits ("postgresql", READ COMMITTED); on "sqlite" a transaction that  *)
(* reads and then writes runs alone.                                       *)
(***************************************************************************)
CONSTANTS
  Overrides,   \* identifiers override rows may take
  NoOverride,
  Requests,    \* the server's workers
  Values,      \* the values clients set and force
  NotLifted,   \* the null of cleared_at
  Databases    \* the backends of config/settings.py to look at

ASSUME OverridesAssumption ==
  /\ NoOverride \notin Overrides
  /\ NotLifted \notin Requests /\ Values \subseteq BOOLEAN
  /\ Databases \subseteq {"postgresql", "sqlite"}

VARIABLES
  database,    \* the backend of this installation
  is_enabled,  \* the flag's own switch
  older,       \* pairs of overrides, by created_at, uncommitted ones too
  override,    \* the committed rows: id -> row
  request      \* what each worker is doing

vars == <<database, is_enabled, older, override, request>>

(* cleared_at holds a stamp, named after the worker whose clock it is; saw  *)
(* is history: the overrides the recording request found active.            *)
OverrideRow == [is_enabled : BOOLEAN, cleared_at : Requests \cup {NotLifted}, saw : SUBSET Overrides]

Request ==
  [pc       : {"idle", "validated", "lifting", "inserted", "loaded"},
   target   : Overrides \cup {NoOverride},
   value    : BOOLEAN,
   previous : SUBSET Overrides,   \* active ones it still has to lift
   lifted   : SUBSET Overrides]   \* rows it lifted and has not committed

Idle == [pc |-> "idle", target |-> NoOverride, value |-> FALSE, previous |-> {}, lifted |-> {}]

TypeOK ==
  /\ database \in Databases
  /\ is_enabled \in BOOLEAN
  /\ older \subseteq Overrides \X Overrides
  /\ DOMAIN override \subseteq Overrides
  /\ override \in [DOMAIN override -> OverrideRow]
  /\ request \in [Requests -> Request]

-----------------------------------------------------------------------------
(* FlagOverrideQuerySet *)

active == {o \in DOMAIN override : override[o].cleared_at = NotLifted}

(* mutant: the rows come in whatever order the database likes *)
InAnyOrder(S) == S

(* order_by("-created_at").first(), as a set of at most one *)
Newest(S) == {o \in S : \A p \in S \ {o} : <<p, o>> \in older}

active_for == Newest(active)

(* What forces the flag, if anything does. *)
Forcing == IF active = {} THEN NoOverride ELSE CHOOSE o \in active : o \in active_for

(* FeatureFlagSerializer.get_effective_is_enabled, serialize_flag *)
effective_is_enabled ==
  IF active = {} THEN is_enabled ELSE \E o \in active_for : override[o].is_enabled

-----------------------------------------------------------------------------
InAtomic(q) == request[q].pc \in {"lifting", "inserted"}

(* On sqlite a writer waits for any transaction in progress. *)
MayWrite(r) == database = "sqlite" => \A q \in Requests \ {r} : ~InAtomic(q)

Unlocked(r, o) == \A q \in Requests \ {r} : o \notin request[q].lifted

Continue(r, locals) == request' = [request EXCEPT ![r] = locals]
End(r) == Continue(r, Idle)

(* FeatureFlagViewSet's update: an override is never touched by it. *)
SetEnabled(value) ==
  /\ \A q \in Requests : database = "sqlite" => ~InAtomic(q)
  /\ is_enabled' = value
  /\ UNCHANGED <<database, older, override, request>>

Unused(o) == o \notin DOMAIN override /\ \A q \in Requests : request[q].target # o

(* The serializer accepted the request; perform_create begins.  Which of    *)
(* the unused ids its row will have makes no difference.                    *)
ValidateOverride(r, o, value) ==
  /\ request[r] = Idle
  /\ Unused(o) /\ o = CHOOSE p \in Overrides : Unused(p)
  /\ Continue(r, [Idle EXCEPT !.pc = "validated", !.target = o, !.value = value])
  /\ UNCHANGED <<database, is_enabled, older, override>>

(* The loop's query, the first of the transaction. *)
ReadActive(r) ==
  /\ request[r].pc = "validated"
  /\ MayWrite(r)
  /\ Continue(r, [request[r] EXCEPT !.pc = "lifting", !.previous = active])
  /\ UNCHANGED <<database, is_enabled, older, override>>

(* previous.lift() in the order of Meta.ordering, newest first.  The        *)
(* instance says not lifted, so that the row is written whatever it holds   *)
(* by now, once nobody else has it locked.                                  *)
LiftPrevious(r) ==
  /\ request[r].pc = "lifting"
  /\ \E o \in Newest(request[r].previous) :
       /\ Unlocked(r, o)
       /\ Continue(r, [request[r] EXCEPT !.previous = @ \ {o}, !.lifted = @ \cup {o}])
  /\ UNCHANGED <<database, is_enabled, older, override>>

Inserted == DOMAIN override \cup {request[q].target : q \in {w \in Requests : request[w].pc = "inserted"}}

(* mutant: a recording lifts nothing *)
InsertWithoutLifting(r) ==
  /\ request[r].pc = "lifting"
  /\ older' = older \cup Inserted \X {request[r].target}
  /\ Continue(r, [request[r] EXCEPT !.pc = "inserted"])
  /\ UNCHANGED <<database, is_enabled, override>>

(* mutant: the loop lifts one override and leaves the others *)
InsertAfterFirst(r) ==
  /\ request[r].pc = "lifting"
  /\ request[r].previous = {} \/ request[r].lifted # {}
  /\ older' = older \cup Inserted \X {request[r].target}
  /\ Continue(r, [request[r] EXCEPT !.pc = "inserted"])
  /\ UNCHANGED <<database, is_enabled, override>>

InsertOverride(r) ==
  /\ request[r].pc = "lifting"
  /\ request[r].previous = {}
  /\ older' = older \cup Inserted \X {request[r].target}
  /\ Continue(r, [request[r] EXCEPT !.pc = "inserted"])
  /\ UNCHANGED <<database, is_enabled, override>>

Commit(r) ==
  LET o == request[r].target IN
  /\ request[r].pc = "inserted"
  /\ override' = [p \in DOMAIN override \cup {o} |->
       IF p = o
       THEN [is_enabled |-> request[r].value, cleared_at |-> NotLifted,
             saw |-> request[r].previous \cup request[r].lifted]
       ELSE IF p \in request[r].lifted THEN [override[p] EXCEPT !.cleared_at = r]
       ELSE override[p]]
  /\ End(r)
  /\ UNCHANGED <<database, is_enabled, older>>

(* FlagOverrideViewSet.lift; a row that is loaded as lifted is answered as  *)
(* it is.                                                                   *)
LoadForLift(r, o) ==
  /\ request[r] = Idle
  /\ o \in active
  /\ Continue(r, [Idle EXCEPT !.pc = "loaded", !.target = o])
  /\ UNCHANGED <<database, is_enabled, older, override>>

(* mutant: lifted is kept as a flag, not as a time *)
LiftAsFlag(r) ==
  LET o == request[r].target IN
  /\ request[r].pc = "loaded"
  /\ MayWrite(r) /\ Unlocked(r, o)
  /\ override' = [override EXCEPT ![o].cleared_at = TRUE]
  /\ End(r)
  /\ UNCHANGED <<database, is_enabled, older>>

SaveLift(r) ==
  LET o == request[r].target IN
  /\ request[r].pc = "loaded"
  /\ MayWrite(r) /\ Unlocked(r, o)
  /\ override' = [override EXCEPT ![o].cleared_at = r]
  /\ End(r)
  /\ UNCHANGED <<database, is_enabled, older>>

(* A worker dies or the database aborts its statement: the transaction is   *)
(* rolled back and its row with it.                                         *)
Fail(r) ==
  /\ request[r] # Idle
  /\ older' = IF request[r].pc = "inserted"
              THEN {pair \in older : request[r].target \notin {pair[1], pair[2]}} ELSE older
  /\ End(r)
  /\ UNCHANGED <<database, is_enabled, override>>

-----------------------------------------------------------------------------
Init ==
  /\ database \in Databases
  /\ is_enabled = FALSE
  /\ older = {}
  /\ override = [o \in {} |-> Idle]
  /\ request = [r \in Requests |-> Idle]

Advance(r) ==
  ReadActive(r) \/ LiftPrevious(r) \/ InsertOverride(r) \/ Commit(r) \/ SaveLift(r)

Next ==
  \/ \E value \in Values : SetEnabled(value)
  \/ \E r \in Requests :
       \/ \E o \in Overrides :
            (\E value \in Values : ValidateOverride(r, o, value)) \/ LoadForLift(r, o)
       \/ Advance(r)
       \/ Fail(r)

Spec == Init /\ [][Next]_vars

(* Workers run and the database grants a lock to whoever waits for it. *)
FairSpec == Spec /\ \A r \in Requests : SF_vars(Advance(r))

-----------------------------------------------------------------------------
(* What a request's locals mean while it runs. *)
RequestsInv ==
  /\ \A r \in Requests :
       /\ request[r].pc \notin {"lifting", "inserted"} =>
            request[r].previous = {} /\ request[r].lifted = {}
       /\ request[r].previous \cup request[r].lifted \subseteq DOMAIN override
       /\ request[r].pc \in {"validated", "lifting", "inserted"} =>
            request[r].target \in Overrides \ DOMAIN override
       /\ request[r].pc = "loaded" => request[r].target \in DOMAIN override
       /\ request[r].pc = "inserted" => request[r].previous = {}
  /\ \A r, q \in Requests :
       r # q /\ request[r].pc \in {"validated", "lifting", "inserted"}
         => request[q].target # request[r].target

(* The rows a recording saw are rows of the table. *)
SawRows == \A o \in DOMAIN override : override[o].saw \subseteq DOMAIN override

(* sqlite: one transaction at a time, and what it read stays true. *)
AloneInv ==
  database = "sqlite" =>
    /\ \A r, q \in Requests : InAtomic(r) /\ InAtomic(q) => r = q
    /\ \A r \in Requests : InAtomic(r) => active \subseteq request[r].previous \cup request[r].lifted
    /\ \A o, p \in active : o = p

OverridesInv == TypeOK /\ RequestsInv /\ SawRows /\ AloneInv

-----------------------------------------------------------------------------
(* Properties *)

(* One active override per flag (FlagOverrideViewSet.perform_create).       *)
OneActive == \A o, p \in active : o = p

(* Where the database does not make recordings exclude each other this is   *)
(* what their transactions leave of it: of two overrides active together,   *)
(* neither was there to be seen when the other was recorded.                *)
OnlyOverlappingActive ==
  \A o, p \in active : o # p => o \notin override[p].saw

(* Where transactions run alone, overlapping requests implement the promise *)
(* of the kill switch: a recording supersedes, a lift restores the          *)
(* configuration, and what was superseded never comes back.                 *)
Promise == INSTANCE KillSwitch WITH
  configured <- is_enabled,
  recorded   <- DOMAIN override,
  forcing    <- Forcing,
  effective  <- effective_is_enabled

IsKillSwitch ==
  /\ database = "sqlite" => Promise!Init
  /\ [][database = "sqlite" => [Promise!Next]_<<is_enabled, DOMAIN override, Forcing, effective_is_enabled>>]_vars

(* Recordings that lift the same overrides wait for each other's rows; they *)
(* never wait in a circle.                                                  *)
RequestsEnd == \A r \in Requests : request[r] # Idle ~> request[r] = Idle
=============================================================================

----------------------------- MODULE VariantSets -----------------------------
(***************************************************************************)
(* The variants of multivariate flags and the rules that roll one of them  *)
(* out (core_flags/api/views.py, core_flags/api/serializers.py).           *)
(*                                                                         *)
(* Two kinds of endpoints edit the same rows.  POST and PUT on             *)
(* /flags/{id}/variants/ take a whole set; /variants/ takes one row at a   *)
(* time.  Both read first, decide, and write in a later statement: nothing *)
(* locks the flag, so other requests may write in between.  A request that *)
(* this happened to is called overtaken.                                   *)
(*                                                                         *)
(* What a handler reads in a row before it decides is one step, and so is  *)
(* a transaction: its row locks make it wait for another one that touches  *)
(* the same rows, and if two wait for each other the database aborts one,  *)
(* which Fail covers, as it does a name that is taken.                     *)
(***************************************************************************)
EXTENDS Integers, Sequences, FiniteSetsExt

CONSTANTS
  Flags,        \* multivariate flags
  Variants,     \* identifiers variant rows may take
  NoVariant,    \* the null of rollout_variant
  New,          \* an item of a set without an id
  Rules,        \* strategy rules
  NoRule,
  Shares,       \* the weights clients send, whole ones and negative ones too
  Whole,        \* 100 in the code
  Parts,        \* a whole set may send fractions, in these parts of one
  Submissions,  \* the sets clients send: sequences of items
  Requests,     \* the server's workers
  Operations    \* the kinds of requests clients send

AllOperations == {"post", "put", "create", "update", "destroy", "rule"}

(* share is what int() leaves of the weight sent, cut is what it cuts off.  *)
Item == [id : Variants \cup {New}, share : Shares, cut : (1 - Parts)..(Parts - 1), control : BOOLEAN]

ASSUME VariantSetsAssumption ==
  /\ Shares \subseteq Int /\ 0 \in Shares
  /\ Whole \in Nat \ {0} /\ Parts \in Nat \ {0}
  /\ Flags # {}
  /\ NoVariant \notin Variants /\ New \notin Variants
  /\ NoRule \notin Rules
  /\ Submissions \subseteq Seq(Item)
  /\ Operations \subseteq AllOperations

VARIABLES
  variant,  \* the rows of Variant: id -> row
  born,     \* the ids handed out so far; a uuid is never handed out again
  rule,     \* the rows of StrategyRule
  request,  \* what each worker is doing, with the locals of its handler
  raced     \* history: an overtaken request has written variants

vars == <<variant, born, rule, request, raced>>

Row     == [flag : Flags, share : Shares, control : BOOLEAN]
RuleRow == [flag : Flags, variant : Variants \cup {NoVariant}]

NoRow == [flag |-> CHOOSE f \in Flags : TRUE, share |-> 0, control |-> FALSE]

Request ==
  [pc    : {"idle", "checked"},
   op    : AllOperations \cup {"none"},
   set   : Submissions \cup {<<>>},
   known : SUBSET Variants,               \* existing_ids of a PUT
   row   : Variants \cup {NoVariant},     \* the instance of a one-row request
   to    : Row,                           \* what its save will write
   rule  : Rules \cup {NoRule},
   overtaken : BOOLEAN]

Idle ==
  [pc |-> "idle", op |-> "none", set |-> <<>>, known |-> {}, row |-> NoVariant,
   to |-> NoRow, rule |-> NoRule, overtaken |-> FALSE]

TypeOK ==
  /\ DOMAIN variant \subseteq born /\ born \subseteq Variants
  /\ variant \in [DOMAIN variant -> Row]
  /\ rule \in [Rules -> RuleRow]
  /\ request \in [Requests -> Request]
  /\ raced \in BOOLEAN

-----------------------------------------------------------------------------
(* Reads *)

RowsOf(f)   == {v \in DOMAIN variant : variant[v].flag = f}
Controls(S) == {v \in S : variant[v].control}
Total(S)    == SumFunctionOnSet([v \in DOMAIN variant |-> variant[v].share], S)
RolledOut   == {rule[k].variant : k \in Rules}

Submitted(s) == {s[i].id : i \in DOMAIN s} \ {New}

Weight(s) == SumFunction([i \in DOMAIN s |-> s[i].share])
CutOff(s) == SumFunction([i \in DOMAIN s |-> s[i].cut])

(* The weights sent, fractions and all, add up to the whole. *)
AddsUp(s) == Parts * Weight(s) + CutOff(s) = Parts * Whole

(* mutant: more than one control is not refused *)
ValidSetManyControls(s) ==
  /\ s # <<>>
  /\ AddsUp(s)
  /\ Len(s) > 1 => \E i \in DOMAIN s : s[i].control

(* validate_variant_set *)
ValidSet(s) ==
  /\ s # <<>>
  /\ AddsUp(s)
  /\ Len(s) > 1 => \E i \in DOMAIN s : \A j \in DOMAIN s : s[j].control <=> j = i

(* a set of one row is its control, whatever the client says; the column    *)
(* holds integers, and Variant.objects.create cuts the rest off             *)
ItemRow(s, i, f) ==
  [flag |-> f, share |-> s[i].share, control |-> Len(s) = 1 \/ s[i].control]

(* mutant: the row's own weight is left out of the sum *)
RowAcceptedWithoutItself(f, self, share, control) ==
  LET others == RowsOf(f) \ {self} IN
  /\ control => Controls(others) = {}
  /\ ~control /\ Cardinality(RowsOf(f) \cup {self}) >= 2 => Controls(others) # {}
  /\ Total(others) = Whole \/ (others = {} /\ share = Whole)

(* VariantSerializer.validate for a row of flag f; self is NoVariant while  *)
(* the row is being created.  A row that moves to f is not counted there.   *)
RowAccepted(f, self, share, control) ==
  LET others == RowsOf(f) \ {self}
      count  == Cardinality(RowsOf(f)) + (IF self = NoVariant THEN 1 ELSE 0)
  IN
  /\ control => Controls(others) = {}
  /\ ~control /\ count >= 2 => Controls(others) # {}
  /\ Total(others) + share = Whole

-----------------------------------------------------------------------------
(* Steps of a request *)

Begin(r, op, locals) ==
  /\ op \in Operations
  /\ request' = [request EXCEPT ![r] = locals]
  /\ UNCHANGED <<variant, born, rule, raced>>

End(r) == request' = [request EXCEPT ![r] = Idle]

Refuse(r) == End(r) /\ UNCHANGED <<variant, born, rule, raced>>

At(r, op, pc) == request[r].op = op /\ request[r].pc = pc

Overtake(r, rows) ==
  [q \in Requests |->
     IF q = r THEN Idle
     ELSE IF request[q] # Idle /\ rows # variant THEN [request[q] EXCEPT !.overtaken = TRUE]
     ELSE request[q]]

(* The request's write, which ends it and overtakes the others. *)
Write(r, rows) ==
  /\ variant' = rows
  /\ born' = born \cup DOMAIN rows
  /\ request' = Overtake(r, rows)
  /\ raced' = (raced \/ request[r].overtaken)
  /\ UNCHANGED rule

-----------------------------------------------------------------------------
(* A whole set at once *)

(* mutant: rows are created with the id the client left out *)
PlacementsByItem(s) == {[i \in DOMAIN s |-> s[i].id]}

(* The row each item is written to: its own, or one with a fresh id. *)
Placements(s) ==
  {at \in [DOMAIN s -> Variants] :
     \A i \in DOMAIN s :
       IF s[i].id = New
       THEN at[i] \notin born /\ \A j \in DOMAIN s : at[j] = at[i] => j = i
       ELSE at[i] = s[i].id}

(* The item each of these rows is written from: the last one placed there. *)
LastItem(s, at) ==
  {from \in [{at[i] : i \in DOMAIN s} -> DOMAIN s] :
     \A v \in DOMAIN from : at[from[v]] = v /\ \A i \in DOMAIN s : at[i] = v => i <= from[v]}

Placed(s, from, f, keep) ==
  [v \in keep \cup DOMAIN from |-> IF v \in DOMAIN from THEN ItemRow(s, from[v], f) ELSE variant[v]]

(* POST: flag.variants.exists(), validate_variant_set *)
ReadForPost(r, f, s) ==
  /\ RowsOf(f) = {}
  /\ Submitted(s) = {} /\ ValidSet(s)
  /\ Begin(r, "post", [Idle EXCEPT !.pc = "checked", !.op = "post", !.set = s, !.to = [NoRow EXCEPT !.flag = f]])

CreateSet(r) ==
  LET s == request[r].set IN
  /\ At(r, "post", "checked")
  /\ \E at \in Placements(s) : \E from \in LastItem(s, at) :
       Write(r, Placed(s, from, request[r].to.flag, DOMAIN variant))

Removed(r) == request[r].known \ Submitted(request[r].set)

(* PUT: existing_ids.  Ids of other flags are refused, and so is a set that *)
(* leaves out a variant some rule rolls out.                                *)
ReadForPut(r, f, s) ==
  /\ Submitted(s) \subseteq RowsOf(f)
  /\ (RowsOf(f) \ Submitted(s)) \cap RolledOut = {}
  /\ ValidSet(s)
  /\ Begin(r, "put", [Idle EXCEPT !.pc = "checked", !.op = "put", !.set = s, !.known = RowsOf(f),
                                  !.to = [NoRow EXCEPT !.flag = f]])

(* mutant: the rows that go are deleted whatever rules say *)
ReplaceSetUnprotected(r) ==
  LET s == request[r].set
      f == request[r].to.flag
  IN
  /\ At(r, "put", "checked")
  /\ Submitted(s) \subseteq RowsOf(f)
  /\ \E at \in Placements(s) : \E from \in LastItem(s, at) :
       Write(r, Placed(s, from, f, DOMAIN variant \ (Removed(r) \cap RowsOf(f))))

(* The transaction: delete what the client left out, unless a rule protects *)
(* it, then write item by item.  Rows added since the read stay.            *)
ReplaceSet(r) ==
  LET s    == request[r].set
      f    == request[r].to.flag
      gone == Removed(r) \cap RowsOf(f)
  IN
  /\ At(r, "put", "checked")
  /\ gone \cap RolledOut = {} /\ Submitted(s) \subseteq RowsOf(f)
  /\ \E at \in Placements(s) : \E from \in LastItem(s, at) :
       Write(r, Placed(s, from, f, DOMAIN variant \ gone))

(* ProtectedError, or an item whose row is gone: all of it is rolled back *)
ReplaceRefused(r) ==
  LET f == request[r].to.flag IN
  /\ At(r, "put", "checked")
  /\ Removed(r) \cap RowsOf(f) \cap RolledOut # {} \/ ~(Submitted(request[r].set) \subseteq RowsOf(f))
  /\ Refuse(r)

-----------------------------------------------------------------------------
(* One row at a time *)

(* The first variant of a flag is its control, whatever the client says. *)
ValidateCreate(r, f, share, control) ==
  LET becomes == control \/ RowsOf(f) = {} IN
  /\ RowAccepted(f, NoVariant, share, becomes)
  /\ Begin(r, "create", [Idle EXCEPT !.pc = "checked", !.op = "create",
                                     !.to = [flag |-> f, share |-> share, control |-> becomes]])

InsertRow(r) ==
  /\ At(r, "create", "checked")
  /\ \E v \in Variants \ born :
       Write(r, [w \in DOMAIN variant \cup {v} |-> IF w = v THEN request[r].to ELSE variant[w]])

(* The body may name another flag: it is a writable field. *)
ValidateUpdate(r, v, f, share, control) ==
  /\ v \in DOMAIN variant
  /\ RowAccepted(f, v, share, control)
  /\ Begin(r, "update", [Idle EXCEPT !.pc = "checked", !.op = "update", !.row = v,
                                     !.to = [flag |-> f, share |-> share, control |-> control]])

(* Model.save(): a row deleted meanwhile is inserted again *)
SaveRow(r) ==
  LET v == request[r].row IN
  /\ At(r, "update", "checked")
  /\ Write(r, [w \in DOMAIN variant \cup {v} |-> IF w = v THEN request[r].to ELSE variant[w]])

(* mutant: the last variant may go *)
LoadAnyForDestroy(r, v) ==
  /\ v \in DOMAIN variant
  /\ ~variant[v].control
  /\ Begin(r, "destroy", [Idle EXCEPT !.pc = "checked", !.op = "destroy", !.row = v])

(* VariantViewSet.destroy: not the last one, not the control *)
LoadForDestroy(r, v) ==
  /\ v \in DOMAIN variant
  /\ RowsOf(variant[v].flag) # {v}
  /\ ~variant[v].control
  /\ Begin(r, "destroy", [Idle EXCEPT !.pc = "checked", !.op = "destroy", !.row = v])

DeleteRow(r) ==
  /\ At(r, "destroy", "checked")
  /\ request[r].row \notin RolledOut
  /\ Write(r, [w \in DOMAIN variant \ {request[r].row} |-> variant[w]])

(* ProtectedError *)
DeleteRefused(r) ==
  /\ At(r, "destroy", "checked")
  /\ request[r].row \in RolledOut
  /\ Refuse(r)

-----------------------------------------------------------------------------
(* Rules.  Creating one and editing one differ in what was there before; a  *)
(* body that leaves the variant alone is the choice v = the loaded one.     *)
ValidateRule(r, k, f, v) ==
  /\ v # NoVariant => v \in RowsOf(f)
  /\ Begin(r, "rule", [Idle EXCEPT !.pc = "checked", !.op = "rule", !.rule = k, !.row = v,
                                   !.to = [NoRow EXCEPT !.flag = f]])

(* The foreign key wants the variant to be there still. *)
SaveRule(r) ==
  /\ At(r, "rule", "checked")
  /\ request[r].row \in DOMAIN variant \cup {NoVariant}
  /\ rule' = [rule EXCEPT ![request[r].rule] = [flag |-> request[r].to.flag, variant |-> request[r].row]]
  /\ End(r)
  /\ UNCHANGED <<variant, born, raced>>

(* A worker dies, or the database refuses a statement. *)
Fail(r) ==
  /\ request[r] # Idle
  /\ Refuse(r)

-----------------------------------------------------------------------------
Init ==
  /\ variant = [v \in {} |-> NoRow]
  /\ born = {}
  /\ rule \in [Rules -> [flag : Flags, variant : {NoVariant}]]
  /\ request = [r \in Requests |-> Idle]
  /\ raced = FALSE

Arrive(r) ==
  /\ request[r] = Idle
  /\ \E f \in Flags :
      \/ \E s \in Submissions : ReadForPost(r, f, s) \/ ReadForPut(r, f, s)
      \/ \E share \in Shares, control \in BOOLEAN :
           \/ ValidateCreate(r, f, share, control)
           \/ \E v \in Variants : ValidateUpdate(r, v, f, share, control)
      \/ \E v \in Variants : LoadForDestroy(r, v)
      \/ \E k \in Rules, v \in Variants \cup {NoVariant} : ValidateRule(r, k, f, v)

Advance(r) ==
  \/ CreateSet(r) \/ ReplaceSet(r) \/ ReplaceRefused(r)
  \/ InsertRow(r) \/ SaveRow(r) \/ DeleteRow(r) \/ DeleteRefused(r)
  \/ SaveRule(r)

Next == \E r \in Requests : Arrive(r) \/ Advance(r) \/ Fail(r)

Spec == Init /\ [][Next]_vars

-----------------------------------------------------------------------------
(* The invariant the proofs are by: what a request's locals mean, and what  *)
(* its reads still say as long as nobody overtook it.                       *)
LocalsSet(q) ==
  /\ q.op \in {"post", "put"} => ValidSet(q.set)
  /\ q.op = "post" => Submitted(q.set) = {}
  /\ q.op = "create" => q.row = NoVariant
  /\ q.op = "update" => q.row \in Variants
  /\ q.op = "rule" => q.rule \in Rules

ReadsStand(q) ==
  q.overtaken \/
  /\ q.op = "post" => RowsOf(q.to.flag) = {}
  /\ q.op = "put" => q.known = RowsOf(q.to.flag)
  /\ q.op \in {"create", "update"} /\ q.to.control => Controls(RowsOf(q.to.flag) \ {q.row}) = {}
  /\ q.op = "destroy" /\ q.row \in DOMAIN variant => RowsOf(variant[q.row].flag) # {q.row}

-----------------------------------------------------------------------------
(* Properties *)

(* A rule never rolls out a variant that is gone (rollout_variant is        *)
(* PROTECTed), however its edits and the variants' interleave.              *)
RolloutsKept == \A k \in Rules : rule[k].variant \in DOMAIN variant \cup {NoVariant}

(* The rollout variant belongs to the rule's own flag                       *)
(* (StrategyRuleSerializer.validate).                                       *)
RolloutsOwn ==
  \A k \in Rules : rule[k].variant \in DOMAIN variant => variant[rule[k].variant].flag = rule[k].flag

(* Both kinds of endpoints refuse a second control; only a request that was *)
(* overtaken can make one.  Two make the server's evaluation raise.         *)
OneControl ==
  raced \/ \A v, w \in DOMAIN variant :
             variant[v].control /\ variant[w].control /\ variant[v].flag = variant[w].flag => v = w

VariantSetsInv ==
  /\ TypeOK
  /\ RolloutsKept
  /\ \A r \in Requests : LocalsSet(request[r]) /\ ReadsStand(request[r])
  /\ OneControl

(* The set names no row twice, and nothing it sends is cut off in the end.  *)
Exact(s) ==
  /\ CutOff(s) = 0
  /\ \A i, j \in DOMAIN s : s[i].id = s[j].id /\ s[i].id # New => i = j

(* Whatever weights earlier requests left a flag with (a DELETE and a row   *)
(* that moves away change them without a check, negative ones pass), the    *)
(* next set or row written to it leaves it with the whole: both kinds of    *)
(* endpoints check every row the flag will have (validate_variant_set,      *)
(* VariantSerializer.validate).  Not so a request that was overtaken, or a  *)
(* set that names a row twice or sends fractions, which are cut off.        *)
Writes(r, f) ==
  /\ request[r].op \in {"post", "put", "create", "update"} /\ request[r].to.flag = f
  /\ ~request[r].overtaken /\ Exact(request[r].set)
  /\ request'[r] = Idle /\ variant' # variant

WrittenWhole == [][\A r \in Requests, f \in Flags : Writes(r, f) => Total(RowsOf(f))' = Whole]_vars

(* It is proved by what the check of a row's weight still says.             *)
WeightsStand(q) ==
  q.overtaken \/ (q.op \in {"create", "update"} => Total(RowsOf(q.to.flag) \ {q.row}) + q.to.share = Whole)

WeightsInv == IsFiniteSet(DOMAIN variant) /\ \A r \in Requests : WeightsStand(request[r])

(* No edit takes the last variant of a flag away (VariantViewSet.destroy)   *)
(* unless a request was overtaken; an update may move it to another flag.   *)
LastVariantStays ==
  [][~raced' => \A f \in Flags : RowsOf(f) # {} =>
       RowsOf(f)' # {} \/ RowsOf(f) \cap DOMAIN variant' # {}]_vars
=============================================================================

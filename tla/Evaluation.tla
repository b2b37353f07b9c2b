----------------------------- MODULE Evaluation -----------------------------
(***************************************************************************)
(* What a flag means: the server's evaluation (core_flags/services.py)     *)
(* and the payload SDKs evaluate on their own (sdk_api/payloads.py), over  *)
(* every configuration that edits of one flag lead to.                     *)
(*                                                                         *)
(* Each edit is one step here; how requests that edit variants or record   *)
(* overrides overlap is VariantSets' and Overrides' matter.  A context is  *)
(* the bucket its user_id hashes to and the value of one attribute.  Rules *)
(* of equal priority come in any order and so do the conditions of a rule, *)
(* one of which may raise before another decides: a context has a set of   *)
(* answers.                                                                *)
(***************************************************************************)
EXTENDS Integers, Sequences, FiniteSetsExt, Functions

CONSTANTS
  Rules,         \* identifiers rule rows may take
  Variants,      \* identifiers variant rows may take; their order is the order of ids
  Whole,         \* 100 in the code; buckets are below it
  Percentages,   \* the percentages clients send for rollouts
  Weights,       \* the weights they send for variants, negative ones too
  Priorities,    \* the priorities clients send
  FlagTypes,     \* the types they change the flag to
  Forces,        \* the values they force it to
  MaxConditions, \* bound on the conditions of a rule
  Conditions,    \* the conditions clients add, as they are stored
  Values,        \* what the attribute may be
  Missing,       \* ... and its absence
  NoUser,        \* a context without user_id
  NoVariant,     \* the null of rollout_variant
  NoPercentage,  \* the null of rollout_percentage
  NotForced      \* no active override

FlagType == {"BOOLEAN", "MULTIVARIATE"}
Operator == {"EQUALS", "NOT_EQUALS", "GREATER_THAN", "LESS_THAN", "PERCENTAGE_SPLIT"}

ASSUME EvaluationAssumption ==
  /\ Whole \in Nat \ {0}
  /\ IsFiniteSet(Rules) /\ IsFiniteSet(Variants)
  /\ Variants \subseteq Nat /\ NoVariant \notin Nat
  /\ Percentages \subseteq 0..Whole /\ Weights \subseteq Int /\ NoPercentage \notin Nat
  /\ Priorities \subseteq Nat /\ MaxConditions \in Nat
  /\ Conditions \subseteq [operator : Operator, value : Nat, wrapped : BOOLEAN]
  /\ \A c \in Conditions : c.operator = "PERCENTAGE_SPLIT" => c.value <= Whole /\ c.wrapped
  /\ Values \subseteq Nat /\ Missing \notin Nat /\ NoUser \notin Nat
  /\ NotForced \notin BOOLEAN /\ Forces \subseteq BOOLEAN
  /\ FlagTypes \subseteq FlagType

VARIABLES
  flag,     \* the row of FeatureFlag
  forced,   \* the value of the active override
  variant,  \* the rows of Variant: id -> row
  rule      \* the rows of StrategyRule and their conditions: id -> row

vars == <<flag, forced, variant, rule>>

VariantRow == [weight : Weights, control : BOOLEAN]

RuleRow ==
  [priority : Priorities, operator_logic : {"AND", "OR"},
   variant : Variants \cup {NoVariant}, percentage : 0..Whole \cup {NoPercentage},
   conditions : SUBSET Conditions]

TypeOK ==
  /\ flag \in [is_enabled : BOOLEAN, flag_type : FlagType]
  /\ forced \in BOOLEAN \cup {NotForced}
  /\ DOMAIN variant \subseteq Variants /\ variant \in [DOMAIN variant -> VariantRow]
  /\ DOMAIN rule \subseteq Rules /\ rule \in [DOMAIN rule -> RuleRow]

Context == [bucket : 0..(Whole - 1) \cup {NoUser}, value : Values \cup {Missing}]

-----------------------------------------------------------------------------
(* Matching *)

(* mutant: the identity enters when its bucket is at least the percentage *)
UnderReversed(bucket, percentage) == bucket # NoUser /\ bucket >= percentage

(* _hash_bucket(...) < percentage *)
Under(bucket, percentage) == bucket # NoUser /\ bucket < percentage

Compares(operator, actual, expected) ==
  \/ operator = "EQUALS"       /\ actual = expected
  \/ operator = "NOT_EQUALS"   /\ actual # expected
  \/ operator = "GREATER_THAN" /\ actual > expected
  \/ operator = "LESS_THAN"    /\ actual < expected

(* _evaluate_condition, _evaluate_percentage_split.  What a condition is    *)
(* compared with is the "value" its own value wraps: where the API stored a *)
(* string, a number or a list as it was sent, condition.value.get raises.   *)
ConditionHolds(c, ctx) ==
  IF c.operator = "PERCENTAGE_SPLIT"
  THEN Under(ctx.bucket, c.value)
  ELSE ctx.value # Missing /\ c.wrapped /\ Compares(c.operator, ctx.value, c.value)

ConditionRaises(c, ctx) == c.operator # "PERCENTAGE_SPLIT" /\ ctx.value # Missing /\ ~c.wrapped

ConditionFails(c, ctx) == ~ConditionHolds(c, ctx) /\ ~ConditionRaises(c, ctx)

(* _evaluate_rule: all() and any() stop at the first condition that decides *)
(* or raises.  A rule without conditions matches everyone.                  *)
MayMatch(row, ctx) ==
  \/ row.conditions = {}
  \/ row.operator_logic = "AND" /\ \A c \in row.conditions : ConditionHolds(c, ctx)
  \/ row.operator_logic = "OR"  /\ \E c \in row.conditions : ConditionHolds(c, ctx)

MayFail(row, ctx) ==
  /\ row.conditions # {}
  /\ \/ row.operator_logic = "AND" /\ \E c \in row.conditions : ConditionFails(c, ctx)
     \/ row.operator_logic = "OR"  /\ \A c \in row.conditions : ConditionFails(c, ctx)

MayRaise(row, ctx) == \E c \in row.conditions : ConditionRaises(c, ctx)

-----------------------------------------------------------------------------
(* FlagEvaluationService *)

(* A flag answers a boolean or the name of a variant, or its evaluation     *)
(* raises.                                                                  *)
Boolean(b) == [is |-> "boolean", of |-> IF b THEN 1 ELSE 0]
Variant(v) == [is |-> "variant", of |-> v]
Error      == [is |-> "error", of |-> 0]

Weight(rows, S) == SumFunctionOnSet([v \in DOMAIN rows |-> rows[v].weight], S)

(* variants.get(is_control=True) *)
Control ==
  LET controls == {v \in DOMAIN variant : variant[v].control}
  IN  IF Cardinality(controls) = 1 THEN Variant(CHOOSE v \in controls : TRUE) ELSE Error

(* _assign_by_percentage: in the order of ids, the first variant whose      *)
(* running total exceeds the bucket, else the last one.                     *)
Split(ctx) ==
  LET reached == {v \in DOMAIN variant : ctx.bucket < Weight(variant, {w \in DOMAIN variant : w <= v})}
  IN  IF ctx.bucket = NoUser THEN Control
      ELSE IF DOMAIN variant = {} THEN Error
      ELSE IF reached = {} THEN Variant(Max(DOMAIN variant))
      ELSE Variant(Min(reached))

(* What a matching rule of a multivariate flag answers. *)
RuleAnswer(row, ctx) ==
  IF row.variant = NoVariant THEN Split(ctx)
  ELSE IF row.percentage = NoPercentage \/ row.percentage = Whole THEN Variant(row.variant)
  ELSE IF ctx.bucket = NoUser THEN Control
  ELSE IF Under(ctx.bucket, row.percentage) THEN Variant(row.variant)
  ELSE Split(ctx)

(* mutant: the rules come in the order of descending priority *)
ReachedBackwards(k, ctx) ==
  \A j \in DOMAIN rule : rule[j].priority > rule[k].priority => MayFail(rule[j], ctx)

(* order_by("priority"), up to ties *)
Reached(k, ctx) ==
  \A j \in DOMAIN rule : rule[j].priority < rule[k].priority => MayFail(rule[j], ctx)

FirstMatching(ctx) == {k \in DOMAIN rule : Reached(k, ctx) /\ MayMatch(rule[k], ctx)}

(* The rules one after the other: some answer, all may fail, some may raise. *)
Outcomes(ctx, served, default) ==
  served \cup
  (IF \A k \in DOMAIN rule : MayFail(rule[k], ctx) THEN {default} ELSE {}) \cup
  (IF \E k \in DOMAIN rule : Reached(k, ctx) /\ MayRaise(rule[k], ctx) THEN {Error} ELSE {})

(* evaluate_flag, _evaluate_multivariate *)
Answers(ctx) ==
  IF forced # NotForced THEN {Boolean(forced)}
  ELSE IF ~flag.is_enabled THEN {Boolean(FALSE)}
  ELSE IF flag.flag_type = "MULTIVARIATE"
       THEN Outcomes(ctx, {RuleAnswer(rule[k], ctx) : k \in FirstMatching(ctx)}, Split(ctx))
  ELSE IF DOMAIN rule = {} THEN {Boolean(TRUE)}
  ELSE Outcomes(ctx, {Boolean(TRUE) : k \in FirstMatching(ctx)}, Boolean(FALSE))

-----------------------------------------------------------------------------
(* serialize_flag *)

(* Sequences of all elements of S, in which later ones are never before. *)
Sorted(S, before(_, _)) ==
  {q \in [1..Cardinality(S) -> S] :
     \A i, j \in DOMAIN q : i < j => q[i] # q[j] /\ ~before(q[j], q[i])}

RuleOrders == Sorted(DOMAIN rule, LAMBDA k, j : rule[k].priority < rule[j].priority)

IdOrder == CHOOSE q \in Sorted(DOMAIN variant, LAMBDA v, w : v < w) : TRUE

VariantsData ==
  [i \in DOMAIN IdOrder |->
     [name |-> IdOrder[i], percentage_allocation |-> variant[IdOrder[i]].weight,
      is_control |-> variant[IdOrder[i]].control]]

(* mutant: an override forces the value and leaves the rules *)
PayloadsKeepingRules ==
  {[is_enabled |-> IF forced # NotForced THEN forced ELSE flag.is_enabled,
    flag_type |-> flag.flag_type, variants |-> VariantsData,
    rules |-> [i \in DOMAIN q |-> rule[q[i]]]] : q \in RuleOrders}

(* What an SDK may be sent: one payload for each order of equal priorities. *)
Payloads ==
  IF forced # NotForced
  THEN {[is_enabled |-> forced, flag_type |-> flag.flag_type, variants |-> <<>>, rules |-> <<>>]}
  ELSE {[is_enabled |-> flag.is_enabled, flag_type |-> flag.flag_type, variants |-> VariantsData,
         rules |-> [i \in DOMAIN q |-> rule[q[i]]]] : q \in RuleOrders}

-----------------------------------------------------------------------------
(* The evaluation the README asks of SDKs, on a payload p *)

Nothing == [is |-> "nothing", of |-> 0]  \* what the algorithm leaves open

(* "the comparison uses the inner value"; one without is not described, and *)
(* is taken not to match.                                                   *)
LocalHolds(c, ctx) ==
  \/ c.operator = "PERCENTAGE_SPLIT" /\ ctx.bucket # NoUser /\ ctx.bucket < c.value
  \/ /\ c.operator # "PERCENTAGE_SPLIT" /\ c.wrapped
     /\ ctx.value # Missing /\ Compares(c.operator, ctx.value, c.value)

LocalMatch(row, ctx) ==
  IF row.operator_logic = "OR" /\ row.conditions # {}
  THEN \E c \in row.conditions : LocalHolds(c, ctx)
  ELSE \A c \in row.conditions : LocalHolds(c, ctx)

LeastIndex(q, Test(_)) ==
  {i \in DOMAIN q : Test(i) /\ \A j \in 1..(i - 1) : ~Test(j)}

LocalControl(p) ==
  LET controls == {i \in DOMAIN p.variants : p.variants[i].is_control}
  IN  IF Cardinality(controls) = 1 THEN Variant(p.variants[CHOOSE i \in controls : TRUE].name) ELSE Nothing

RunningTotal(q, i) == SumFunctionOnSet([j \in DOMAIN q |-> q[j].percentage_allocation], 1..i)

LocalSplit(p, ctx) ==
  LET first == LeastIndex(p.variants, LAMBDA i : RunningTotal(p.variants, i) > ctx.bucket)
  IN  IF ctx.bucket = NoUser THEN LocalControl(p)
      ELSE IF first = {} THEN Nothing
      ELSE Variant(p.variants[CHOOSE i \in first : TRUE].name)

LocalRollout(p, row, ctx) ==
  IF row.variant = NoVariant THEN LocalSplit(p, ctx)
  ELSE IF row.percentage \in {NoPercentage, Whole} THEN Variant(row.variant)
  ELSE IF ctx.bucket = NoUser THEN LocalControl(p)
  ELSE IF ctx.bucket < row.percentage THEN Variant(row.variant)
  ELSE LocalSplit(p, ctx)

LocalVariant(p, ctx) ==
  LET first == LeastIndex(p.rules, LAMBDA i : LocalMatch(p.rules[i], ctx))
  IN  IF first = {} THEN LocalSplit(p, ctx) ELSE LocalRollout(p, p.rules[CHOOSE i \in first : TRUE], ctx)

(* With no rules and no variants left, "the flag value is the answer".      *)
LocalAnswer(p, ctx) ==
  IF ~p.is_enabled THEN Boolean(FALSE)
  ELSE IF p.flag_type = "BOOLEAN"
       THEN Boolean(p.rules = <<>> \/ \E i \in DOMAIN p.rules : LocalMatch(p.rules[i], ctx))
  ELSE IF p.variants = <<>> /\ p.rules = <<>> THEN Boolean(TRUE)
  ELSE LocalVariant(p, ctx)

-----------------------------------------------------------------------------
(* Edits of the flag and its override *)

(* FeatureFlagSerializer: both are writable, and nothing looks at what the  *)
(* flag already has.                                                        *)
SaveFlag(is_enabled, flag_type) ==
  /\ flag' = [is_enabled |-> is_enabled, flag_type |-> flag_type]
  /\ UNCHANGED <<forced, variant, rule>>

RecordOverride(value) ==
  /\ forced' = value
  /\ UNCHANGED <<flag, variant, rule>>

LiftOverride ==
  /\ forced' = NotForced
  /\ UNCHANGED <<flag, variant, rule>>

-----------------------------------------------------------------------------
(* Edits of variants *)

RolledOut == {rule[k].variant : k \in DOMAIN rule}

(* The rows of a set whose weights add up to the whole.  int() cuts off     *)
(* fractions: less than one of each row, towards zero.                      *)
ValidTable(rows) ==
  LET lost == Whole - Weight(rows, DOMAIN rows) IN
  /\ lost # 0 => /\ lost < Cardinality({v \in DOMAIN rows : rows[v].weight >= 0})
                 /\ -lost < Cardinality({v \in DOMAIN rows : rows[v].weight <= 0})
  /\ \E v \in DOMAIN rows : \A w \in DOMAIN rows : rows[w].control <=> w = v

Tables == {rows \in UNION {[S -> VariantRow] : S \in SUBSET Variants} : ValidTable(rows)}

(* POST on /flags/{id}/variants/ while there is none, PUT afterwards *)
SaveVariants(rows) ==
  /\ flag.flag_type = "MULTIVARIATE"
  /\ (DOMAIN variant \ DOMAIN rows) \cap RolledOut = {}
  /\ variant' = rows
  /\ UNCHANGED <<flag, forced, rule>>

(* VariantSerializer.validate, of a row that is created or changed *)
RowAccepted(v, row) ==
  LET others == DOMAIN variant \ {v}
  IN  /\ Weight(variant, others) + row.weight = Whole
      /\ IF \E w \in others : variant[w].control
         THEN ~row.control
         ELSE row.control \/ (others = {} /\ v \in DOMAIN variant)

(* POST on /variants/, PATCH and PUT on /variants/{id}/ *)
SaveVariant(v, row) ==
  /\ flag.flag_type = "MULTIVARIATE"
  /\ RowAccepted(v, row)
  /\ variant' = [w \in DOMAIN variant \cup {v} |-> IF w = v THEN row ELSE variant[w]]
  /\ UNCHANGED <<flag, forced, rule>>

(* DELETE on /variants/{id}/: the weights of the others stay. *)
DeleteVariant(v) ==
  /\ DOMAIN variant # {v} /\ ~variant[v].control /\ v \notin RolledOut
  /\ variant' = [w \in DOMAIN variant \ {v} |-> variant[w]]
  /\ UNCHANGED <<flag, forced, rule>>

-----------------------------------------------------------------------------
(* Edits of rules and conditions *)

(* mutant: nothing keeps the percentage of a rollout within 100 *)
RolloutsUnbounded ==
  {<<NoVariant, NoPercentage>>} \cup
    IF flag.flag_type = "MULTIVARIATE" THEN (DOMAIN variant) \X (Percentages \cup {Whole, Whole + 1}) ELSE {}

(* StrategyRuleSerializer.validate: a rollout needs a multivariate flag and *)
(* its percentage is 100 unless the client says another one.                *)
Rollouts ==
  {<<NoVariant, NoPercentage>>} \cup
    IF flag.flag_type = "MULTIVARIATE" THEN (DOMAIN variant) \X (Percentages \cup {Whole}) ELSE {}

ConditionsOf(k) == IF k \in DOMAIN rule THEN rule[k].conditions ELSE {}

WithRule(k, row) == [j \in DOMAIN rule \cup {k} |-> IF j = k THEN row ELSE rule[j]]

SaveRule(k, priority, logic, rollout) ==
  /\ rule' = WithRule(k, [priority |-> priority, operator_logic |-> logic, variant |-> rollout[1],
                          percentage |-> rollout[2], conditions |-> ConditionsOf(k)])
  /\ UNCHANGED <<flag, forced, variant>>

(* ... and its conditions with it *)
DeleteRule(k) ==
  /\ rule' = [j \in DOMAIN rule \ {k} |-> rule[j]]
  /\ UNCHANGED <<flag, forced, variant>>

(* Creating, changing and deleting conditions of a rule: some go, some come.*)
SaveCondition(k, before, after) ==
  /\ before \subseteq ConditionsOf(k)
  /\ Cardinality((ConditionsOf(k) \ before) \cup after) <= MaxConditions
  /\ rule' = [rule EXCEPT ![k].conditions = (@ \ before) \cup after]
  /\ UNCHANGED <<flag, forced, variant>>

-----------------------------------------------------------------------------
Init ==
  /\ flag \in [is_enabled : BOOLEAN, flag_type : FlagType]
  /\ forced = NotForced
  /\ variant = [v \in {} |-> <<>>]
  /\ rule = [k \in {} |-> <<>>]

AtMostOne(S) == {{}} \cup {{x} : x \in S}

EditRule(k) ==
  \/ \E priority \in Priorities, logic \in {"AND", "OR"}, rollout \in Rollouts :
       SaveRule(k, priority, logic, rollout)
  \/ k \in DOMAIN rule /\ (DeleteRule(k) \/ \E before, after \in AtMostOne(Conditions) : SaveCondition(k, before, after))

Next ==
  \/ \E is_enabled \in BOOLEAN, flag_type \in FlagTypes \cup {flag.flag_type} : SaveFlag(is_enabled, flag_type)
  \/ \E value \in Forces : RecordOverride(value)
  \/ LiftOverride
  \/ \E rows \in Tables : SaveVariants(rows)
  \/ \E v \in Variants, row \in VariantRow : SaveVariant(v, row)
  \/ \E v \in DOMAIN variant : DeleteVariant(v)
  \/ \E k \in Rules : EditRule(k)

Spec == Init /\ [][Next]_vars

-----------------------------------------------------------------------------
(* Properties *)

(* An SDK that evaluates what it was sent answers what the server answers   *)
(* (README: "local evaluation reproduces the server engine exactly"), for   *)
(* every flag whose weights sum to 100 and every context whose evaluation   *)
(* cannot raise: no rule it reaches has a condition whose value is not      *)
(* wrapped on an attribute it has, and a control that is asked for is there.*)
SdkAgrees ==
  LET sent == Payloads
  IN  DOMAIN variant = {} \/ Weight(variant, DOMAIN variant) = Whole =>
        \A ctx \in Context :
          Error \notin Answers(ctx) => {LocalAnswer(p, ctx) : p \in sent} = Answers(ctx)

(* Raising a percentage only ever adds users (README, test_evaluation.py):  *)
(* whoever was served the rule's variant still is when its rollout grows,   *)
(* and whoever had the feature still has it when a split grows, unless the  *)
(* evaluation could raise before: a split that fails spares a rule the      *)
(* condition that raises.                                                   *)
RolloutRaised(k) ==
  /\ {rule[k].percentage, rule'[k].percentage} \subseteq Nat
  /\ rule[k].percentage < rule'[k].percentage
  /\ rule' = [rule EXCEPT ![k].percentage = rule'[k].percentage]

SplitRaised(k) ==
  \E c \in rule[k].conditions : \E d \in rule'[k].conditions :
    /\ c.operator = "PERCENTAGE_SPLIT" /\ d.operator = "PERCENTAGE_SPLIT" /\ c.value < d.value
    /\ rule' = [rule EXCEPT ![k].conditions = (@ \ {c}) \cup {d}]

Keeps(answer, contexts) == \A ctx \in contexts : answer \in Answers(ctx) => answer \in Answers(ctx)'

RaisingOnlyAdds ==
  [][UNCHANGED <<flag, forced, variant>> =>
       \A k \in DOMAIN rule \cap DOMAIN rule' :
         /\ RolloutRaised(k) => Keeps(Variant(rule[k].variant), Context)
         /\ SplitRaised(k) /\ flag.flag_type = "BOOLEAN"
              => Keeps(Boolean(TRUE), {ctx \in Context : Error \notin Answers(ctx)})]_vars

(* Lower numbers come first: whatever happens to one rule, whoever matches  *)
(* one that precedes it before and after is answered as before.  Rules of   *)
(* equal numbers, which the database orders as it likes, precede neither.   *)
OnlyRule(k) ==
  /\ UNCHANGED <<flag, forced, variant>>
  /\ \A j \in Rules \ {k} :
       /\ j \in DOMAIN rule <=> j \in DOMAIN rule'
       /\ j \in DOMAIN rule => rule'[j] = rule[j]

Preceding(k) ==
  {j \in DOMAIN rule \ {k} :
     /\ k \in DOMAIN rule => rule[j].priority < rule[k].priority
     /\ k \in DOMAIN rule' => rule[j].priority < rule'[k].priority}

EarlierRulesShield ==
  [][\A k \in Rules : OnlyRule(k) =>
       \A j \in Preceding(k), ctx \in Context :
         MayMatch(rule[j], ctx) /\ ~MayRaise(rule[j], ctx) => Answers(ctx)' = Answers(ctx)]_vars
=============================================================================

-------------------------- MODULE EvaluationProofs --------------------------
(* What Evaluation guarantees for every set of rules, variants, conditions  *)
(* and contexts.                                                            *)
EXTENDS Evaluation, SumTheorems, TLAPS

(* Types are inductive: every edit checks what it stores. *)
LEMMA StepType == ASSUME TypeOK, [Next]_vars PROVE TypeOK'
<1>. USE EvaluationAssumption
<1>0. CASE UNCHANGED vars BY <1>0 DEF vars, TypeOK
<1>1. ASSUME NEW is_enabled \in BOOLEAN, NEW flag_type \in FlagTypes \cup {flag.flag_type},
             SaveFlag(is_enabled, flag_type)
      PROVE TypeOK'
  BY <1>1 DEF SaveFlag, TypeOK
<1>2. ASSUME NEW value \in Forces, RecordOverride(value) PROVE TypeOK'
  BY <1>2 DEF RecordOverride, TypeOK
<1>3. CASE LiftOverride BY <1>3 DEF LiftOverride, TypeOK
<1>4. ASSUME NEW rows \in Tables, SaveVariants(rows) PROVE TypeOK'
  <2>1. PICK S \in SUBSET Variants : rows \in [S -> VariantRow] BY DEF Tables
  <2>. QED BY <1>4, <2>1 DEF SaveVariants, TypeOK
<1>5. ASSUME NEW v \in Variants, NEW row \in VariantRow, SaveVariant(v, row) PROVE TypeOK'
  BY <1>5 DEF SaveVariant, TypeOK
<1>6. ASSUME NEW v \in DOMAIN variant, DeleteVariant(v) PROVE TypeOK'
  BY <1>6 DEF DeleteVariant, TypeOK
<1>7. ASSUME NEW k \in Rules, EditRule(k) PROVE TypeOK'
  <2>. SUFFICES ASSUME UNCHANGED <<flag, forced, variant>>
                PROVE DOMAIN rule' \subseteq Rules /\ rule' \in [DOMAIN rule' -> RuleRow]
    BY <1>7 DEF EditRule, SaveRule, DeleteRule, SaveCondition, TypeOK
  <2>1. ASSUME NEW priority \in Priorities, NEW logic \in {"AND", "OR"},
               NEW rollout \in Rollouts, SaveRule(k, priority, logic, rollout)
        PROVE DOMAIN rule' \subseteq Rules /\ rule' \in [DOMAIN rule' -> RuleRow]
    <3>1. /\ rollout[1] \in Variants \cup {NoVariant}
          /\ rollout[2] \in 0..Whole \cup {NoPercentage}
      BY DEF Rollouts, TypeOK
    <3>2. ConditionsOf(k) \in SUBSET Conditions BY DEF ConditionsOf, TypeOK, RuleRow
    <3>3. [priority |-> priority, operator_logic |-> logic, variant |-> rollout[1],
           percentage |-> rollout[2], conditions |-> ConditionsOf(k)] \in RuleRow
      BY <3>1, <3>2 DEF RuleRow
    <3>. QED BY <2>1, <3>3 DEF SaveRule, WithRule, TypeOK
  <2>2. ASSUME DeleteRule(k)
        PROVE DOMAIN rule' \subseteq Rules /\ rule' \in [DOMAIN rule' -> RuleRow]
    BY <2>2 DEF DeleteRule, TypeOK
  <2>3. ASSUME k \in DOMAIN rule, NEW before \in AtMostOne(Conditions),
               NEW after \in AtMostOne(Conditions), SaveCondition(k, before, after)
        PROVE DOMAIN rule' \subseteq Rules /\ rule' \in [DOMAIN rule' -> RuleRow]
    <3>1. [rule[k] EXCEPT !.conditions = (@ \ before) \cup after] \in RuleRow
      BY <2>3 DEF AtMostOne, TypeOK, RuleRow
    <3>. QED BY <2>3, <3>1 DEF SaveCondition, TypeOK
  <2>. QED BY <1>7, <2>1, <2>2, <2>3 DEF EditRule
<1>. QED BY <1>0, <1>1, <1>2, <1>3, <1>4, <1>5, <1>6, <1>7 DEF Next

(* Whatever is edited, what is stored is what the models declare: rollouts  *)
(* stay within 100 and rules keep a priority (TypeOK).                      *)
THEOREM TypeCorrect == Spec => []TypeOK
<1>1. Init => TypeOK
  <2>. SUFFICES ASSUME Init PROVE TypeOK OBVIOUS
  <2>1. /\ DOMAIN variant = {} /\ variant \in [{} -> VariantRow]
        /\ DOMAIN rule = {} /\ rule \in [{} -> RuleRow]
    BY DEF Init
  <2>. QED BY <2>1 DEF Init, TypeOK
<1>2. TypeOK /\ [Next]_vars => TypeOK' BY StepType
<1>. QED BY <1>1, <1>2, PTL DEF Spec

-----------------------------------------------------------------------------
(* What does not depend on rules answers as before. *)
LEMMA SplitKept ==
  ASSUME UNCHANGED variant, NEW ctx PROVE Split(ctx)' = Split(ctx) /\ Control' = Control
BY DEF Split, Weight, Control

(* Priorities can be compared. *)
LEMMA Comparable ==
  ASSUME TypeOK, NEW k \in DOMAIN rule PROVE rule[k] \in RuleRow /\ rule[k].priority \in Nat
BY EvaluationAssumption DEF TypeOK, RuleRow

LEMMA ComparableNext ==
  ASSUME TypeOK', NEW k \in DOMAIN rule' PROVE rule'[k] \in RuleRow /\ rule'[k].priority \in Nat
BY EvaluationAssumption DEF TypeOK, RuleRow

(* Rules whose conditions stay do what they did. *)
LEMMA SameRow ==
  ASSUME NEW row, NEW new, new.conditions = row.conditions, new.operator_logic = row.operator_logic, NEW ctx
  PROVE  /\ MayMatch(new, ctx) <=> MayMatch(row, ctx)
         /\ MayFail(new, ctx) <=> MayFail(row, ctx)
         /\ MayRaise(new, ctx) <=> MayRaise(row, ctx)
BY DEF MayMatch, MayFail, MayRaise

(* When only the percentage of one rule changes, the same rules match, in   *)
(* the same order, and only that rule can answer something else.            *)
LEMMA RolloutKept ==
  ASSUME TypeOK, UNCHANGED <<flag, forced, variant>>, NEW k \in DOMAIN rule, RolloutRaised(k),
         NEW ctx \in Context, Variant(rule[k].variant) \in Answers(ctx), TypeOK'
  PROVE  Variant(rule[k].variant) \in Answers(ctx)'
<1>1. /\ DOMAIN rule' = DOMAIN rule
      /\ \A j \in DOMAIN rule \ {k} : rule'[j] = rule[j]
      /\ rule'[k] = [rule[k] EXCEPT !.percentage = rule'[k].percentage]
  BY DEF RolloutRaised
<1>2. \A j \in DOMAIN rule :
        /\ rule'[j].conditions = rule[j].conditions
        /\ rule'[j].operator_logic = rule[j].operator_logic
        /\ rule'[j].priority = rule[j].priority
        /\ rule'[j].variant = rule[j].variant
  BY <1>1, Comparable DEF RuleRow
<1>3. \A j \in DOMAIN rule :
        (MayMatch(rule'[j], ctx) <=> MayMatch(rule[j], ctx)) /\ (MayFail(rule'[j], ctx) <=> MayFail(rule[j], ctx))
  BY <1>2, SameRow
<1>4. FirstMatching(ctx)' = FirstMatching(ctx) /\ FirstMatching(ctx) \subseteq DOMAIN rule
  BY <1>1, <1>2, <1>3 DEF FirstMatching, Reached
<1>5. Split(ctx)' = Split(ctx) /\ Control' = Control BY SplitKept
<1>6. \A j \in DOMAIN rule \ {k} : RuleAnswer(rule[j], ctx)' = RuleAnswer(rule[j], ctx)
  BY <1>1, <1>5 DEF RuleAnswer, Under
<1>7. RuleAnswer(rule[k], ctx) = Variant(rule[k].variant)
        => RuleAnswer(rule[k], ctx)' = Variant(rule[k].variant)
  <2>1. /\ rule[k].percentage \in 0..Whole /\ rule'[k].percentage \in 0..Whole
        /\ rule[k].percentage < rule'[k].percentage
    BY <1>1, EvaluationAssumption, Comparable, ComparableNext DEF RolloutRaised, RuleRow
  <2>2. Under(ctx.bucket, rule[k].percentage) => Under(ctx.bucket, rule'[k].percentage)
    BY <2>1, EvaluationAssumption DEF Under, Context
  <2>. QED BY <1>2, <1>5, <2>1, <2>2, EvaluationAssumption DEF RuleAnswer
<1>8. forced = NotForced /\ flag.is_enabled /\ flag.flag_type = "MULTIVARIATE"
  BY DEF Answers, Outcomes, Boolean, Variant, Error
<1>9. \/ \E j \in FirstMatching(ctx) : RuleAnswer(rule[j], ctx) = Variant(rule[k].variant)
      \/ (\A j \in DOMAIN rule : MayFail(rule[j], ctx)) /\ Split(ctx) = Variant(rule[k].variant)
  BY <1>8 DEF Answers, Outcomes, Variant, Error
<1>10. \/ \E j \in FirstMatching(ctx)' : RuleAnswer(rule[j], ctx)' = Variant(rule[k].variant)
       \/ (\A j \in DOMAIN rule' : MayFail(rule'[j], ctx)) /\ Split(ctx)' = Variant(rule[k].variant)
  BY <1>1, <1>3, <1>4, <1>5, <1>6, <1>7, <1>9
<1>. QED BY <1>8, <1>10 DEF Answers, Outcomes

(* What a rule without conditions that raise may do: match or fail. *)
LEMMA Decided ==
  ASSUME NEW row \in RuleRow, NEW ctx, ~MayRaise(row, ctx)
  PROVE  MayFail(row, ctx) <=> ~MayMatch(row, ctx)
<1>1. row.operator_logic \in {"AND", "OR"} BY DEF RuleRow
<1>2. \A c \in row.conditions : ConditionFails(c, ctx) <=> ~ConditionHolds(c, ctx)
  BY DEF MayRaise, ConditionFails
<1>. QED BY <1>1, <1>2 DEF MayFail, MayMatch

(* When a split grows where nothing that is reached may raise, its rule     *)
(* still matches, or still lets the rule pass that did.                     *)
LEMMA SplitMatches ==
  ASSUME TypeOK, UNCHANGED <<flag, forced, variant>>, NEW k \in DOMAIN rule, SplitRaised(k),
         NEW ctx \in Context, flag.flag_type = "BOOLEAN", Boolean(TRUE) \in Answers(ctx),
         Error \notin Answers(ctx), TypeOK'
  PROVE  Boolean(TRUE) \in Answers(ctx)'
<1>1. PICK c \in rule[k].conditions : \E d \in rule'[k].conditions :
        /\ c.operator = "PERCENTAGE_SPLIT" /\ d.operator = "PERCENTAGE_SPLIT" /\ c.value < d.value
        /\ rule' = [rule EXCEPT ![k].conditions = (@ \ {c}) \cup {d}]
  BY DEF SplitRaised
<1>2. PICK d \in rule'[k].conditions :
        /\ c.operator = "PERCENTAGE_SPLIT" /\ d.operator = "PERCENTAGE_SPLIT" /\ c.value < d.value
        /\ rule' = [rule EXCEPT ![k].conditions = (@ \ {c}) \cup {d}]
  BY <1>1
<1>3. c.value \in Nat /\ d.value \in Nat
  BY <1>2, EvaluationAssumption, Comparable, ComparableNext DEF RuleRow
<1>4. (ConditionHolds(c, ctx) => ConditionHolds(d, ctx)) /\ ~ConditionRaises(c, ctx) /\ ~ConditionRaises(d, ctx)
  BY <1>2, <1>3, EvaluationAssumption DEF ConditionHolds, ConditionRaises, Under, Context
<1>5. /\ DOMAIN rule' = DOMAIN rule
      /\ \A j \in DOMAIN rule \ {k} : rule'[j] = rule[j]
      /\ rule'[k] = [rule[k] EXCEPT !.conditions = (@ \ {c}) \cup {d}]
  BY <1>2
<1>6. /\ rule'[k].conditions = (rule[k].conditions \ {c}) \cup {d}
      /\ rule'[k].operator_logic = rule[k].operator_logic /\ rule'[k].priority = rule[k].priority
      /\ rule'[k] \in RuleRow /\ rule[k] \in RuleRow
  BY <1>5, Comparable, ComparableNext DEF RuleRow
<1>7. MayRaise(rule'[k], ctx) <=> MayRaise(rule[k], ctx)
  BY <1>1, <1>4, <1>6 DEF MayRaise
<1>8. MayMatch(rule[k], ctx) => MayMatch(rule'[k], ctx)
  <2>1. (\A x \in rule[k].conditions : ConditionHolds(x, ctx))
          => \A x \in rule'[k].conditions : ConditionHolds(x, ctx)
    BY <1>1, <1>4, <1>6
  <2>2. (\E x \in rule[k].conditions : ConditionHolds(x, ctx))
          => \E x \in rule'[k].conditions : ConditionHolds(x, ctx)
    BY <1>4, <1>6
  <2>. QED BY <1>1, <1>6, <2>1, <2>2 DEF MayMatch
<1>9. CASE forced # NotForced \/ ~flag.is_enabled \/ DOMAIN rule = {}
  BY <1>5, <1>9 DEF Answers
<1>10. CASE forced = NotForced /\ flag.is_enabled /\ DOMAIN rule # {}
  <2>1. Answers(ctx) = Outcomes(ctx, {Boolean(TRUE) : j \in FirstMatching(ctx)}, Boolean(FALSE))
    BY <1>10 DEF Answers
  <2>2. \A j \in DOMAIN rule : Reached(j, ctx) => ~MayRaise(rule[j], ctx)
    BY <2>1 DEF Outcomes
  <2>3. PICK i \in DOMAIN rule : Reached(i, ctx) /\ MayMatch(rule[i], ctx)
    BY <2>1 DEF Outcomes, FirstMatching, Boolean, Error
  <2>4. \A j \in DOMAIN rule : rule'[j].priority = rule[j].priority /\ rule[j].priority \in Nat
    BY <1>5, <1>6, Comparable
  <2>5. Reached(k, ctx) => Reached(k, ctx)'
    BY <1>5, <2>4 DEF Reached
  <2>6. \E j \in DOMAIN rule' : Reached(j, ctx)' /\ MayMatch(rule'[j], ctx)
    <3>1. CASE Reached(k, ctx) /\ MayMatch(rule'[k], ctx)
      BY <1>5, <2>5, <3>1
    <3>2. CASE Reached(k, ctx) /\ ~MayMatch(rule'[k], ctx)
      <4>1. MayFail(rule'[k], ctx) BY <1>6, <1>7, <2>2, <3>2, Decided
      <4>2. i # k BY <1>8, <2>3, <3>2
      <4>3. Reached(i, ctx)' BY <1>5, <2>3, <2>4, <4>1 DEF Reached
      <4>. QED BY <1>5, <2>3, <4>2, <4>3
    <3>3. CASE ~Reached(k, ctx)
      <4>1. ~(rule[k].priority < rule[i].priority) BY <2>3, <2>4, <3>3 DEF Reached
      <4>2. i # k BY <2>3, <3>3
      <4>3. Reached(i, ctx)' BY <1>5, <2>3, <2>4, <4>1 DEF Reached
      <4>. QED BY <1>5, <2>3, <4>2, <4>3
    <3>. QED BY <3>1, <3>2, <3>3
  <2>. QED BY <1>5, <1>10, <2>6 DEF Answers, Outcomes, FirstMatching
<1>. QED BY <1>9, <1>10

(* Raising a percentage only ever adds users, for any number of rules,      *)
(* whatever their order and whatever else they ask: a rollout always, a     *)
(* split where the evaluation cannot raise.                                 *)
THEOREM RaisingHolds == Spec => RaisingOnlyAdds
<1>1. ASSUME TypeOK, TypeOK', UNCHANGED <<flag, forced, variant>>, NEW k \in DOMAIN rule \cap DOMAIN rule'
      PROVE  /\ RolloutRaised(k) => Keeps(Variant(rule[k].variant), Context)
             /\ SplitRaised(k) /\ flag.flag_type = "BOOLEAN"
                  => Keeps(Boolean(TRUE), {ctx \in Context : Error \notin Answers(ctx)})
  <2>1. ASSUME RolloutRaised(k) PROVE Keeps(Variant(rule[k].variant), Context)
    BY <1>1, <2>1, RolloutKept DEF Keeps
  <2>2. ASSUME SplitRaised(k), flag.flag_type = "BOOLEAN"
        PROVE  Keeps(Boolean(TRUE), {ctx \in Context : Error \notin Answers(ctx)})
    BY <1>1, <2>2, SplitMatches DEF Keeps
  <2>. QED BY <2>1, <2>2
<1>2. TypeOK /\ TypeOK' /\ [Next]_vars =>
        [UNCHANGED <<flag, forced, variant>> =>
           \A k \in DOMAIN rule \cap DOMAIN rule' :
             /\ RolloutRaised(k) => Keeps(Variant(rule[k].variant), Context)
             /\ SplitRaised(k) /\ flag.flag_type = "BOOLEAN"
                  => Keeps(Boolean(TRUE), {ctx \in Context : Error \notin Answers(ctx)})]_vars
  BY <1>1
<1>. QED BY <1>2, TypeCorrect, PTL DEF Spec, RaisingOnlyAdds

-----------------------------------------------------------------------------
(* Lower numbers come first: no edit of one rule reaches whoever matches a  *)
(* rule that precedes it before and after, for any number of rules.         *)
THEOREM ShieldHolds == Spec => EarlierRulesShield
<1>1. ASSUME TypeOK, TypeOK', NEW k \in Rules, OnlyRule(k), NEW j \in Preceding(k),
             NEW ctx \in Context, MayMatch(rule[j], ctx), ~MayRaise(rule[j], ctx)
      PROVE  Answers(ctx)' = Answers(ctx)
  <2>1. /\ j \in DOMAIN rule /\ j \in DOMAIN rule' /\ rule'[j] = rule[j] /\ j \in Rules \ {k}
        /\ DOMAIN rule \ {k} = DOMAIN rule' \ {k}
        /\ \A i \in DOMAIN rule \ {k} : rule'[i] = rule[i]
        /\ DOMAIN rule \subseteq Rules /\ DOMAIN rule' \subseteq Rules
    BY <1>1 DEF Preceding, OnlyRule, TypeOK
  <2>2. ~MayFail(rule[j], ctx) /\ ~MayFail(rule'[j], ctx)
    BY <1>1, <2>1, Comparable, Decided
  <2>3. /\ k \in DOMAIN rule => rule[j].priority < rule[k].priority
        /\ k \in DOMAIN rule' => rule'[j].priority < rule'[k].priority
    BY <1>1, <2>1 DEF Preceding
  <2>4. /\ \A i \in DOMAIN rule : rule[i].priority \in Nat
        /\ \A i \in DOMAIN rule' : rule'[i].priority \in Nat
    BY <1>1, Comparable, ComparableNext
  <2>5. (k \in DOMAIN rule => ~Reached(k, ctx)) /\ (k \in DOMAIN rule' => ~Reached(k, ctx)')
    BY <2>1, <2>2, <2>3 DEF Reached
  <2>6. \A i \in DOMAIN rule \ {k} : Reached(i, ctx)' <=> Reached(i, ctx)
    <3>. SUFFICES ASSUME NEW i \in DOMAIN rule \ {k} PROVE Reached(i, ctx)' <=> Reached(i, ctx)
      OBVIOUS
    <3>1. rule'[i] = rule[i] /\ i \in DOMAIN rule' BY <2>1
    <3>2. CASE rule[j].priority < rule[i].priority
      BY <2>1, <2>2, <3>1, <3>2 DEF Reached
    <3>3. CASE ~(rule[j].priority < rule[i].priority)
      <4>1. k \in DOMAIN rule => ~(rule[k].priority < rule[i].priority)
        BY <2>1, <2>3, <2>4, <3>3
      <4>2. k \in DOMAIN rule' => ~(rule'[k].priority < rule'[i].priority)
        BY <2>1, <2>3, <2>4, <3>1, <3>3
      <4>. QED BY <2>1, <3>1, <4>1, <4>2 DEF Reached
    <3>. QED BY <3>2, <3>3
  <2>7. FirstMatching(ctx)' = FirstMatching(ctx) /\ FirstMatching(ctx) \subseteq DOMAIN rule \ {k}
    BY <2>1, <2>5, <2>6 DEF FirstMatching
  <2>8. Split(ctx)' = Split(ctx) /\ Control' = Control BY <1>1, SplitKept DEF OnlyRule
  <2>9. \A i \in FirstMatching(ctx) : RuleAnswer(rule[i], ctx)' = RuleAnswer(rule[i], ctx)
    BY <2>1, <2>7, <2>8 DEF RuleAnswer, Under
  <2>10. /\ {RuleAnswer(rule[i], ctx) : i \in FirstMatching(ctx)}'
              = {RuleAnswer(rule[i], ctx) : i \in FirstMatching(ctx)}
         /\ {Boolean(TRUE) : i \in FirstMatching(ctx)}' = {Boolean(TRUE) : i \in FirstMatching(ctx)}
    BY <2>7, <2>9
  <2>11. (\E i \in DOMAIN rule : Reached(i, ctx) /\ MayRaise(rule[i], ctx))'
           <=> (\E i \in DOMAIN rule : Reached(i, ctx) /\ MayRaise(rule[i], ctx))
    <3>1. \A i \in DOMAIN rule : Reached(i, ctx) /\ MayRaise(rule[i], ctx)
            => i \in DOMAIN rule' /\ Reached(i, ctx)' /\ MayRaise(rule'[i], ctx)
      BY <2>1, <2>5, <2>6
    <3>2. \A i \in DOMAIN rule' : Reached(i, ctx)' /\ MayRaise(rule'[i], ctx)
            => i \in DOMAIN rule /\ Reached(i, ctx) /\ MayRaise(rule[i], ctx)
      BY <2>1, <2>5, <2>6
    <3>. QED BY <3>1, <3>2 DEF MayRaise
  <2>12. ~(\A i \in DOMAIN rule : MayFail(rule[i], ctx)) /\ ~(\A i \in DOMAIN rule' : MayFail(rule'[i], ctx))
    BY <2>1, <2>2
  <2>. QED BY <1>1, <2>1, <2>8, <2>10, <2>11, <2>12 DEF Answers, OnlyRule, Outcomes
<1>2. TypeOK /\ TypeOK' =>
        [\A k \in Rules : OnlyRule(k) =>
           \A j \in Preceding(k), ctx \in Context :
             MayMatch(rule[j], ctx) /\ ~MayRaise(rule[j], ctx) => Answers(ctx)' = Answers(ctx)]_vars
  BY <1>1
<1>. QED BY <1>2, TypeCorrect, PTL DEF Spec, EarlierRulesShield

-----------------------------------------------------------------------------
(* SDKs and the server.  The server looks the control and the rules up as   *)
(* sets and splits along ids; who reads a payload walks its lists.  So that *)
(* they agree rests on how lists relate to the sets they list, and on what  *)
(* the weights of the first ones sum to.                                    *)

(* q lists S in the order of ranks. *)
Lists(q, S, rank) ==
  /\ q \in [1..Cardinality(S) -> S]
  /\ \A i, j \in 1..Cardinality(S) : i < j => q[i] # q[j] /\ rank[q[i]] <= rank[q[j]]

(* Any finite set can be listed: its least element first, then the others.  *)
LEMMA Listable ==
  ASSUME NEW S, IsFiniteSet(S), NEW rank, \A x \in S : rank[x] \in Nat
  PROVE  \E q : Lists(q, S, rank)
<1>. DEFINE C == {T \in SUBSET S : ~\E q : Lists(q, T, rank)}
<1>. SUFFICES ASSUME C # {} PROVE FALSE OBVIOUS
<1>1. PICK T \in C : \A U \in C : Cardinality(T) <= Cardinality(U)
  BY SmallestSet, FS_Subset
<1>2. T \in SUBSET S /\ IsFiniteSet(T) /\ ~\E q : Lists(q, T, rank) BY FS_Subset
<1>3. T # {}
  <2>. SUFFICES ASSUME T = {} PROVE FALSE OBVIOUS
  <2>1. 1..Cardinality(T) = {} BY FS_EmptySet
  <2>. DEFINE q == [i \in {} |-> 0]
  <2>2. q \in [1..Cardinality(T) -> T] BY <2>1
  <2>3. Lists(q, T, rank) BY <2>1, <2>2 DEF Lists
  <2>. QED BY <1>2, <2>3
<1>4. PICK x \in T : \A y \in T : rank[x] <= rank[y]
  <2>. DEFINE ranks == {rank[y] : y \in T}
  <2>1. ranks \in SUBSET Nat /\ ranks # {} BY <1>2, <1>3
  <2>2. PICK n \in ranks : \A m \in ranks : n <= m BY <2>1, LeastNumber
  <2>. QED BY <2>2
<1>. DEFINE U == T \ {x}
            n == Cardinality(U)
<1>5. IsFiniteSet(U) /\ n \in Nat /\ Cardinality(T) = n + 1
  <2>1. IsFiniteSet(U) /\ Cardinality(U) = Cardinality(T) - 1
    BY <1>2, <1>4, FS_RemoveElement, Zenon
  <2>2. Cardinality(T) \in Nat /\ Cardinality(U) \in Nat BY <1>2, <2>1, FS_CardinalityType
  <2>. QED BY <2>1, <2>2
<1>6. U \notin C
  <2>1. ~(Cardinality(T) <= Cardinality(U)) BY <1>5
  <2>. QED BY <1>1, <2>1
<1>7. PICK q : Lists(q, U, rank) BY <1>2, <1>6
<1>8. /\ q \in [1..n -> U]
      /\ \A i, j \in 1..n : i < j => q[i] # q[j] /\ rank[q[i]] <= rank[q[j]]
  BY <1>7 DEF Lists
<1>. DEFINE r == [i \in 1..(n + 1) |-> IF i = 1 THEN x ELSE q[i - 1]]
<1>. HIDE DEF n
<1>9. \A i \in 2..(n + 1) : i - 1 \in 1..n /\ r[i] = q[i - 1] /\ r[i] \in U BY <1>5, <1>8
<1>10. r[1] = x /\ \A i \in 1..(n + 1) : i = 1 \/ i \in 2..(n + 1) BY <1>5
<1>11. r \in [1..(n + 1) -> T] BY <1>9, <1>10
<1>12. ASSUME NEW i \in 1..(n + 1), NEW j \in 1..(n + 1), i < j
       PROVE  r[i] # r[j] /\ rank[r[i]] <= rank[r[j]]
  <2>1. j \in 2..(n + 1) BY <1>5, <1>12
  <2>2. CASE i = 1 BY <1>4, <1>9, <1>10, <2>1, <2>2
  <2>3. CASE i # 1
    <3>1. i \in 2..(n + 1) /\ i - 1 < j - 1 BY <1>5, <1>12, <2>3
    <3>2. r[i] = q[i - 1] /\ r[j] = q[j - 1] /\ i - 1 \in 1..n /\ j - 1 \in 1..n
      BY <1>9, <2>1, <3>1
    <3>. QED BY <1>8, <3>1, <3>2
  <2>. QED BY <2>2, <2>3
<1>. HIDE DEF r
<1>13. Lists(r, T, rank) BY <1>5, <1>11, <1>12 DEF Lists
<1>. QED BY <1>2, <1>13

(* A list of S has each of its elements. *)
LEMMA ListsAll ==
  ASSUME NEW S, IsFiniteSet(S), NEW q \in [1..Cardinality(S) -> S],
         \A i, j \in 1..Cardinality(S) : i < j => q[i] # q[j]
  PROVE  \A x \in S : \E i \in 1..Cardinality(S) : q[i] = x
<1>. DEFINE n == Cardinality(S)
<1>1. n \in Nat /\ IsFiniteSet(1..n) /\ Cardinality(1..n) = n
  BY FS_CardinalityType, FS_Interval
<1>2. \A i, j \in 1..n : q[i] = q[j] => i = j
  <2>. SUFFICES ASSUME NEW i \in 1..n, NEW j \in 1..n, q[i] = q[j], i # j PROVE FALSE OBVIOUS
  <2>1. i < j \/ j < i BY <1>1
  <2>. QED BY <2>1
<1>3. q \in Injection(1..n, S) BY <1>2 DEF Injection, IsInjective
<1>4. q \in Surjection(1..n, S) BY <1>1, <1>3, FS_Injection
<1>. QED BY <1>4 DEF Surjection

(* The first of the places where something holds. *)
LEMMA FirstPlace ==
  ASSUME NEW n \in Nat, NEW T \in SUBSET (1..n), T # {}
  PROVE  \E i \in T : /\ \A j \in T : i <= j
                      /\ {x \in 1..n : x \in T /\ \A j \in 1..(x - 1) : j \notin T} = {i}
<1>1. T \in SUBSET Nat OBVIOUS
<1>2. PICK i \in T : \A j \in T : i <= j BY <1>1, LeastNumber
<1>3. \A j \in 1..(i - 1) : j \notin T BY <1>2
<1>4. ASSUME NEW x \in 1..n, x \in T, x # i PROVE \E j \in 1..(x - 1) : j \in T
  <2>1. i \in 1..(x - 1) BY <1>2, <1>4
  <2>. QED BY <2>1
<1>. QED BY <1>2, <1>3, <1>4

(* An order of the rules has each once and none before one of lower number. *)
LEMMA RuleOrder ==
  ASSUME TypeOK, NEW q
  PROVE  q \in RuleOrders <=>
           /\ q \in [1..Cardinality(DOMAIN rule) -> DOMAIN rule]
           /\ \A i, j \in 1..Cardinality(DOMAIN rule) :
                i < j => q[i] # q[j] /\ ~(rule[q[j]].priority < rule[q[i]].priority)
BY DEF RuleOrders, Sorted

(* What is stored is finite, as the identifiers are. *)
LEMMA Finite == ASSUME TypeOK PROVE IsFiniteSet(DOMAIN rule) /\ IsFiniteSet(DOMAIN variant)
BY EvaluationAssumption, FS_Subset DEF TypeOK

(* Variants come in the order of their ids, which is one order. *)
LEMMA IdsOrdered ==
  ASSUME TypeOK
  PROVE  /\ IdOrder \in [1..Cardinality(DOMAIN variant) -> DOMAIN variant]
         /\ \A i, j \in 1..Cardinality(DOMAIN variant) : i < j => IdOrder[i] < IdOrder[j]
         /\ \A v \in DOMAIN variant : \E i \in 1..Cardinality(DOMAIN variant) : IdOrder[i] = v
<1>. DEFINE D == DOMAIN variant
            ids == [v \in D |-> v]
            n == Cardinality(D)
            Orders == {q \in [1..n -> D] : \A i, j \in DOMAIN q : i < j => q[i] # q[j] /\ ~(q[j] < q[i])}
<1>1. IsFiniteSet(D) /\ D \subseteq Nat BY Finite, EvaluationAssumption DEF TypeOK
<1>2. PICK q : Lists(q, D, ids) BY <1>1, Listable
<1>3. q \in Orders
  <2>1. q \in [1..n -> D] /\ \A i, j \in 1..n : i < j => q[i] # q[j] /\ ids[q[i]] <= ids[q[j]]
    BY <1>2 DEF Lists
  <2>2. ASSUME NEW i \in 1..n, NEW j \in 1..n, i < j PROVE q[i] # q[j] /\ ~(q[j] < q[i])
    <3>1. q[i] \in D /\ q[j] \in D BY <2>1
    <3>2. q[i] \in Nat /\ q[j] \in Nat /\ ids[q[i]] = q[i] /\ ids[q[j]] = q[j] BY <1>1, <3>1
    <3>. QED BY <2>1, <2>2, <3>2
  <2>3. DOMAIN q = 1..n BY <2>1
  <2>. QED BY <2>1, <2>2, <2>3
<1>4. IdOrder = CHOOSE x \in Orders : TRUE BY DEF IdOrder, Sorted
<1>5. IdOrder \in Orders BY <1>3, <1>4
<1>6. IdOrder \in [1..n -> D] /\ \A i, j \in 1..n : i < j => IdOrder[i] # IdOrder[j] /\ ~(IdOrder[j] < IdOrder[i])
  BY <1>5
<1>7. \A v \in D : \E i \in 1..n : IdOrder[i] = v
  <2>1. \A i, j \in 1..n : i < j => IdOrder[i] # IdOrder[j] BY <1>6
  <2>2. IdOrder \in [1..n -> D] BY <1>6
  <2>. HIDE DEF D
  <2>. QED BY <1>1, <2>1, <2>2, ListsAll
<1>8. ASSUME NEW i \in 1..n, NEW j \in 1..n, i < j PROVE IdOrder[i] < IdOrder[j]
  <2>1. IdOrder[i] \in Nat /\ IdOrder[j] \in Nat BY <1>1, <1>6
  <2>. QED BY <1>6, <1>8, <2>1
<1>. QED BY <1>6, <1>7, <1>8

(* The first weights of the payload sum to those of the ids up to one. *)
LEMMA Totals ==
  ASSUME TypeOK, NEW i \in 1..Cardinality(DOMAIN variant)
  PROVE  RunningTotal(VariantsData, i) = Weight(variant, {w \in DOMAIN variant : w <= IdOrder[i]})
<1>. DEFINE n == Cardinality(DOMAIN variant)
            listed == [j \in DOMAIN VariantsData |-> VariantsData[j].percentage_allocation]
            weights == [v \in DOMAIN variant |-> variant[v].weight]
            upto == {w \in DOMAIN variant : w <= IdOrder[i]}
<1>1. IsFiniteSet(DOMAIN variant) /\ n \in Nat BY Finite, FS_CardinalityType
<1>2. /\ IdOrder \in [1..n -> DOMAIN variant]
      /\ \A k, j \in 1..n : k < j => IdOrder[k] < IdOrder[j]
      /\ \A v \in DOMAIN variant : \E k \in 1..n : IdOrder[k] = v
  BY IdsOrdered
<1>3. \A v \in DOMAIN variant : v \in Nat /\ variant[v].weight \in Int
  BY EvaluationAssumption DEF TypeOK, VariantRow
<1>4. \A j \in 1..n : listed[j] = weights[IdOrder[j]] /\ listed[j] \in Int
  BY <1>2, <1>3 DEF VariantsData
<1>5. IsFiniteSet(1..i) /\ 1..i \subseteq 1..n BY <1>1, FS_Interval
<1>6. \A x, y \in 1..i : IdOrder[x] = IdOrder[y] => x = y
  <2>. SUFFICES ASSUME NEW x \in 1..i, NEW y \in 1..i, IdOrder[x] = IdOrder[y], x # y PROVE FALSE OBVIOUS
  <2>1. x < y \/ y < x OBVIOUS
  <2>2. x \in 1..n /\ y \in 1..n BY <1>5
  <2>3. IdOrder[x] \in Nat /\ IdOrder[y] \in Nat BY <1>2, <1>3, <2>2
  <2>4. IdOrder[x] < IdOrder[y] \/ IdOrder[y] < IdOrder[x] BY <1>2, <2>1, <2>2
  <2>. QED BY <2>3, <2>4
<1>7. {IdOrder[x] : x \in 1..i} = upto
  <2>1. ASSUME NEW x \in 1..i PROVE IdOrder[x] \in upto
    <3>1. x \in 1..n /\ (x = i \/ x < i) BY <1>5
    <3>2. IdOrder[x] \in DOMAIN variant /\ IdOrder[i] \in DOMAIN variant BY <1>2, <3>1
    <3>3. IdOrder[x] \in Nat /\ IdOrder[i] \in Nat BY <1>3, <3>2
    <3>4. IdOrder[x] <= IdOrder[i] BY <1>2, <3>1, <3>3
    <3>. QED BY <3>2, <3>4
  <2>2. ASSUME NEW w \in upto PROVE \E x \in 1..i : IdOrder[x] = w
    <3>1. PICK x \in 1..n : IdOrder[x] = w BY <1>2
    <3>2. IdOrder[i] \in Nat /\ w \in Nat BY <1>2, <1>3
    <3>3. ~(i < x) BY <1>2, <3>1, <3>2
    <3>4. x \in 1..i BY <3>3
    <3>. QED BY <3>1, <3>4
  <2>. HIDE DEF upto
  <2>. QED BY <2>1, <2>2
<1>8. SumFunctionOnSet(listed, 1..i) = SumFunctionOnSet(weights, {IdOrder[x] : x \in 1..i})
  <2>. HIDE DEF listed, weights
  <2>1. \A x \in 1..i : listed[x] = weights[IdOrder[x]] /\ listed[x] \in Int BY <1>4, <1>5
  <2>. QED BY <1>5, <1>6, <2>1, SumImage
<1>. QED BY <1>7, <1>8 DEF RunningTotal, Weight

(* The payload has the variants, in the order of ids. *)
LEMMA DataRows ==
  ASSUME TypeOK
  PROVE  /\ Cardinality(DOMAIN variant) \in Nat /\ DOMAIN VariantsData = 1..Cardinality(DOMAIN variant)
         /\ \A i \in 1..Cardinality(DOMAIN variant) :
              /\ VariantsData[i].name = IdOrder[i]
              /\ VariantsData[i].is_control = variant[IdOrder[i]].control
<1>1. Cardinality(DOMAIN variant) \in Nat BY Finite, FS_CardinalityType
<1>2. IdOrder \in [1..Cardinality(DOMAIN variant) -> DOMAIN variant] BY IdsOrdered
<1>. QED BY <1>1, <1>2 DEF VariantsData

(* Where the server finds a control, so does who reads the payload. *)
LEMMA SameControl ==
  ASSUME TypeOK, NEW p, p.variants = VariantsData, Control # Error
  PROVE  LocalControl(p) = Control
<1>. DEFINE n == Cardinality(DOMAIN variant)
            controls == {v \in DOMAIN variant : variant[v].control}
            places == {i \in DOMAIN p.variants : p.variants[i].is_control}
<1>1. IsFiniteSet(controls) BY Finite, FS_Subset
<1>2. Cardinality(controls) = 1 BY DEF Control
<1>3. PICK v : controls = {v} BY <1>1, <1>2, FS_Singleton
<1>4. v \in DOMAIN variant /\ \A w \in DOMAIN variant : variant[w].control <=> w = v BY <1>3
<1>5. PICK i \in 1..n : IdOrder[i] = v BY <1>4, IdsOrdered
<1>6. \A j \in 1..n : IdOrder[j] = v => j = i
  <2>. SUFFICES ASSUME NEW j \in 1..n, IdOrder[j] = v, j # i PROVE FALSE OBVIOUS
  <2>1. n \in Nat BY DataRows
  <2>2. j < i \/ i < j BY <2>1
  <2>3. v \in Nat BY <1>4, EvaluationAssumption DEF TypeOK
  <2>4. v < v BY <1>5, <2>2, IdsOrdered
  <2>. QED BY <2>3, <2>4
<1>7. \A j \in 1..n : IdOrder[j] \in DOMAIN variant BY IdsOrdered
<1>8. DOMAIN p.variants = 1..n /\ \A j \in 1..n : p.variants[j].is_control <=> variant[IdOrder[j]].control
  BY DataRows
<1>9. places = {i} BY <1>4, <1>5, <1>6, <1>7, <1>8
<1>10. Cardinality(places) = 1 /\ (CHOOSE x \in places : TRUE) = i BY <1>9, FS_Singleton
<1>11. LocalControl(p) = Variant(p.variants[i].name)
  <2>. HIDE DEF places
  <2>. QED BY <1>10 DEF LocalControl, places
<1>12. Control = Variant(v)
  <2>1. (CHOOSE x \in controls : TRUE) = v BY <1>3
  <2>. HIDE DEF controls
  <2>. QED BY <1>2, <2>1 DEF Control, controls
<1>. QED BY <1>5, <1>11, <1>12, DataRows

(* Where the weights sum to the whole, the walk along the payload ends at   *)
(* the variant at which the server's ends.                                  *)
LEMMA SameSplit ==
  ASSUME TypeOK, NEW p, p.variants = VariantsData, NEW ctx \in Context, Split(ctx) # Error,
         DOMAIN variant = {} \/ Weight(variant, DOMAIN variant) = Whole
  PROVE  LocalSplit(p, ctx) = Split(ctx)
<1>. DEFINE n == Cardinality(DOMAIN variant)
            b == ctx.bucket
            upto(v) == {w \in DOMAIN variant : w <= v}
            reached == {v \in DOMAIN variant : b < Weight(variant, upto(v))}
            T == {i \in 1..n : b < Weight(variant, upto(IdOrder[i]))}
            first == LeastIndex(p.variants, LAMBDA i : RunningTotal(p.variants, i) > b)
<1>1. CASE b = NoUser
  <2>1. Split(ctx) = Control BY <1>1 DEF Split
  <2>. QED BY <1>1, <2>1, SameControl DEF LocalSplit
<1>2. CASE b # NoUser
  <2>1. b \in 0..(Whole - 1) /\ Whole \in Nat /\ b \in Nat BY <1>2, EvaluationAssumption DEF Context
  <2>2. DOMAIN variant # {} BY <1>2 DEF Split
  <2>3. IsFiniteSet(DOMAIN variant) /\ n \in Nat /\ n # 0 /\ 1..n # {}
    BY <2>2, Finite, FS_EmptySet, FS_CardinalityType
  <2>4. /\ IdOrder \in [1..n -> DOMAIN variant]
        /\ \A i, j \in 1..n : i < j => IdOrder[i] < IdOrder[j]
        /\ \A v \in DOMAIN variant : v \in Nat /\ \E i \in 1..n : IdOrder[i] = v
    BY IdsOrdered, EvaluationAssumption DEF TypeOK
  <2>5. Weight(variant, upto(IdOrder[n])) = Whole
    <3>1. n \in 1..n BY <2>3
    <3>2. \A i \in 1..n : IdOrder[i] <= IdOrder[n]
      <4>. SUFFICES ASSUME NEW i \in 1..n PROVE IdOrder[i] <= IdOrder[n] OBVIOUS
      <4>1. i = n \/ i < n BY <2>3
      <4>2. IdOrder[i] \in Nat /\ IdOrder[n] \in Nat BY <2>4, <3>1
      <4>. QED BY <2>4, <3>1, <4>1, <4>2
    <3>3. upto(IdOrder[n]) = DOMAIN variant BY <2>4, <3>2
    <3>. QED BY <2>2, <3>3
  <2>6. T # {} /\ T \in SUBSET (1..n)
    <3>1. n \in 1..n BY <2>3
    <3>2. n \in T BY <2>1, <2>5, <3>1
    <3>. QED BY <3>2
  <2>7. PICK i \in T : /\ \A j \in T : i <= j
                       /\ {x \in 1..n : x \in T /\ \A j \in 1..(x - 1) : j \notin T} = {i}
    BY <2>3, <2>6, FirstPlace
  <2>8. first = {i}
    <3>1. DOMAIN p.variants = 1..n BY DataRows
    <3>2. \A x \in 1..n : RunningTotal(p.variants, x) > b <=> x \in T
      <4>1. \A x \in 1..n : RunningTotal(p.variants, x) = Weight(variant, upto(IdOrder[x])) BY Totals
      <4>2. \A x \in 1..n : x \in T <=> b < Weight(variant, upto(IdOrder[x])) OBVIOUS
      <4>. QED BY <4>1, <4>2
    <3>3. \A x \in 1..n : \A j \in 1..(x - 1) : j \in 1..n BY <2>3
    <3>. DEFINE passed(x) == RunningTotal(p.variants, x) > b
    <3>4. first = {x \in 1..n : passed(x) /\ \A j \in 1..(x - 1) : ~passed(j)}
      BY <3>1 DEF LeastIndex
    <3>. HIDE DEF first, T, passed
    <3>5. \A x \in 1..n : passed(x) <=> x \in T BY <3>2 DEF passed
    <3>6. first = {x \in 1..n : x \in T /\ \A j \in 1..(x - 1) : j \notin T} BY <3>3, <3>4, <3>5
    <3>. QED BY <2>7, <3>6
  <2>9. LocalSplit(p, ctx) = Variant(IdOrder[i])
    <3>1. first # {} /\ (CHOOSE x \in first : TRUE) = i BY <2>8
    <3>2. p.variants[i].name = IdOrder[i] BY <2>6, DataRows
    <3>3. LocalSplit(p, ctx) = Variant(p.variants[CHOOSE x \in first : TRUE].name)
      <4>. HIDE DEF first
      <4>. QED BY <1>2, <3>1 DEF LocalSplit, first
    <3>. QED BY <3>1, <3>2, <3>3
  <2>10. IdOrder[i] \in reached /\ \A v \in reached : IdOrder[i] <= v
    <3>1. IdOrder[i] \in reached BY <2>4, <2>6, <2>7
    <3>2. ASSUME NEW v \in reached PROVE IdOrder[i] <= v
      <4>1. PICK j \in 1..n : IdOrder[j] = v BY <2>4
      <4>2. j \in T BY <4>1
      <4>3. i \in 1..n /\ i <= j BY <2>6, <2>7, <4>2
      <4>4. i = j \/ i < j BY <2>3, <4>3
      <4>5. IdOrder[i] \in Nat /\ IdOrder[j] \in Nat BY <2>4, <4>3
      <4>. QED BY <2>4, <4>1, <4>3, <4>4, <4>5
    <3>. QED BY <3>1, <3>2
  <2>11. Min(reached) = IdOrder[i]
    <3>1. \A v \in reached : v \in Nat BY <2>4
    <3>. HIDE DEF reached
    <3>2. \A x \in reached : (\A v \in reached : x <= v) => x = IdOrder[i]
      BY <2>10, <3>1
    <3>. QED BY <2>10, <3>2 DEF Min
  <2>12. Split(ctx) = Variant(Min(reached))
    <3>1. reached # {} BY <2>10
    <3>. HIDE DEF reached
    <3>. QED BY <1>2, <2>2, <3>1 DEF Split, reached
  <2>. QED BY <2>9, <2>11, <2>12
<1>. QED BY <1>1, <1>2

(* ... and so does what a rule answers. *)
LEMMA SameRollout ==
  ASSUME TypeOK, NEW p, p.variants = VariantsData, NEW ctx \in Context, NEW row, RuleAnswer(row, ctx) # Error,
         DOMAIN variant = {} \/ Weight(variant, DOMAIN variant) = Whole
  PROVE  LocalRollout(p, row, ctx) = RuleAnswer(row, ctx)
<1>1. Split(ctx) # Error => LocalSplit(p, ctx) = Split(ctx) BY SameSplit
<1>2. Control # Error => LocalControl(p) = Control BY SameControl
<1>. QED BY <1>1, <1>2 DEF RuleAnswer, LocalRollout, Under

(* The rules that match, and those of them that come first, where nothing   *)
(* that is reached may raise.                                               *)
Matching(ctx) == {k \in DOMAIN rule : LocalMatch(rule[k], ctx)}

Foremost(ctx) == {k \in Matching(ctx) : \A j \in Matching(ctx) : rule[k].priority <= rule[j].priority}

(* SDKs and the server match the same conditions, so the same rules. *)
LEMMA SameMatch ==
  ASSUME NEW row \in RuleRow, NEW ctx PROVE LocalMatch(row, ctx) <=> MayMatch(row, ctx)
<1>1. row.operator_logic \in {"AND", "OR"} BY DEF RuleRow
<1>2. \A c \in row.conditions : LocalHolds(c, ctx) <=> ConditionHolds(c, ctx)
  BY DEF LocalHolds, ConditionHolds, Under
<1>. QED BY <1>1, <1>2 DEF LocalMatch, MayMatch

(* The server stops at the first rules that match when it cannot raise. *)
LEMMA Definite ==
  ASSUME TypeOK, NEW ctx, \A k \in DOMAIN rule : Reached(k, ctx) => ~MayRaise(rule[k], ctx)
  PROVE  /\ FirstMatching(ctx) = Foremost(ctx)
         /\ (\A k \in DOMAIN rule : MayFail(rule[k], ctx)) <=> Matching(ctx) = {}
<1>. DEFINE Stops == {k \in DOMAIN rule : ~MayFail(rule[k], ctx)}
            Least == {n \in Nat : \E k \in Stops : rule[k].priority = n}
<1>1. \A k \in DOMAIN rule : rule[k] \in RuleRow /\ rule[k].priority \in Nat BY Comparable
<1>2. \A k \in DOMAIN rule : LocalMatch(rule[k], ctx) <=> MayMatch(rule[k], ctx) BY <1>1, SameMatch
<1>3. \A k \in DOMAIN rule : Reached(k, ctx) => (MayFail(rule[k], ctx) <=> ~MayMatch(rule[k], ctx))
  BY <1>1, Decided
<1>4. \A j, k \in DOMAIN rule :
        Reached(k, ctx) /\ rule[j].priority <= rule[k].priority => Reached(j, ctx)
  BY <1>1 DEF Reached
<1>5. CASE Stops = {}
  <2>1. \A k \in DOMAIN rule : MayFail(rule[k], ctx) BY <1>5
  <2>2. \A k \in DOMAIN rule : Reached(k, ctx) BY <2>1 DEF Reached
  <2>3. Matching(ctx) = {} BY <1>2, <1>3, <2>1, <2>2 DEF Matching
  <2>4. FirstMatching(ctx) = {} BY <1>3, <2>1 DEF FirstMatching
  <2>. QED BY <2>1, <2>3, <2>4 DEF Foremost
<1>6. CASE Stops # {}
  <2>1. PICK f \in Stops : \A k \in Stops : rule[f].priority <= rule[k].priority
    <3>1. Least # {} /\ Least \subseteq Nat BY <1>1, <1>6
    <3>2. PICK n \in Least : \A m \in Least : n <= m
      <4>. HIDE DEF Least
      <4>. QED BY <3>1, LeastNumber
    <3>. QED BY <1>1, <3>2
  <2>2. \A k \in DOMAIN rule : rule[k].priority <= rule[f].priority => Reached(k, ctx)
    BY <1>1, <2>1 DEF Reached
  <2>3. f \in DOMAIN rule /\ Reached(f, ctx) /\ MayMatch(rule[f], ctx) BY <1>1, <1>3, <2>1, <2>2
  <2>4. f \in Matching(ctx) BY <1>2, <2>3 DEF Matching
  <2>5. ASSUME NEW k \in DOMAIN rule, rule[k].priority < rule[f].priority PROVE ~LocalMatch(rule[k], ctx)
    <3>1. k \notin Stops BY <1>1, <2>1, <2>3, <2>5
    <3>2. Reached(k, ctx) BY <1>1, <2>2, <2>3, <2>5
    <3>. QED BY <1>2, <1>3, <3>1, <3>2
  <2>6. ASSUME NEW k \in DOMAIN rule
        PROVE  k \in FirstMatching(ctx) <=> LocalMatch(rule[k], ctx) /\ rule[k].priority <= rule[f].priority
    <3>1. Reached(k, ctx) => rule[k].priority <= rule[f].priority
      BY <1>1, <2>1, <2>3 DEF Reached
    <3>. QED BY <1>2, <2>2, <2>6, <3>1 DEF FirstMatching
  <2>7. ASSUME NEW k \in DOMAIN rule
        PROVE  k \in Foremost(ctx) <=> LocalMatch(rule[k], ctx) /\ rule[k].priority <= rule[f].priority
    <3>1. k \in Foremost(ctx) => LocalMatch(rule[k], ctx) /\ rule[k].priority <= rule[f].priority
      BY <2>4 DEF Foremost, Matching
    <3>2. \A j \in Matching(ctx) : rule[f].priority <= rule[j].priority
      BY <1>1, <2>3, <2>5 DEF Matching
    <3>3. ASSUME LocalMatch(rule[k], ctx), rule[k].priority <= rule[f].priority PROVE k \in Foremost(ctx)
      <4>1. k \in Matching(ctx) BY <3>3, <2>7 DEF Matching
      <4>2. \A j \in Matching(ctx) : rule[k].priority <= rule[j].priority
        BY <1>1, <2>3, <3>2, <3>3, <2>7 DEF Matching
      <4>. QED BY <4>1, <4>2 DEF Foremost
    <3>. QED BY <3>1, <3>3
  <2>8. FirstMatching(ctx) \subseteq DOMAIN rule /\ Foremost(ctx) \subseteq DOMAIN rule
    BY DEF FirstMatching, Foremost, Matching
  <2>. QED BY <1>6, <2>4, <2>6, <2>7, <2>8
<1>. QED BY <1>5, <1>6

(* Where rules match, one of them comes first. *)
LEMMA Foremosts ==
  ASSUME TypeOK, NEW ctx PROVE Matching(ctx) = {} <=> Foremost(ctx) = {}
<1>. DEFINE Least == {n \in Nat : \E k \in Matching(ctx) : rule[k].priority = n}
<1>1. \A k \in Matching(ctx) : rule[k].priority \in Nat BY Comparable DEF Matching
<1>2. ASSUME Matching(ctx) # {} PROVE Foremost(ctx) # {}
  <2>1. Least # {} /\ Least \subseteq Nat BY <1>1, <1>2
  <2>2. PICK n \in Least : \A m \in Least : n <= m
    <3>. HIDE DEF Least
    <3>. QED BY <2>1, LeastNumber
  <2>. QED BY <1>1, <2>2 DEF Foremost
<1>. QED BY <1>2 DEF Foremost

(* The rules of a payload, in an order that priorities allow. *)
Sent(q) == [i \in DOMAIN q |-> rule[q[i]]]

(* Where the first rule of a payload that matches is. *)
FirstPlaces(p, ctx) == LeastIndex(p.rules, LAMBDA x : LocalMatch(p.rules[x], ctx))

(* What is sent is empty when nothing is stored, and matches when a rule does. *)
LEMMA SentRules ==
  ASSUME TypeOK, NEW q \in RuleOrders, NEW ctx
  PROVE  /\ (Sent(q) = <<>>) <=> (DOMAIN rule = {})
         /\ (\E i \in DOMAIN Sent(q) : LocalMatch(Sent(q)[i], ctx)) <=> (Matching(ctx) # {})
<1>. DEFINE n == Cardinality(DOMAIN rule)
<1>1. IsFiniteSet(DOMAIN rule) /\ n \in Nat BY Finite, FS_CardinalityType
<1>2. q \in [1..n -> DOMAIN rule] /\ \A i, j \in 1..n : i < j => q[i] # q[j] BY RuleOrder
<1>3. \A k \in DOMAIN rule : \E i \in 1..n : q[i] = k BY <1>1, <1>2, ListsAll
<1>4. DOMAIN Sent(q) = 1..n /\ \A i \in 1..n : Sent(q)[i] = rule[q[i]] /\ q[i] \in DOMAIN rule
  BY <1>2 DEF Sent
<1>5. (Sent(q) = <<>>) <=> (DOMAIN rule = {})
  <2>1. (n = 0) <=> (DOMAIN rule = {}) BY <1>1, FS_EmptySet
  <2>2. ASSUME n = 0 PROVE Sent(q) = <<>>
    <3>1. 1..n = {} BY <2>2
    <3>2. DOMAIN q = {} BY <1>2, <3>1
    <3>3. Sent(q) = [i \in {} |-> rule[q[i]]] BY <3>2 DEF Sent
    <3>. QED BY <3>3
  <2>3. ASSUME n # 0 PROVE Sent(q) # <<>>
    <3>1. 1 \in DOMAIN Sent(q) BY <1>1, <1>4, <2>3
    <3>2. DOMAIN <<>> = {} OBVIOUS
    <3>. QED BY <3>1, <3>2
  <2>. QED BY <2>1, <2>2, <2>3
<1>6. (\E i \in DOMAIN Sent(q) : LocalMatch(Sent(q)[i], ctx)) <=> (Matching(ctx) # {})
  <2>1. \A k : k \in Matching(ctx) <=> k \in DOMAIN rule /\ LocalMatch(rule[k], ctx) BY DEF Matching
  <2>. QED BY <1>3, <1>4, <2>1
<1>. QED BY <1>5, <1>6

(* A flag without variants raises where it would split. *)
LEMMA DataSent ==
  ASSUME TypeOK, NEW ctx, Split(ctx) # Error PROVE VariantsData # <<>>
<1>1. DOMAIN variant # {}
  <2>. SUFFICES ASSUME DOMAIN variant = {} PROVE Split(ctx) = Error OBVIOUS
  <2>1. {v \in DOMAIN variant : variant[v].control} = {} OBVIOUS
  <2>2. Control = Error BY <2>1, FS_EmptySet DEF Control
  <2>. QED BY <2>2 DEF Split
<1>2. Cardinality(DOMAIN variant) \in Nat /\ Cardinality(DOMAIN variant) # 0
  BY <1>1, Finite, FS_EmptySet, FS_CardinalityType
<1>3. 1 \in DOMAIN VariantsData BY <1>2, DataRows
<1>4. DOMAIN <<>> = {} OBVIOUS
<1>. QED BY <1>3, <1>4

(* Its first rule that matches is one of those that come first on the server. *)
LEMMA FirstSent ==
  ASSUME TypeOK, NEW q \in RuleOrders, NEW ctx, NEW p, p.rules = Sent(q), Matching(ctx) # {}
  PROVE  \E i \in DOMAIN q :
           /\ q[i] \in Foremost(ctx) /\ p.rules[i] = rule[q[i]]
           /\ FirstPlaces(p, ctx) = {i}
           /\ \A j \in DOMAIN q : LocalMatch(rule[q[j]], ctx) => i <= j
<1>. DEFINE n == Cardinality(DOMAIN rule)
            T == {i \in 1..n : q[i] \in Matching(ctx)}
<1>1. IsFiniteSet(DOMAIN rule) /\ n \in Nat BY Finite, FS_CardinalityType
<1>2. /\ q \in [1..n -> DOMAIN rule]
      /\ \A i, j \in 1..n : i < j => q[i] # q[j] /\ ~(rule[q[j]].priority < rule[q[i]].priority)
  BY RuleOrder
<1>3. \A k \in DOMAIN rule : \E i \in 1..n : q[i] = k
  <2>1. \A i, j \in 1..n : i < j => q[i] # q[j] BY <1>2
  <2>2. q \in [1..n -> DOMAIN rule] BY <1>2
  <2>. QED BY <1>1, <2>1, <2>2, ListsAll
<1>4. Matching(ctx) \subseteq DOMAIN rule /\ \A k \in DOMAIN rule : k \in Matching(ctx) <=> LocalMatch(rule[k], ctx)
  BY DEF Matching
<1>5. T # {} /\ T \in SUBSET (1..n) BY <1>3, <1>4
<1>6. PICK i \in T : /\ \A j \in T : i <= j
                     /\ {x \in 1..n : x \in T /\ \A j \in 1..(x - 1) : j \notin T} = {i}
  BY <1>1, <1>5, FirstPlace
<1>7. DOMAIN q = 1..n /\ DOMAIN p.rules = 1..n /\ \A x \in 1..n : p.rules[x] = rule[q[x]]
  BY <1>2 DEF Sent
<1>8. \A x \in 1..n : LocalMatch(p.rules[x], ctx) <=> x \in T
  BY <1>2, <1>4, <1>7
<1>9. FirstPlaces(p, ctx) = {i}
  <2>. DEFINE first == FirstPlaces(p, ctx)
              passed(x) == LocalMatch(p.rules[x], ctx)
  <2>1. first = {x \in 1..n : passed(x) /\ \A j \in 1..(x - 1) : ~passed(j)}
    BY <1>7 DEF FirstPlaces, LeastIndex
  <2>2. \A x \in 1..n : \A j \in 1..(x - 1) : j \in 1..n BY <1>1
  <2>. HIDE DEF first, T, passed
  <2>3. \A x \in 1..n : passed(x) <=> x \in T BY <1>8 DEF passed
  <2>4. first = {x \in 1..n : x \in T /\ \A j \in 1..(x - 1) : j \notin T} BY <2>1, <2>2, <2>3
  <2>. QED BY <1>6, <2>4 DEF first
<1>10. q[i] \in Foremost(ctx)
  <2>1. q[i] \in Matching(ctx) /\ i \in 1..n BY <1>6
  <2>2. ASSUME NEW k \in Matching(ctx) PROVE rule[q[i]].priority <= rule[k].priority
    <3>1. PICK j \in 1..n : q[j] = k BY <1>3, <1>4
    <3>2. i <= j /\ (i = j \/ i < j) BY <1>1, <1>6, <2>1, <3>1
    <3>3. rule[q[i]].priority \in Nat /\ rule[k].priority \in Nat BY <1>4, <2>1, Comparable
    <3>4. ~(rule[k].priority < rule[q[i]].priority) BY <1>2, <2>1, <3>1, <3>2, <3>3
    <3>. QED BY <3>3, <3>4
  <2>. QED BY <2>1, <2>2 DEF Foremost
<1>11. \A j \in DOMAIN q : LocalMatch(rule[q[j]], ctx) => i <= j BY <1>6, <1>7, <1>8
<1>. QED BY <1>6, <1>7, <1>9, <1>10, <1>11

(* Each rule that may come first does in some order. *)
LEMMA ComesFirst ==
  ASSUME TypeOK, NEW ctx, NEW k \in Foremost(ctx)
  PROVE  \E q \in RuleOrders : \A i, j \in DOMAIN q : q[i] = k /\ LocalMatch(rule[q[j]], ctx) => i <= j
<1>. DEFINE D == DOMAIN rule
            n == Cardinality(D)
            rank == [j \in D |-> 2 * rule[j].priority + (IF j = k THEN 0 ELSE 1)]
<1>1. IsFiniteSet(D) /\ n \in Nat BY Finite, FS_CardinalityType
<1>2. \A j \in D : rule[j].priority \in Nat BY Comparable
<1>3. \A j \in D : rank[j] \in Nat BY <1>2
<1>4. k \in D /\ \A j \in D : LocalMatch(rule[j], ctx) => rule[k].priority <= rule[j].priority
  BY DEF Foremost, Matching
<1>5. \A j \in D : LocalMatch(rule[j], ctx) /\ j # k => rank[k] < rank[j]
  BY <1>2, <1>4
<1>6. \A i, j \in D : rank[i] <= rank[j] => ~(rule[j].priority < rule[i].priority)
  BY <1>2
<1>. HIDE DEF rank, D
<1>7. PICK q : Lists(q, D, rank) BY <1>1, <1>3, Listable
<1>8. /\ q \in [1..n -> D]
      /\ \A i, j \in 1..n : i < j => q[i] # q[j] /\ rank[q[i]] <= rank[q[j]]
  BY <1>7 DEF Lists
<1>9. q \in RuleOrders
  <2>1. \A i, j \in 1..n : i < j => q[i] # q[j] /\ ~(rule[q[j]].priority < rule[q[i]].priority)
    BY <1>6, <1>8
  <2>2. q \in [1..n -> D] BY <1>8
  <2>. QED BY <2>1, <2>2, RuleOrder DEF D
<1>10. ASSUME NEW i \in 1..n, NEW j \in 1..n, q[i] = k, LocalMatch(rule[q[j]], ctx) PROVE i <= j
  <2>. SUFFICES ASSUME j < i PROVE FALSE BY <1>1
  <2>1. q[j] # k /\ rank[q[j]] <= rank[k] BY <1>8, <1>10
  <2>2. q[j] \in D /\ rank[k] < rank[q[j]] BY <1>5, <1>8, <1>10, <2>1
  <2>3. rank[k] \in Nat /\ rank[q[j]] \in Nat BY <1>3, <1>4, <2>2
  <2>. QED BY <2>1, <2>2, <2>3
<1>. QED BY <1>8, <1>9, <1>10

(* What a payload of an enabled multivariate flag that nothing forces answers. *)
LEMMA SameVariant ==
  ASSUME TypeOK, NEW ctx \in Context, NEW q \in RuleOrders, NEW p,
         p.variants = VariantsData, p.rules = Sent(q),
         DOMAIN variant = {} \/ Weight(variant, DOMAIN variant) = Whole
  PROVE  /\ Matching(ctx) = {} /\ Split(ctx) # Error => LocalVariant(p, ctx) = Split(ctx)
         /\ \A k \in Foremost(ctx) :
              /\ \A i, j \in DOMAIN q : q[i] = k /\ LocalMatch(rule[q[j]], ctx) => i <= j
              /\ RuleAnswer(rule[k], ctx) # Error
              => LocalVariant(p, ctx) = RuleAnswer(rule[k], ctx)
         /\ (\A k \in Foremost(ctx) : RuleAnswer(rule[k], ctx) # Error) /\ Matching(ctx) # {}
              => \E k \in Foremost(ctx) : LocalVariant(p, ctx) = RuleAnswer(rule[k], ctx)
<1>. DEFINE first == FirstPlaces(p, ctx)
            n == Cardinality(DOMAIN rule)
<1>1. /\ q \in [1..n -> DOMAIN rule] /\ n \in Nat /\ DOMAIN q = 1..n
      /\ \A k \in DOMAIN rule : \E i \in 1..n : q[i] = k
  <2>1. IsFiniteSet(DOMAIN rule) /\ n \in Nat BY Finite, FS_CardinalityType
  <2>2. q \in [1..n -> DOMAIN rule] /\ \A i, j \in 1..n : i < j => q[i] # q[j] BY RuleOrder
  <2>. QED BY <2>1, <2>2, ListsAll
<1>2. LocalVariant(p, ctx)
        = IF first = {} THEN LocalSplit(p, ctx) ELSE LocalRollout(p, p.rules[CHOOSE i \in first : TRUE], ctx)
  BY DEF LocalVariant, FirstPlaces
<1>3. DOMAIN p.rules = DOMAIN q /\ \A x \in DOMAIN q : p.rules[x] = rule[q[x]] BY DEF Sent
<1>4. CASE Matching(ctx) = {}
  <2>1. \A k \in DOMAIN rule : ~LocalMatch(rule[k], ctx) BY <1>4 DEF Matching
  <2>2. first = {} BY <1>1, <1>3, <2>1 DEF FirstPlaces, LeastIndex
  <2>3. LocalVariant(p, ctx) = LocalSplit(p, ctx) BY <1>2, <2>2
  <2>4. Foremost(ctx) = {} BY <1>4 DEF Foremost
  <2>. QED BY <1>4, <2>3, <2>4, SameSplit
<1>5. CASE Matching(ctx) # {}
  <2>1. PICK i \in DOMAIN q :
           /\ q[i] \in Foremost(ctx) /\ p.rules[i] = rule[q[i]]
           /\ first = {i}
           /\ \A j \in DOMAIN q : LocalMatch(rule[q[j]], ctx) => i <= j
    BY <1>5, FirstSent
  <2>2. first # {} /\ (CHOOSE x \in first : TRUE) = i BY <2>1
  <2>. HIDE DEF first
  <2>3. LocalVariant(p, ctx) = LocalRollout(p, rule[q[i]], ctx) BY <1>2, <2>1, <2>2
  <2>4. RuleAnswer(rule[q[i]], ctx) # Error => LocalVariant(p, ctx) = RuleAnswer(rule[q[i]], ctx)
    BY <2>3, SameRollout
  <2>5. ASSUME NEW k \in Foremost(ctx), \A x, j \in DOMAIN q : q[x] = k /\ LocalMatch(rule[q[j]], ctx) => x <= j
        PROVE  k = q[i]
    <3>1. k \in DOMAIN rule /\ LocalMatch(rule[k], ctx) /\ LocalMatch(rule[q[i]], ctx)
      BY <2>1 DEF Foremost, Matching
    <3>2. PICK x \in DOMAIN q : q[x] = k BY <1>1, <3>1
    <3>3. x <= i /\ i <= x BY <2>1, <2>5, <3>1, <3>2
    <3>. QED BY <1>1, <3>2, <3>3
  <2>. QED BY <1>5, <2>1, <2>4, <2>5
<1>. QED BY <1>4, <1>5

(* Whatever is stored, SDKs and the server agree on it. *)
LEMMA Agrees == ASSUME TypeOK PROVE SdkAgrees
<1>. SUFFICES ASSUME DOMAIN variant = {} \/ Weight(variant, DOMAIN variant) = Whole,
                     NEW ctx \in Context, Error \notin Answers(ctx)
              PROVE  {LocalAnswer(p, ctx) : p \in Payloads} = Answers(ctx)
  BY DEF SdkAgrees
<1>. DEFINE Row(q) == [is_enabled |-> flag.is_enabled, flag_type |-> flag.flag_type, variants |-> VariantsData,
                       rules |-> Sent(q)]
<1>1. CASE forced # NotForced
  <2>. DEFINE p == [is_enabled |-> forced, flag_type |-> flag.flag_type, variants |-> <<>>, rules |-> <<>>]
  <2>1. Payloads = {p} BY <1>1 DEF Payloads
  <2>2. LocalAnswer(p, ctx) = Boolean(forced)
    <3>1. forced \in BOOLEAN /\ flag.flag_type \in FlagType BY <1>1 DEF TypeOK
    <3>. QED BY <3>1 DEF LocalAnswer, FlagType
  <2>3. Answers(ctx) = {Boolean(forced)} BY <1>1 DEF Answers
  <2>. HIDE DEF p
  <2>. QED BY <2>1, <2>2, <2>3
<1>2. CASE forced = NotForced
  <2>1. Payloads = {Row(q) : q \in RuleOrders} BY <1>2 DEF Payloads, Sent
  <2>2. \A q \in RuleOrders : /\ Row(q).is_enabled = flag.is_enabled /\ Row(q).flag_type = flag.flag_type
                              /\ Row(q).variants = VariantsData /\ Row(q).rules = Sent(q)
    OBVIOUS
  <2>3. RuleOrders # {}
    <3>. DEFINE D == DOMAIN rule
                rank == [j \in D |-> rule[j].priority]
    <3>1. IsFiniteSet(D) /\ \A j \in D : rank[j] = rule[j].priority /\ rank[j] \in Nat
      BY Finite, Comparable
    <3>. HIDE DEF rank
    <3>2. PICK q : Lists(q, D, rank) BY <3>1, Listable
    <3>3. /\ q \in [1..Cardinality(D) -> D]
          /\ \A i, j \in 1..Cardinality(D) : i < j => q[i] # q[j] /\ rank[q[i]] <= rank[q[j]]
      BY <3>2 DEF Lists
    <3>4. \A i, j \in 1..Cardinality(D) : i < j => q[i] # q[j] /\ ~(rule[q[j]].priority < rule[q[i]].priority)
      <4>1. \A i \in 1..Cardinality(D) : q[i] \in D BY <3>3
      <4>. HIDE DEF D
      <4>. QED BY <3>1, <3>3, <4>1
    <3>5. q \in RuleOrders BY <3>3, <3>4, RuleOrder
    <3>. QED BY <3>5
  <2>. HIDE DEF Row
  <2>4. ASSUME NEW answer, \A q \in RuleOrders : LocalAnswer(Row(q), ctx) = answer, Answers(ctx) = {answer}
        PROVE  {LocalAnswer(p, ctx) : p \in Payloads} = Answers(ctx)
    BY <2>1, <2>3, <2>4
  <2>5. CASE ~flag.is_enabled
    <3>1. Answers(ctx) = {Boolean(FALSE)} BY <1>2, <2>5 DEF Answers
    <3>2. \A q \in RuleOrders : LocalAnswer(Row(q), ctx) = Boolean(FALSE) BY <2>2, <2>5 DEF LocalAnswer
    <3>. QED BY <2>4, <3>1, <3>2
  <2>6. CASE flag.is_enabled /\ flag.flag_type = "BOOLEAN"
    <3>1. Answers(ctx) = {Boolean(DOMAIN rule = {} \/ Matching(ctx) # {})}
      <4>1. CASE DOMAIN rule = {} BY <1>2, <2>6, <4>1 DEF Answers
      <4>2. CASE DOMAIN rule # {}
        <5>1. Answers(ctx) = Outcomes(ctx, {Boolean(TRUE) : k \in FirstMatching(ctx)}, Boolean(FALSE))
          BY <1>2, <2>6, <4>2 DEF Answers
        <5>2. \A k \in DOMAIN rule : Reached(k, ctx) => ~MayRaise(rule[k], ctx) BY <5>1 DEF Outcomes
        <5>3. /\ FirstMatching(ctx) = Foremost(ctx)
              /\ (\A k \in DOMAIN rule : MayFail(rule[k], ctx)) <=> Matching(ctx) = {}
          BY <5>2, Definite
        <5>4. Answers(ctx) = {Boolean(TRUE) : k \in FirstMatching(ctx)}
                \cup IF Matching(ctx) = {} THEN {Boolean(FALSE)} ELSE {}
          BY <5>1, <5>2, <5>3 DEF Outcomes
        <5>5. Matching(ctx) = {} <=> Foremost(ctx) = {} BY Foremosts
        <5>. QED BY <4>2, <5>3, <5>4, <5>5
      <4>. QED BY <4>1, <4>2
    <3>2. ASSUME NEW q \in RuleOrders
          PROVE  LocalAnswer(Row(q), ctx) = Boolean(DOMAIN rule = {} \/ Matching(ctx) # {})
      <4>1. (Sent(q) = <<>>) <=> (DOMAIN rule = {}) BY SentRules
      <4>2. (\E i \in DOMAIN Sent(q) : LocalMatch(Sent(q)[i], ctx)) <=> (Matching(ctx) # {}) BY SentRules
      <4>3. LocalAnswer(Row(q), ctx)
              = Boolean(Sent(q) = <<>> \/ \E i \in DOMAIN Sent(q) : LocalMatch(Sent(q)[i], ctx))
        BY <2>2, <2>6 DEF LocalAnswer
      <4>. QED BY <4>1, <4>2, <4>3
    <3>. QED BY <2>4, <3>1, <3>2
  <2>7. CASE flag.is_enabled /\ flag.flag_type = "MULTIVARIATE"
    <3>0. /\ Matching(ctx) = {} => Answers(ctx) = {Split(ctx)}
          /\ Matching(ctx) # {} => Answers(ctx) = {RuleAnswer(rule[k], ctx) : k \in Foremost(ctx)}
      <4>1. Answers(ctx) = Outcomes(ctx, {RuleAnswer(rule[k], ctx) : k \in FirstMatching(ctx)}, Split(ctx))
        BY <1>2, <2>7 DEF Answers
      <4>2. \A k \in DOMAIN rule : Reached(k, ctx) => ~MayRaise(rule[k], ctx) BY <4>1 DEF Outcomes
      <4>3. /\ FirstMatching(ctx) = Foremost(ctx)
            /\ (\A k \in DOMAIN rule : MayFail(rule[k], ctx)) <=> Matching(ctx) = {}
        BY <4>2, Definite
      <4>4. Answers(ctx) = {RuleAnswer(rule[k], ctx) : k \in Foremost(ctx)}
              \cup IF Matching(ctx) = {} THEN {Split(ctx)} ELSE {}
        BY <4>1, <4>2, <4>3 DEF Outcomes
      <4>5. Matching(ctx) = {} => Foremost(ctx) = {} BY DEF Foremost
      <4>. QED BY <4>4, <4>5
    <3>1. ASSUME NEW q \in RuleOrders, VariantsData # <<>> \/ Sent(q) # <<>>
          PROVE  LocalAnswer(Row(q), ctx) = LocalVariant(Row(q), ctx)
      BY <2>2, <2>7, <3>1 DEF LocalAnswer
    <3>2. CASE Matching(ctx) = {}
      <4>1. Answers(ctx) = {Split(ctx)} BY <3>0, <3>2
      <4>2. Split(ctx) # Error BY <4>1
      <4>3. VariantsData # <<>> BY <4>2, DataSent
      <4>4. \A q \in RuleOrders : LocalAnswer(Row(q), ctx) = Split(ctx)
        BY <2>2, <3>1, <3>2, <4>2, <4>3, SameVariant
      <4>. QED BY <2>4, <4>1, <4>4
    <3>3. CASE Matching(ctx) # {}
      <4>1. Answers(ctx) = {RuleAnswer(rule[k], ctx) : k \in Foremost(ctx)}
        BY <3>0, <3>3
      <4>2. \A k \in Foremost(ctx) : RuleAnswer(rule[k], ctx) # Error BY <4>1
      <4>3. \A q \in RuleOrders : LocalAnswer(Row(q), ctx) = LocalVariant(Row(q), ctx)
        <5>1. DOMAIN rule # {} BY <3>3 DEF Matching
        <5>. QED BY <3>1, <5>1, SentRules
      <4>4. \A q \in RuleOrders :
              \E k \in Foremost(ctx) : LocalAnswer(Row(q), ctx) = RuleAnswer(rule[k], ctx)
        BY <2>2, <3>3, <4>2, <4>3, SameVariant
      <4>5. \A k \in Foremost(ctx) :
              \E q \in RuleOrders : LocalAnswer(Row(q), ctx) = RuleAnswer(rule[k], ctx)
        <5>. SUFFICES ASSUME NEW k \in Foremost(ctx)
                      PROVE  \E q \in RuleOrders : LocalAnswer(Row(q), ctx) = RuleAnswer(rule[k], ctx)
          OBVIOUS
        <5>1. PICK q \in RuleOrders : \A i, j \in DOMAIN q : q[i] = k /\ LocalMatch(rule[q[j]], ctx) => i <= j
          BY ComesFirst
        <5>2. LocalVariant(Row(q), ctx) = RuleAnswer(rule[k], ctx)
          BY <2>2, <4>2, <5>1, SameVariant
        <5>. QED BY <4>3, <5>2
      <4>. DEFINE Local(q) == LocalAnswer(Row(q), ctx)
                  Served(k) == RuleAnswer(rule[k], ctx)
      <4>6. {LocalAnswer(p, ctx) : p \in Payloads} = {Local(q) : q \in RuleOrders}
        <5>1. \A p \in Payloads : \E q \in RuleOrders : p = Row(q) BY <2>1
        <5>2. \A q \in RuleOrders : Row(q) \in Payloads BY <2>1
        <5>. QED BY <5>1, <5>2
      <4>7. /\ \A q \in RuleOrders : \E k \in Foremost(ctx) : Local(q) = Served(k)
            /\ \A k \in Foremost(ctx) : \E q \in RuleOrders : Local(q) = Served(k)
        BY <4>4, <4>5
      <4>8. Answers(ctx) = {Served(k) : k \in Foremost(ctx)} BY <4>1
      <4>. HIDE DEF Local, Served
      <4>. QED BY <4>6, <4>7, <4>8
    <3>. QED BY <3>2, <3>3
  <2>. QED BY <2>5, <2>6, <2>7 DEF TypeOK, FlagType
<1>. QED BY <1>1, <1>2

(* What SDKs are sent answers what the server answers: on every             *)
(* configuration that edits lead to, for every context, with any number of  *)
(* rules, of variants and of orders that equal priorities allow, when the   *)
(* weights sum to 100 and the evaluation does not raise.                    *)
THEOREM SdkAgreement == Spec => []SdkAgrees
<1>1. TypeOK => SdkAgrees BY Agrees
<1>. QED BY <1>1, TypeCorrect, PTL
=============================================================================

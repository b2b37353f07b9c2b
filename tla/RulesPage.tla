------------------------------ MODULE RulesPage ------------------------------
(***************************************************************************)
(* The rules page of one flag (dashboard/flags/[id]/rules/page.tsx): the   *)
(* dialogs that create and edit rules and their conditions, and the editor *)
(* of the flag's variants.                                                 *)
(***************************************************************************)
EXTENDS Lists, Calls, VariantDrafts

CONSTANTS
  None,
  Flag,              \* the flag of the route
  RuleIds, ConditionIds, VariantIds,
  Starts,            \* bounds: what a user does, of which flag, with what stored of it
  RuleForms,         \* what the user types into the rule dialog: [priority, variant, share]
  ConditionForms,    \* and into the condition dialog: [attribute, operator, text]
  Weights, Names     \* and into the variant editor

VARIABLES page, server, flight

vars == <<page, server, flight>>

-----------------------------------------------------------------------------
(* What is stored of a condition's value, whoever stored it: the API checks  *)
(* percentage splits alone.  The condition form shows a value as a text, a   *)
(* sequence of words between commas.  Numbers are written as their numerals. *)

Numerals == {"0", "7"}
NaN == "null"   \* what JSON makes of it, and what the API refuses

(* A list is the text that joins it; plain when its items are its words, no  *)
(* number among them and none with a comma or a space of its own.            *)
Value ==
  [kind : {"list"}, words : Seq(STRING), plain : BOOLEAN] \cup [kind : {"split", "number"}, number : Numerals]
    \cup [kind : {"text", "wrapped"}, text : Seq(STRING)]

(* Number(text), and Number(text) || 0. *)
NumberOf(text) ==
  IF text = <<"">> THEN "0" ELSE IF Len(text) = 1 /\ text[1] \in Numerals THEN text[1] ELSE NaN
NumberOrZero(text) == IF NumberOf(text) = NaN THEN "0" ELSE NumberOf(text)

(* mutant: a list's first item stands for it *)
ShownFirst(value) ==
  CASE value.kind = "list" -> <<IF value.words = <<>> THEN "" ELSE value.words[1]>>
    [] value.kind \in {"split", "number"} -> <<value.number>>
    [] value.kind = "text" -> value.text
    [] value.kind = "wrapped" -> <<"[object Object]">>

(* handleEditCondition: a list is joined, a split unwrapped, the rest       *)
(* printed, what {"type", "value"} wraps too.                               *)
Shown(value) ==
  CASE value.kind = "list" -> IF value.words = <<>> THEN <<"">> ELSE value.words
    [] value.kind \in {"split", "number"} -> <<value.number>>
    [] value.kind = "text" -> value.text
    [] value.kind = "wrapped" -> <<"[object Object]">>

(* handleCreateCondition: what an operator makes of the text. *)
Parsed(operator, text) ==
  CASE operator = "IN_LIST" -> [kind |-> "list", words |-> text, plain |-> TRUE]
    [] operator = "PERCENTAGE_SPLIT" -> [kind |-> "split", number |-> NumberOrZero(text)]
    [] operator \in {"GREATER_THAN", "LESS_THAN"} -> [kind |-> "number", number |-> NumberOf(text)]
    [] OTHER -> [kind |-> "text", text |-> text]

NoNumber == [kind |-> "number", number |-> NaN]

(* A split is decided by the user alone; its attribute is a convention.      *)
SentAttribute(form) ==
  IF form.operator = "PERCENTAGE_SPLIT" /\ form.attribute = "" THEN "user_id" ELSE form.attribute

ConditionOf(form) ==
  [attribute |-> SentAttribute(form), operator |-> form.operator, value |-> Parsed(form.operator, form.text)]

ConditionForm(condition) ==
  [attribute |-> condition.attribute, operator |-> condition.operator, text |-> Shown(condition.value)]

(* The rows, as the client declares them. *)
StrategyRule ==
  [id : RuleIds, priority : Nat, variant : VariantIds \cup {None}, share : 0..Whole \cup {None}]
Condition == [id : ConditionIds, rule : RuleIds, attribute : STRING, operator : STRING, value : Value]
VariantRow(ids) == [id : ids, name : STRING, share : Int, is_control : BOOLEAN]

NoCondition == [attribute |-> "", operator |-> "EQUALS", text |-> <<"">>]

(* handleEditRule: a rule without a rollout shows the whole. *)
RuleForm(rule) ==
  [priority |-> rule.priority, variant |-> rule.variant, share |-> IF rule.share = None THEN Whole ELSE rule.share]

NoRule == [priority |-> 1, variant |-> None, share |-> Whole]

(* handleSaveRule: both fields of a rollout are sent, or neither. *)
RuleOf(form, multivariate) ==
  IF multivariate /\ form.variant # None THEN form ELSE [form EXCEPT !.variant = None, !.share = None]

-----------------------------------------------------------------------------
(* What loadData answers, and what the page offers of it. *)

Stored == [multivariate |-> server.multivariate, variants |-> server.variants,
           rules |-> server.rules, conditions |-> server.conditions]

data == page.lists["data"].rows
LoadData == Refetch(page.lists, page.live, Flag, Flag, [data |-> Stored], {"data"})

ConditionsOf(rule) == {c \in data.conditions : c.rule = rule.id}

RuleFormRow == [priority : Nat, variant : VariantIds \cup {None}, share : 0..Whole]
ConditionFormRow == [attribute : STRING, operator : STRING, text : Seq(STRING)]

Data == [multivariate : BOOLEAN, variants : Seq(VariantRow(VariantIds)), rules : SUBSET StrategyRule,
         conditions : SUBSET Condition]

(* A condition is saved in place or added to a rule. *)
Call ==
  [op : {"saveRule"}, state : CallStates, rule : StrategyRule \cup {None},
   with : [priority : Nat, variant : VariantIds \cup {None}, share : 0..Whole \cup {None}]]
    \cup [op : {"deleteRule"}, state : CallStates, rule : StrategyRule]
    \cup [op : {"saveCondition"}, state : CallStates, condition : Condition, rule : StrategyRule \cup {None},
          with : [attribute : STRING, operator : STRING, value : Value \cup {NoNumber}]]
    \cup [op : {"saveCondition"}, state : CallStates, condition : {None}, rule : StrategyRule,
          with : [attribute : STRING, operator : STRING, value : Value \cup {NoNumber}]]
    \cup [op : {"deleteCondition"}, state : CallStates, condition : Condition]
    \cup [op : {"saveVariants"}, state : CallStates, set : Seq(VariantRow(VariantIds \cup {None}))]

Page ==
  [doing : {"rules", "conditions", "variants"}, live : {"data"}, lists : [data : ListOf({Flag}, Data)],
   dialog : {"none", "rule", "condition"}, opened : StrategyRule \cup Condition \cup {None},
   editingRule : StrategyRule \cup {None}, ruleForm : RuleFormRow,
   selectedRule : StrategyRule \cup {None}, editingCondition : Condition \cup {None}, conditionForm : ConditionFormRow,
   isEditingVariants : BOOLEAN, variantDrafts : Seq(VariantRow(VariantIds \cup {None})),
   originalVariantIds : SUBSET VariantIds, variantsOpened : Seq(VariantRow(VariantIds))]

Server == [multivariate : BOOLEAN, variants : Seq(VariantRow(VariantIds)), rules : SUBSET StrategyRule,
           conditions : SUBSET Condition, writes : Nat]

TypeOK == page \in Page /\ server \in Server /\ flight \subseteq Call

(* A dialog is modal. *)
RulesTable == IF page.dialog # "none" THEN {} ELSE data.rules
ConditionsTable == IF page.dialog # "none" THEN {} ELSE UNION {ConditionsOf(rule) : rule \in data.rules}
VariantsCard == data.multivariate /\ page.dialog = "none"

(* isSaving, which the rule and the condition dialog share. *)
isSaving == Busy(flight, {"saveRule", "saveCondition"})

-----------------------------------------------------------------------------
Send(call) ==
  /\ CanSend(flight, server.writes, page.doing)
  /\ flight' = flight \cup {call}
  /\ UNCHANGED server

Dialog(fields) == page' = fields /\ UNCHANGED <<server, flight>>

(* The button only opens the dialog.  opened is history: the row it was     *)
(* opened on.                                                               *)
NewRule ==
  /\ page.dialog = "none"
  /\ Dialog([page EXCEPT !.dialog = "rule", !.opened = None])

handleEditRule(rule) ==
  /\ rule \in RulesTable
  /\ Dialog([page EXCEPT !.dialog = "rule", !.editingRule = rule, !.ruleForm = RuleForm(rule), !.opened = rule])

(* The rule dialog's inputs; a rollout is offered of the variants loaded. *)
ChangeRule(form) ==
  /\ page.dialog = "rule"
  /\ form.variant # None => data.multivariate /\ form.variant \in {data.variants[i].id : i \in DOMAIN data.variants}
  /\ Dialog([page EXCEPT !.ruleForm = form])

resetRuleForm(p) == [p EXCEPT !.editingRule = None, !.ruleForm = NoRule]

CloseRule ==
  /\ page.dialog = "rule"
  /\ Dialog([resetRuleForm(page) EXCEPT !.dialog = "none", !.opened = None])

handleSaveRule ==
  /\ page.dialog = "rule" /\ ~isSaving
  /\ Send([op |-> "saveRule", state |-> "sent", rule |-> page.editingRule,
           with |-> RuleOf(page.ruleForm, data.multivariate)])
  /\ UNCHANGED page

handleDeleteRule(rule) ==
  /\ rule \in RulesTable
  /\ Send([op |-> "deleteRule", state |-> "sent", rule |-> rule])
  /\ UNCHANGED page

handleAddCondition(rule) ==
  /\ rule \in RulesTable
  /\ Dialog([page EXCEPT !.dialog = "condition", !.selectedRule = rule, !.editingCondition = None,
                         !.conditionForm = NoCondition, !.opened = rule])

handleEditCondition(condition) ==
  /\ condition \in ConditionsTable
  /\ Dialog([page EXCEPT !.dialog = "condition", !.editingCondition = condition,
                         !.conditionForm = ConditionForm(condition), !.opened = condition])

ChangeCondition(form) ==
  /\ page.dialog = "condition"
  /\ Dialog([page EXCEPT !.conditionForm = form])

CloseCondition ==
  /\ page.dialog = "condition"
  /\ Dialog([page EXCEPT !.dialog = "none", !.editingCondition = None, !.selectedRule = None, !.opened = None])

(* With neither a condition nor a rule at hand nothing would be sent. *)
handleCreateCondition ==
  /\ page.dialog = "condition" /\ ~isSaving
  /\ page.editingCondition # None \/ page.selectedRule # None
  /\ Send([op |-> "saveCondition", state |-> "sent", condition |-> page.editingCondition,
           rule |-> page.selectedRule, with |-> ConditionOf(page.conditionForm)])
  /\ UNCHANGED page

handleDeleteCondition(condition) ==
  /\ condition \in ConditionsTable
  /\ Send([op |-> "deleteCondition", state |-> "sent", condition |-> condition])
  /\ UNCHANGED page

-----------------------------------------------------------------------------
(* The editor of the flag's variants. *)

(* The rows come as they are stored, recalculated by the first edit.        *)
(* variantsOpened is history.                                               *)
startEditingVariants ==
  /\ VariantsCard /\ ~page.isEditingVariants
  /\ Dialog([page EXCEPT !.isEditingVariants = TRUE, !.variantDrafts = data.variants, !.variantsOpened = data.variants,
                         !.originalVariantIds = {data.variants[i].id : i \in DOMAIN data.variants}])

(* A control row has neither an input for its weight nor a button that      *)
(* removes it.                                                              *)
Edits(drafts) ==
  {AddRow(drafts, None)}
    \cup {RenameRow(drafts, i, name) : i \in DOMAIN drafts, name \in Names}
    \cup {RemoveRow(drafts, i) : i \in DOMAIN drafts \ Controls(drafts)}
    \cup {WeighRow(drafts, i, share) : i \in DOMAIN drafts \ Controls(drafts), share \in Weights}

EditDrafts ==
  /\ VariantsCard /\ page.isEditingVariants
  /\ \E drafts \in Edits(page.variantDrafts) :
       /\ Len(drafts) <= Cardinality(VariantIds)
       /\ Dialog([page EXCEPT !.variantDrafts = drafts])

CancelVariants ==
  /\ page.isEditingVariants
  /\ Dialog([page EXCEPT !.isEditingVariants = FALSE, !.variantDrafts = <<>>, !.originalVariantIds = {},
                         !.variantsOpened = <<>>])

(* Rows the flag had keep their ids. *)
handleSaveVariants ==
  /\ VariantsCard /\ page.isEditingVariants
  /\ NamesGiven(page.variantDrafts) /\ ~Busy(flight, {"saveVariants"})
  /\ Send([op |-> "saveVariants", state |-> "sent",
           set |-> [i \in DOMAIN page.variantDrafts |->
                      IF page.variantDrafts[i].id \in page.originalVariantIds THEN page.variantDrafts[i]
                      ELSE [page.variantDrafts[i] EXCEPT !.id = None]]])
  /\ UNCHANGED page

-----------------------------------------------------------------------------
(* What the server makes of a call. *)

Done(c, stored) == server' = [stored EXCEPT !.writes = @ + 1] /\ flight' = Become(flight, c, "done")
Refused(c) == flight' = Become(flight, c, "refused") /\ UNCHANGED server

RuleAt(id) == {rule \in server.rules : rule.id = id}
ConditionAt(id) == {condition \in server.conditions : condition.id = id}
Variants == {server.variants[i].id : i \in DOMAIN server.variants}

RuleRow(id, with) == [id |-> id, priority |-> with.priority, variant |-> with.variant, share |-> with.share]

(* A rollout has to be one of the flag's variants. *)
HandleSaveRule(c) ==
  /\ c.op = "saveRule" /\ c.state = "sent"
  /\ IF c.with.variant \notin Variants \cup {None} \/ (c.rule # None /\ RuleAt(c.rule.id) = {}) THEN Refused(c)
     ELSE \E id \in IF c.rule # None THEN {c.rule.id} ELSE {i \in RuleIds : RuleAt(i) = {}} :
            Done(c, [server EXCEPT !.rules = (@ \ RuleAt(id)) \cup {RuleRow(id, c.with)}])
  /\ UNCHANGED page

HandleDeleteRule(c) ==
  /\ c.op = "deleteRule" /\ c.state = "sent"
  /\ IF RuleAt(c.rule.id) = {} THEN Refused(c)
     ELSE Done(c, [server EXCEPT !.rules = @ \ RuleAt(c.rule.id),
                                 !.conditions = {condition \in @ : condition.rule # c.rule.id}])
  /\ UNCHANGED page

ConditionRow(id, rule, with) ==
  [id |-> id, rule |-> rule, attribute |-> with.attribute, operator |-> with.operator, value |-> with.value]

(* An attribute may not be blank, nor a value null. *)
HandleSaveCondition(c) ==
  LET old == IF c.condition # None THEN ConditionAt(c.condition.id) ELSE {} IN
  /\ c.op = "saveCondition" /\ c.state = "sent"
  /\ IF \/ c.with.attribute = "" \/ c.with.value = NoNumber
        \/ IF c.condition # None THEN old = {} ELSE RuleAt(c.rule.id) = {}
     THEN Refused(c)
     ELSE \E id \in IF c.condition # None THEN {c.condition.id} ELSE {i \in ConditionIds : ConditionAt(i) = {}} :
            LET rule == IF c.condition # None THEN c.condition.rule ELSE c.rule.id IN
            Done(c, [server EXCEPT !.conditions = (@ \ old) \cup {ConditionRow(id, rule, c.with)}])
  /\ UNCHANGED page

HandleDeleteCondition(c) ==
  /\ c.op = "deleteCondition" /\ c.state = "sent"
  /\ IF ConditionAt(c.condition.id) = {} THEN Refused(c)
     ELSE Done(c, [server EXCEPT !.conditions = @ \ ConditionAt(c.condition.id)])
  /\ UNCHANGED page

(* The set is replaced whole, unless a rule rolls out a variant that it     *)
(* leaves out.                                                              *)
HandleSaveVariants(c) ==
  LET kept == {c.set[i].id : i \in DOMAIN c.set} \ {None} IN
  /\ c.op = "saveVariants" /\ c.state = "sent"
  /\ IF \/ ~ValidSet(c.set) \/ ~(kept \subseteq Variants)
        \/ \E rule \in server.rules : rule.variant \in Variants \ kept
     THEN Refused(c)
     ELSE \E ids \in [DOMAIN c.set -> VariantIds] :
            /\ \A i, j \in DOMAIN ids : ids[i] = ids[j] => i = j
            /\ \A i \in DOMAIN ids : IF c.set[i].id # None THEN ids[i] = c.set[i].id ELSE ids[i] \notin Variants
            /\ Done(c, [server EXCEPT
                 !.variants = [i \in DOMAIN c.set |-> [c.set[i] EXCEPT !.id = ids[i], !.is_control = @ \/ Len(c.set) = 1]]])
  /\ UNCHANGED page

Handle(c) ==
  \/ HandleSaveRule(c) \/ HandleDeleteRule(c)
  \/ HandleSaveCondition(c) \/ HandleDeleteCondition(c)
  \/ HandleSaveVariants(c)

-----------------------------------------------------------------------------
(* What the handlers do when their call is answered. *)

Answered(c, ops) == c.op \in ops /\ c.state = "done" /\ flight' = flight \ {c} /\ Room(page.lists, page.live)

Reloaded(p) == page' = [p EXCEPT !.lists = LoadData] /\ UNCHANGED server

(* mutant: the form is reset and the dialog left open *)
RuleSavedInPlace(c) ==
  /\ Answered(c, {"saveRule"})
  /\ Reloaded(resetRuleForm(page))

(* The rule dialog closes, whichever rule it is open on by now. *)
RuleSaved(c) ==
  /\ Answered(c, {"saveRule"})
  /\ Reloaded([resetRuleForm(page) EXCEPT
       !.dialog = IF @ = "rule" THEN "none" ELSE @, !.opened = IF page.dialog = "rule" THEN None ELSE @])

ConditionSaved(c) ==
  /\ Answered(c, {"saveCondition"})
  /\ Reloaded([page EXCEPT !.editingCondition = None, !.selectedRule = None,
       !.dialog = IF @ = "condition" THEN "none" ELSE @, !.opened = IF page.dialog = "condition" THEN None ELSE @])

Deleted(c) ==
  /\ Answered(c, {"deleteRule", "deleteCondition"})
  /\ Reloaded(page)

VariantsSaved(c) ==
  /\ Answered(c, {"saveVariants"})
  /\ Reloaded([page EXCEPT !.isEditingVariants = FALSE, !.variantDrafts = <<>>, !.originalVariantIds = {},
                           !.variantsOpened = <<>>])

(* Refused or lost: a toast, and the form stays for another try. *)
Failed(c) ==
  /\ flight' = flight \ {c}
  /\ page' = IF c.state = "done" THEN [page EXCEPT !.lists = ExcuseAll(@, {"data"})] ELSE page
  /\ UNCHANGED server

Return(c) == RuleSaved(c) \/ ConditionSaved(c) \/ Deleted(c) \/ VariantsSaved(c) \/ Failed(c)

ReadLoad(i) ==
  LET list == page.lists["data"] IN
  /\ Unanswered(list, i)
  /\ page' = [page EXCEPT !.lists["data"] = Read(@, i, Stored)]
  /\ UNCHANGED <<server, flight>>

LandLoad(i) ==
  /\ ~Unanswered(page.lists["data"], i)
  /\ page' = [page EXCEPT !.lists["data"] = Land(@, i, Flag)]
  /\ UNCHANGED <<server, flight>>

(* A load that fails is logged, and what was shown stays. *)
FailLoad(i) ==
  /\ page' = [page EXCEPT !.lists["data"] = FailTo(@, i, @.rows)]
  /\ UNCHANGED <<server, flight>>

-----------------------------------------------------------------------------
(* The page has loaded what is stored. *)
Init ==
  \E start \in Starts :
    /\ server = [multivariate |-> start.multivariate, variants |-> start.variants,
                 rules |-> start.rules, conditions |-> start.conditions, writes |-> 0]
    /\ flight = {}
    /\ page = [doing |-> start.doing, live |-> "data", lists |-> [data |-> List(Stored)],
               dialog |-> "none", opened |-> None,
               editingRule |-> None, ruleForm |-> NoRule,
               selectedRule |-> None, editingCondition |-> None, conditionForm |-> NoCondition,
               isEditingVariants |-> FALSE, variantDrafts |-> <<>>, originalVariantIds |-> {}, variantsOpened |-> <<>>]

RuleDialog ==
  \/ NewRule \/ CloseRule \/ handleSaveRule
  \/ \E rule \in data.rules : handleEditRule(rule) \/ handleDeleteRule(rule)
  \/ \E form \in RuleForms : ChangeRule(form)

ConditionDialog ==
  \/ CloseCondition \/ handleCreateCondition
  \/ \E rule \in data.rules : handleAddCondition(rule)
  \/ \E condition \in data.conditions : handleEditCondition(condition) \/ handleDeleteCondition(condition)
  \/ \E form \in ConditionForms : ChangeCondition(form)

VariantEditor == startEditingVariants \/ EditDrafts \/ CancelVariants \/ handleSaveVariants

Next ==
  \/ page.doing = "rules" /\ RuleDialog
  \/ page.doing = "conditions" /\ ConditionDialog
  \/ page.doing = "variants" /\ VariantEditor
  \/ \E c \in flight : Handle(c) \/ Return(c)
  \/ \E i \in DOMAIN LoadsOf(page.lists, page.live) : ReadLoad(i) \/ LandLoad(i) \/ FailLoad(i)

Spec == Init /\ [][Next]_vars

-----------------------------------------------------------------------------
(* Properties *)

(* At rest the page shows what is stored, unless the answer that landed     *)
(* last was overtaken, its load failed or the answer of a write was lost.   *)
Settles == flight = {} => Settled(page.lists["data"], Stored)

Sent == {c \in flight' \ flight : c.state = "sent"}

(* A dialog that was opened on a row saves that row, and one that was       *)
(* opened for a new one creates it, however the answers of earlier saves    *)
(* come in between.                                                         *)
SavesOpened ==
  \A c \in Sent :
    /\ c.op = "saveRule" => c.rule = page.opened
    /\ c.op = "saveCondition" => page.opened = IF c.condition # None THEN c.condition ELSE c.rule

EditsReach == [][SavesOpened]_vars

(* A value the condition dialog may have written itself. *)
Formed(operator, value) ==
  CASE operator = "IN_LIST" -> value.kind = "list" /\ value.plain /\ value.words # <<>>
    [] operator = "PERCENTAGE_SPLIT" -> value.kind = "split"
    [] operator \in {"GREATER_THAN", "LESS_THAN"} -> value.kind = "number"
    [] OTHER -> value.kind = "text"

(* Opening a row and saving its form as it was opened sends what the row    *)
(* held: a rule, unless it rolls out a variant of a flag that is boolean by *)
(* now, and a condition whose value is one the dialog writes.  Of what the  *)
(* API stored otherwise, a wrapped value is sent as "[object Object]" or    *)
(* nothing, an empty list as a list of one empty word, and numbers and      *)
(* lists under an operator of texts as text.                                *)
KeepsUntouched ==
  \A c \in Sent :
    /\ c.op = "saveRule" /\ page.opened # None /\ page.ruleForm = RuleForm(page.opened)
         /\ (page.opened.variant # None => data.multivariate)
         => RuleRow(page.opened.id, c.with) = page.opened
    /\ c.op = "saveCondition" /\ page.editingCondition # None /\ page.conditionForm = ConditionForm(page.opened)
         /\ Formed(page.opened.operator, page.opened.value)
         => ConditionRow(page.opened.id, page.opened.rule, c.with) = page.opened

UntouchedKept == [][KeepsUntouched]_vars

(* One control, and something left for it by the other rows, none of which  *)
(* adds to that.                                                            *)
Fair(rows) ==
  \E control \in DOMAIN rows :
    /\ Controls(rows) = {control}
    /\ \A i \in DOMAIN rows \ {control} : rows[i].share >= 0
    /\ SharesOf(rows, DOMAIN rows \ {control}) <= Whole

(* All of the weight is shared. *)
Shared(rows) ==
  /\ Fair(rows) /\ SharesOf(rows, DOMAIN rows) = Whole
  /\ \A i \in DOMAIN rows : rows[i].share \in 0..Whole

(* An editor that was opened on a fair set, which need not be whole, saves  *)
(* either that set as it was or one that shares all of the weight among its *)
(* rows, whatever was added, removed, renamed and typed in between.         *)
SavesWhole ==
  \A c \in Sent :
    c.op = "saveVariants" /\ Fair(page.variantsOpened) => c.set = page.variantsOpened \/ Shared(c.set)

SharesAddUp == [][SavesWhole]_vars
=============================================================================

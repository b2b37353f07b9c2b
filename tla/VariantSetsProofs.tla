-------------------------- MODULE VariantSetsProofs --------------------------
(* What VariantSets guarantees for every set of flags, variants, rules and  *)
(* workers.                                                                 *)
EXTENDS VariantSets, SumTheorems, TLAPS

(* The invariant holds before anything was sent. *)
LEMMA InitInv == Init => VariantSetsInv
<1>. SUFFICES ASSUME Init PROVE VariantSetsInv OBVIOUS
<1>. USE VariantSetsAssumption DEF Init
<1>1. DOMAIN variant = {} OBVIOUS
<1>2. NoRow \in Row BY DEF NoRow, Row
<1>3. Idle \in Request BY <1>2 DEF Idle, Request
<1>4. TypeOK BY <1>1, <1>3 DEF TypeOK, RuleRow
<1>5. RolloutsKept BY DEF RolloutsKept
<1>6. \A r \in Requests : LocalsSet(request[r]) /\ ReadsStand(request[r])
  BY DEF LocalsSet, ReadsStand, Idle
<1>7. OneControl BY <1>1 DEF OneControl
<1>. QED BY <1>4, <1>5, <1>6, <1>7 DEF VariantSetsInv

(* Nothing is pending of an idle worker. *)
LEMMA IdleInv == Idle \in Request /\ LocalsSet(Idle) /\ ReadsStand(Idle)
<1>1. NoRow \in Row BY VariantSetsAssumption DEF NoRow, Row
<1>. QED BY <1>1 DEF Idle, Request, LocalsSet, ReadsStand

(* A request that only read keeps the invariant if what it read bears out   *)
(* its locals.                                                              *)
LEMMA BeginInv ==
  ASSUME VariantSetsInv, NEW r \in Requests, NEW locals \in Request,
         LocalsSet(locals), ReadsStand(locals),
         request' = [request EXCEPT ![r] = locals], UNCHANGED <<variant, born, raced>>,
         rule' \in [Rules -> RuleRow], RolloutsKept'
  PROVE  VariantSetsInv'
<1>. USE DEF VariantSetsInv
<1>1. TypeOK' BY DEF TypeOK
<1>2. \A q \in Requests : request'[q] = IF q = r THEN locals ELSE request[q] BY DEF TypeOK
<1>3. \A q : (LocalsSet(q)' <=> LocalsSet(q)) /\ (ReadsStand(q)' <=> ReadsStand(q))
  BY DEF LocalsSet, ReadsStand, RowsOf, Controls
<1>4. (\A q \in Requests : LocalsSet(request[q]) /\ ReadsStand(request[q]))'
  BY <1>2, <1>3 DEF LocalsSet, ReadsStand, RowsOf, Controls
<1>5. OneControl' BY DEF OneControl
<1>. QED BY <1>1, <1>4, <1>5

(* Being overtaken changes nothing else of a request. *)
LEMMA OvertakenRequest ==
  ASSUME NEW q \in Request, NEW p, p = [q EXCEPT !.overtaken = TRUE]
  PROVE  /\ p \in Request /\ p.overtaken
         /\ p.op = q.op /\ p.set = q.set /\ p.known = q.known
         /\ p.row = q.row /\ p.to = q.to /\ p.rule = q.rule
BY DEF Request

(* A write keeps the invariant if it spares what rules roll out and, unless *)
(* it raced, makes no second control: it leaves the others overtaken.       *)
LEMMA WriteInv ==
  ASSUME VariantSetsInv, NEW r \in Requests, NEW rows, rows \in [DOMAIN rows -> Row],
         DOMAIN rows \subseteq Variants, Write(r, rows),
         \A k \in Rules : rule[k].variant \in DOMAIN rows \cup {NoVariant},
         request[r].overtaken \/
         \A v, w \in DOMAIN rows :
           raced \/ (rows[v].control /\ rows[w].control /\ rows[v].flag = rows[w].flag => v = w)
  PROVE  VariantSetsInv'
<1>. USE DEF VariantSetsInv, Write
<1>1. \A q \in Requests :
        request'[q] = IF q = r THEN Idle
                      ELSE IF request[q] # Idle /\ rows # variant
                           THEN [request[q] EXCEPT !.overtaken = TRUE]
                      ELSE request[q]
  BY DEF Overtake
<1>2. \A q \in Requests \ {r} :
        /\ request'[q] \in Request
        /\ request'[q].op = request[q].op /\ request'[q].set = request[q].set
        /\ request'[q].known = request[q].known /\ request'[q].row = request[q].row
        /\ request'[q].to = request[q].to /\ request'[q].rule = request[q].rule
        /\ request[q] # Idle /\ rows # variant => request'[q].overtaken
  <2>. SUFFICES ASSUME NEW q \in Requests \ {r}
                PROVE  /\ request'[q] \in Request
                       /\ request'[q].op = request[q].op /\ request'[q].set = request[q].set
                       /\ request'[q].known = request[q].known /\ request'[q].row = request[q].row
                       /\ request'[q].to = request[q].to /\ request'[q].rule = request[q].rule
                       /\ request[q] # Idle /\ rows # variant => request'[q].overtaken
    OBVIOUS
  <2>1. request[q] \in Request BY DEF TypeOK
  <2>2. CASE request[q] # Idle /\ rows # variant
    <3>1. request'[q] = [request[q] EXCEPT !.overtaken = TRUE] BY <1>1, <2>2
    <3>. QED BY <2>1, <3>1, OvertakenRequest
  <2>3. CASE ~(request[q] # Idle /\ rows # variant)
    <3>1. request'[q] = request[q] BY <1>1, <2>3
    <3>. QED BY <2>1, <2>3, <3>1
  <2>. QED BY <2>2, <2>3
<1>3. TypeOK'
  <2>1. request' \in [Requests -> Request] BY <1>1, <1>2, IdleInv DEF Overtake
  <2>2. raced' \in BOOLEAN BY DEF TypeOK, Request
  <2>. QED BY <2>1, <2>2 DEF TypeOK
<1>4. RolloutsKept' BY DEF RolloutsKept
<1>5. ASSUME NEW q \in Requests PROVE LocalsSet(request[q])' /\ ReadsStand(request[q])'
  <2>1. CASE q = r
    <3>1. request'[q] = Idle BY <1>1, <2>1
    <3>. QED BY <3>1 DEF LocalsSet, ReadsStand, Idle
  <2>2. CASE q # r
    <3>1. LocalsSet(request[q])' BY <1>2, <2>2 DEF LocalsSet
    <3>2. CASE request[q] = Idle
      <4>1. request'[q].op = "none" BY <1>2, <2>2, <3>2 DEF Idle
      <4>. QED BY <3>1, <4>1 DEF ReadsStand
    <3>3. CASE rows # variant /\ request[q] # Idle
      <4>1. request'[q].overtaken BY <1>2, <2>2, <3>3
      <4>. QED BY <3>1, <4>1 DEF ReadsStand
    <3>4. CASE rows = variant
      <4>1. variant' = variant /\ request'[q] = request[q] BY <1>1, <2>2, <3>4
      <4>2. ReadsStand(request[q])' BY <4>1 DEF ReadsStand, RowsOf, Controls
      <4>. QED BY <3>1, <4>2
    <3>. QED BY <3>2, <3>3, <3>4
  <2>. QED BY <2>1, <2>2
<1>6. OneControl'
  <2>1. CASE raced' BY <2>1 DEF OneControl
  <2>2. CASE ~raced' BY <2>2 DEF OneControl
  <2>. QED BY <2>1, <2>2
<1>. QED BY <1>3, <1>4, <1>5, <1>6

(* The rows a set is placed in: typed, of the set's flag, one control among *)
(* them, and every submitted id among them.                                 *)
WellPlaced(rows, s, from, f, keep) ==
  /\ DOMAIN rows = keep \cup DOMAIN from
  /\ DOMAIN rows \subseteq Variants
  /\ rows \in [DOMAIN rows -> Row]
  /\ Submitted(s) \subseteq DOMAIN from
  /\ DOMAIN from # {}
  /\ \A v \in keep \ DOMAIN from : rows[v] = variant[v]
  /\ \A v \in DOMAIN from : rows[v].flag = f
  /\ \A v, w \in DOMAIN from : rows[v].control /\ rows[w].control => v = w

(* Whatever ids the new rows get, a valid set is well placed. *)
LEMMA PlacedRows ==
  ASSUME TypeOK, NEW s \in Submissions, ValidSet(s), NEW f \in Flags,
         NEW at \in Placements(s), NEW from \in LastItem(s, at),
         NEW keep \in SUBSET DOMAIN variant
  PROVE  WellPlaced(Placed(s, from, f, keep), s, from, f, keep)
<1>. DEFINE rows == Placed(s, from, f, keep)
<1>1. s \in Seq(Item) BY VariantSetsAssumption
<1>2. \A i \in DOMAIN s : s[i] \in Item BY <1>1
<1>3. at \in [DOMAIN s -> Variants] BY DEF Placements
<1>4. /\ DOMAIN from = {at[i] : i \in DOMAIN s}
      /\ \A v \in DOMAIN from : from[v] \in DOMAIN s /\ at[from[v]] = v
  BY DEF LastItem
<1>5. DOMAIN rows = keep \cup DOMAIN from BY DEF Placed
<1>6. \A v \in DOMAIN from : rows[v] = ItemRow(s, from[v], f) BY DEF Placed
<1>7. \A v \in keep \ DOMAIN from : rows[v] = variant[v] BY DEF Placed
<1>8. \A i \in DOMAIN s : ItemRow(s, i, f) \in Row BY <1>2 DEF ItemRow, Row, Item
<1>9. DOMAIN rows \subseteq Variants BY <1>3, <1>4, <1>5 DEF TypeOK
<1>10. rows \in [DOMAIN rows -> Row]
  <2>1. \A v \in DOMAIN rows : rows[v] \in Row
    BY <1>4, <1>5, <1>6, <1>7, <1>8 DEF TypeOK
  <2>2. rows = [v \in DOMAIN rows |-> rows[v]] BY DEF Placed
  <2>. QED BY <2>1, <2>2
<1>11. Submitted(s) \subseteq DOMAIN from
  <2>. SUFFICES ASSUME NEW i \in DOMAIN s, s[i].id # New PROVE s[i].id \in DOMAIN from
    BY DEF Submitted
  <2>1. at[i] = s[i].id BY DEF Placements
  <2>. QED BY <2>1, <1>4
<1>12. \A i \in DOMAIN s :
         /\ ItemRow(s, i, f).flag = f
         /\ ItemRow(s, i, f).control => Len(s) = 1 \/ s[i].control
  BY <1>2 DEF ItemRow, Item
<1>13. \A v \in DOMAIN from : rows[v].flag = f BY <1>4, <1>6, <1>12
<1>14. s # <<>> BY Zenon DEF ValidSet
<1>15. Len(s) > 1 => \E i \in DOMAIN s : \A j \in DOMAIN s : s[j].control <=> j = i
  BY Zenon DEF ValidSet
<1>16. ASSUME NEW v \in DOMAIN from, NEW w \in DOMAIN from, rows[v].control, rows[w].control
       PROVE  v = w
  <2>1. Len(s) = 1 \/ (s[from[v]].control /\ s[from[w]].control) BY <1>4, <1>6, <1>12, <1>16
  <2>2. from[v] = from[w]
    <3>1. CASE Len(s) = 1
      <4>1. DOMAIN s = 1..1 BY <1>1, <3>1
      <4>. QED BY <4>1, <1>4
    <3>2. CASE Len(s) # 1
      <4>1. Len(s) \in Nat /\ (Len(s) = 0 => s = <<>>) BY <1>1
      <4>2. Len(s) # 0 BY Zenon, <4>1, <1>14
      <4>3. \A n \in Nat : n # 0 /\ n # 1 => n > 1 OBVIOUS
      <4>4. Len(s) > 1 BY Zenon, <4>1, <4>2, <4>3, <3>2
      <4>. QED BY <2>1, <3>2, <4>4, <1>4, <1>15
    <3>. QED BY <3>1, <3>2
  <2>. QED BY <2>2, <1>4
<1>17. DOMAIN from # {}
  <2>1. Len(s) \in Nat /\ DOMAIN s = 1..Len(s) /\ (Len(s) = 0 => s = <<>>) BY <1>1
  <2>2. Len(s) # 0 BY Zenon, <2>1, <1>14
  <2>3. 1 \in DOMAIN s BY <2>1, <2>2
  <2>. QED BY <2>3, <1>4
<1>. QED BY <1>5, <1>7, <1>9, <1>10, <1>11, <1>13, <1>16, <1>17 DEF WellPlaced

-----------------------------------------------------------------------------
(* Requests that arrive: what they read is what their locals say.           *)
LEMMA ArriveInv == ASSUME VariantSetsInv, NEW r \in Requests, Arrive(r) PROVE VariantSetsInv'
<1>. USE VariantSetsAssumption DEF VariantSetsInv
<1>r. NoRow \in Row BY DEF NoRow, Row
<1>k. rule \in [Rules -> RuleRow] BY DEF TypeOK
<1>d. DOMAIN variant \subseteq Variants BY DEF TypeOK
<1>1. ASSUME NEW f \in Flags, NEW s \in Submissions, ReadForPost(r, f, s) PROVE VariantSetsInv'
  <2>. DEFINE locals == [Idle EXCEPT !.pc = "checked", !.op = "post", !.set = s, !.to = [NoRow EXCEPT !.flag = f]]
  <2>1. locals \in Request BY <1>r DEF Idle, Request, NoRow, Row, AllOperations
  <2>2. LocalsSet(locals) BY <1>1 DEF LocalsSet, ReadForPost, Idle
  <2>3. ReadsStand(locals) BY <1>1 DEF ReadsStand, ReadForPost, Idle, NoRow
  <2>4. request' = [request EXCEPT ![r] = locals] /\ UNCHANGED <<variant, born, rule, raced>>
    BY <1>1 DEF ReadForPost, Begin
  <2>5. RolloutsKept' BY <2>4 DEF RolloutsKept
  <2>. HIDE DEF locals
  <2>. QED BY <1>k, <2>1, <2>2, <2>3, <2>4, <2>5, BeginInv
<1>2. ASSUME NEW f \in Flags, NEW s \in Submissions, ReadForPut(r, f, s) PROVE VariantSetsInv'
  <2>. DEFINE locals == [Idle EXCEPT !.pc = "checked", !.op = "put", !.set = s, !.known = RowsOf(f),
                                     !.to = [NoRow EXCEPT !.flag = f]]
  <2>1. locals \in Request BY <1>r, <1>d DEF Idle, Request, NoRow, Row, AllOperations, RowsOf
  <2>2. LocalsSet(locals) BY <1>2 DEF LocalsSet, ReadForPut, Idle
  <2>3. ReadsStand(locals) BY <1>2 DEF ReadsStand, ReadForPut, Idle, NoRow
  <2>4. request' = [request EXCEPT ![r] = locals] /\ UNCHANGED <<variant, born, rule, raced>>
    BY <1>2 DEF ReadForPut, Begin
  <2>5. RolloutsKept' BY <2>4 DEF RolloutsKept
  <2>. HIDE DEF locals
  <2>. QED BY <1>k, <2>1, <2>2, <2>3, <2>4, <2>5, BeginInv
<1>3. ASSUME NEW f \in Flags, NEW share \in Shares, NEW control \in BOOLEAN,
             ValidateCreate(r, f, share, control)
      PROVE  VariantSetsInv'
  <2>. DEFINE becomes == control \/ RowsOf(f) = {}
              locals  == [Idle EXCEPT !.pc = "checked", !.op = "create",
                                      !.to = [flag |-> f, share |-> share, control |-> becomes]]
  <2>1. locals \in Request BY <1>r DEF Idle, Request, Row, AllOperations
  <2>2. LocalsSet(locals) BY DEF LocalsSet, Idle
  <2>3. becomes => Controls(RowsOf(f) \ {NoVariant}) = {} BY <1>3 DEF ValidateCreate, RowAccepted
  <2>4. ReadsStand(locals) BY <2>3 DEF ReadsStand, Idle
  <2>5. request' = [request EXCEPT ![r] = locals] /\ UNCHANGED <<variant, born, rule, raced>>
    BY <1>3 DEF ValidateCreate, Begin
  <2>6. RolloutsKept' BY <2>5 DEF RolloutsKept
  <2>. HIDE DEF locals
  <2>. QED BY <1>k, <2>1, <2>2, <2>4, <2>5, <2>6, BeginInv
<1>4. ASSUME NEW f \in Flags, NEW share \in Shares, NEW control \in BOOLEAN, NEW v \in Variants,
             ValidateUpdate(r, v, f, share, control)
      PROVE  VariantSetsInv'
  <2>. DEFINE locals == [Idle EXCEPT !.pc = "checked", !.op = "update", !.row = v,
                                     !.to = [flag |-> f, share |-> share, control |-> control]]
  <2>1. locals \in Request BY <1>r DEF Idle, Request, Row, AllOperations
  <2>2. LocalsSet(locals) BY DEF LocalsSet, Idle
  <2>3. control => Controls(RowsOf(f) \ {v}) = {} BY <1>4 DEF ValidateUpdate, RowAccepted
  <2>4. ReadsStand(locals) BY <2>3 DEF ReadsStand, Idle
  <2>5. request' = [request EXCEPT ![r] = locals] /\ UNCHANGED <<variant, born, rule, raced>>
    BY <1>4 DEF ValidateUpdate, Begin
  <2>6. RolloutsKept' BY <2>5 DEF RolloutsKept
  <2>. HIDE DEF locals
  <2>. QED BY <1>k, <2>1, <2>2, <2>4, <2>5, <2>6, BeginInv
<1>5. ASSUME NEW v \in Variants, LoadForDestroy(r, v) PROVE VariantSetsInv'
  <2>. DEFINE locals == [Idle EXCEPT !.pc = "checked", !.op = "destroy", !.row = v]
  <2>1. locals \in Request BY <1>r DEF Idle, Request, AllOperations
  <2>2. LocalsSet(locals) /\ ReadsStand(locals) BY <1>5 DEF LocalsSet, ReadsStand, Idle, LoadForDestroy
  <2>3. request' = [request EXCEPT ![r] = locals] /\ UNCHANGED <<variant, born, rule, raced>>
    BY <1>5 DEF LoadForDestroy, Begin
  <2>4. RolloutsKept' BY <2>3 DEF RolloutsKept
  <2>. HIDE DEF locals
  <2>. QED BY <1>k, <2>1, <2>2, <2>3, <2>4, BeginInv
<1>6. ASSUME NEW f \in Flags, NEW k \in Rules, NEW v \in Variants \cup {NoVariant}, ValidateRule(r, k, f, v)
      PROVE  VariantSetsInv'
  <2>. DEFINE locals == [Idle EXCEPT !.pc = "checked", !.op = "rule", !.rule = k, !.row = v,
                                     !.to = [NoRow EXCEPT !.flag = f]]
  <2>1. locals \in Request BY <1>r DEF Idle, Request, NoRow, Row, AllOperations
  <2>2. LocalsSet(locals) /\ ReadsStand(locals) BY DEF LocalsSet, ReadsStand, Idle
  <2>3. request' = [request EXCEPT ![r] = locals] /\ UNCHANGED <<variant, born, rule, raced>>
    BY <1>6 DEF ValidateRule, Begin
  <2>4. RolloutsKept' BY <2>3 DEF RolloutsKept
  <2>. HIDE DEF locals
  <2>. QED BY <1>k, <2>1, <2>2, <2>3, <2>4, BeginInv
<1>. QED BY <1>1, <1>2, <1>3, <1>4, <1>5, <1>6 DEF Arrive

(* Placing a set makes no second control if the rows it keeps of its flag   *)
(* are among those it writes.                                               *)
LEMMA PlacedOneControl ==
  ASSUME OneControl, NEW s, NEW from, NEW f, NEW rows,
         NEW keep \in SUBSET DOMAIN variant, keep \cap RowsOf(f) \subseteq DOMAIN from,
         WellPlaced(rows, s, from, f, keep)
  PROVE  \A v, w \in DOMAIN rows :
           raced \/ (rows[v].control /\ rows[w].control /\ rows[v].flag = rows[w].flag => v = w)
<1>1. /\ DOMAIN rows = keep \cup DOMAIN from
      /\ \A v \in keep \ DOMAIN from : rows[v] = variant[v]
      /\ \A v \in DOMAIN from : rows[v].flag = f
      /\ \A v, w \in DOMAIN from : rows[v].control /\ rows[w].control => v = w
  BY DEF WellPlaced
<1>2. \A v \in keep \ DOMAIN from : rows[v].flag # f BY <1>1 DEF RowsOf
<1>. SUFFICES ASSUME NEW v \in DOMAIN rows, NEW w \in DOMAIN rows, ~raced,
                     rows[v].control, rows[w].control, rows[v].flag = rows[w].flag
              PROVE  v = w
  OBVIOUS
<1>3. CASE v \in DOMAIN from /\ w \in DOMAIN from BY <1>1, <1>3
<1>4. CASE v \in keep \ DOMAIN from /\ w \in keep \ DOMAIN from BY <1>1, <1>4 DEF OneControl
<1>. QED BY <1>1, <1>2, <1>3, <1>4

(* The rows once v holds row, and that no two of them are the control. *)
WithRow(v, row) == [w \in DOMAIN variant \cup {v} |-> IF w = v THEN row ELSE variant[w]]
ControlAlone(rows) ==
  \A w, x \in DOMAIN rows :
    raced \/ (rows[w].control /\ rows[x].control /\ rows[w].flag = rows[x].flag => w = x)

(* Writing one row makes no second control if none other of its flag is one. *)
LEMMA OneRowOneControl ==
  ASSUME TypeOK, OneControl, NEW v \in Variants, NEW row \in Row,
         row.control => Controls(RowsOf(row.flag) \ {v}) = {}
  PROVE  ControlAlone(WithRow(v, row))
<1>. DEFINE rows == WithRow(v, row)
<1>. USE DEF WithRow
<1>. SUFFICES ASSUME NEW w \in DOMAIN rows, NEW x \in DOMAIN rows, ~raced,
                     rows[w].control, rows[x].control, rows[w].flag = rows[x].flag
              PROVE  w = x
  BY DEF ControlAlone
<1>1. rows[v] = row /\ \A y \in DOMAIN rows \ {v} : y \in DOMAIN variant /\ rows[y] = variant[y] OBVIOUS
<1>2. CASE w # v /\ x # v BY <1>1, <1>2 DEF OneControl
<1>3. CASE w = v /\ x # v BY <1>1, <1>3 DEF Controls, RowsOf
<1>4. CASE w # v /\ x = v BY <1>1, <1>4 DEF Controls, RowsOf
<1>. QED BY <1>2, <1>3, <1>4

(* Requests that go on: a write that was not overtaken acts on what it read. *)
LEMMA AdvanceInv == ASSUME VariantSetsInv, NEW r \in Requests, Advance(r) PROVE VariantSetsInv'
<1>. USE VariantSetsAssumption DEF VariantSetsInv
<1>r. /\ request[r] \in Request /\ request[r].to \in Row /\ request[r].to.flag \in Flags
      /\ LocalsSet(request[r]) /\ ReadsStand(request[r])
  BY DEF TypeOK, Request, Row
<1>k. rule \in [Rules -> RuleRow] BY DEF TypeOK
<1>d. /\ DOMAIN variant \subseteq Variants
      /\ \A v \in DOMAIN variant : variant[v] \in Row
  BY DEF TypeOK
<1>1. CASE CreateSet(r)
  <2>. DEFINE s == request[r].set
              f == request[r].to.flag
  <2>1. ValidSet(s) /\ s \in Submissions BY <1>1, <1>r DEF CreateSet, At, LocalsSet, Request, ValidSet
  <2>a. PICK at \in Placements(s) : \E from \in LastItem(s, at) : Write(r, Placed(s, from, f, DOMAIN variant))
    BY <1>1 DEF CreateSet
  <2>2. PICK from \in LastItem(s, at) : Write(r, Placed(s, from, f, DOMAIN variant)) BY <2>a
  <2>. DEFINE rows == Placed(s, from, f, DOMAIN variant)
  <2>w. WellPlaced(rows, s, from, f, DOMAIN variant) BY <1>r, <2>1, PlacedRows
  <2>3. /\ DOMAIN rows = DOMAIN variant \cup DOMAIN from
        /\ DOMAIN rows \subseteq Variants /\ rows \in [DOMAIN rows -> Row]
    BY <2>w DEF WellPlaced
  <2>4. \A k \in Rules : rule[k].variant \in DOMAIN rows \cup {NoVariant} BY <2>3 DEF RolloutsKept
  <2>5. ~request[r].overtaken => RowsOf(f) = {} BY <1>1, <1>r DEF CreateSet, At, ReadsStand
  <2>6. ~request[r].overtaken => \A v, w \in DOMAIN rows :
           raced \/ (rows[v].control /\ rows[w].control /\ rows[v].flag = rows[w].flag => v = w)
    BY <2>w, <2>5, PlacedOneControl DEF RowsOf
  <2>. HIDE DEF rows
  <2>. QED BY <2>2, <2>3, <2>4, <2>6, WriteInv DEF rows
<1>2. CASE ReplaceSet(r)
  <2>. DEFINE s == request[r].set
              f == request[r].to.flag
              gone == Removed(r) \cap RowsOf(f)
  <2>1. ValidSet(s) /\ s \in Submissions BY <1>2, <1>r DEF ReplaceSet, At, LocalsSet, Request, ValidSet
  <2>a. PICK at \in Placements(s) : \E from \in LastItem(s, at) : Write(r, Placed(s, from, f, DOMAIN variant \ gone))
    BY <1>2 DEF ReplaceSet
  <2>2. PICK from \in LastItem(s, at) : Write(r, Placed(s, from, f, DOMAIN variant \ gone)) BY <2>a
  <2>. DEFINE rows == Placed(s, from, f, DOMAIN variant \ gone)
  <2>w. WellPlaced(rows, s, from, f, DOMAIN variant \ gone)
    <3>1. DOMAIN variant \ gone \in SUBSET DOMAIN variant OBVIOUS
    <3>. QED BY <1>r, <2>1, <3>1, PlacedRows
  <2>3. /\ DOMAIN rows = (DOMAIN variant \ gone) \cup DOMAIN from
        /\ DOMAIN rows \subseteq Variants /\ rows \in [DOMAIN rows -> Row]
        /\ Submitted(s) \subseteq DOMAIN from
    BY <2>w DEF WellPlaced
  <2>4. \A k \in Rules : rule[k].variant \in DOMAIN rows \cup {NoVariant}
    <3>1. gone \cap RolledOut = {} BY <1>2 DEF ReplaceSet
    <3>2. \A k \in Rules : rule[k].variant \in RolledOut BY DEF RolledOut
    <3>3. \A k \in Rules : rule[k].variant \in DOMAIN variant \cup {NoVariant} BY DEF RolloutsKept
    <3>. HIDE DEF gone, rows
    <3>. QED BY <2>3, <3>1, <3>2, <3>3
  <2>5. ~request[r].overtaken => (DOMAIN variant \ gone) \cap RowsOf(f) \subseteq DOMAIN from
    <3>1. ~request[r].overtaken => request[r].known = RowsOf(f) BY <1>2, <1>r DEF ReplaceSet, At, ReadsStand
    <3>. QED BY <2>3, <3>1 DEF Removed
  <2>6. ~request[r].overtaken => \A v, w \in DOMAIN rows :
           raced \/ (rows[v].control /\ rows[w].control /\ rows[v].flag = rows[w].flag => v = w)
    BY <2>w, <2>5, PlacedOneControl DEF RowsOf
  <2>. HIDE DEF rows, gone
  <2>. QED BY <2>2, <2>3, <2>4, <2>6, WriteInv DEF rows
<1>3. CASE InsertRow(r)
  <2>. DEFINE row == request[r].to
  <2>1. PICK v \in Variants \ born :
          Write(r, [w \in DOMAIN variant \cup {v} |-> IF w = v THEN row ELSE variant[w]])
    BY <1>3 DEF InsertRow
  <2>. DEFINE rows == [w \in DOMAIN variant \cup {v} |-> IF w = v THEN row ELSE variant[w]]
  <2>2. DOMAIN rows \subseteq Variants /\ rows \in [DOMAIN rows -> Row] BY <1>d, <1>r
  <2>3. \A k \in Rules : rule[k].variant \in DOMAIN rows \cup {NoVariant} BY DEF RolloutsKept
  <2>4. ~request[r].overtaken /\ row.control => Controls(RowsOf(row.flag) \ {v}) = {}
    BY <1>3, <1>r, <1>d DEF InsertRow, At, ReadsStand, LocalsSet, Controls, RowsOf
  <2>5. ~request[r].overtaken => \A w, x \in DOMAIN rows :
           raced \/ (rows[w].control /\ rows[x].control /\ rows[w].flag = rows[x].flag => w = x)
    <3>. SUFFICES ASSUME ~request[r].overtaken
                  PROVE  \A w, x \in DOMAIN rows :
                           raced \/ (rows[w].control /\ rows[x].control /\ rows[w].flag = rows[x].flag => w = x)
      OBVIOUS
    <3>1. row \in Row /\ v \in Variants BY <1>r
    <3>2. row.control => Controls(RowsOf(row.flag) \ {v}) = {} BY <2>4
    <3>3. ControlAlone(WithRow(v, row)) BY <3>1, <3>2, OneRowOneControl
    <3>4. rows = WithRow(v, row) BY DEF WithRow
    <3>. HIDE DEF rows
    <3>. QED BY <3>3, <3>4 DEF ControlAlone
  <2>. HIDE DEF rows
  <2>. QED BY <2>1, <2>2, <2>3, <2>5, WriteInv DEF rows
<1>4. CASE SaveRow(r)
  <2>. DEFINE v == request[r].row
              row == request[r].to
              rows == [w \in DOMAIN variant \cup {v} |-> IF w = v THEN row ELSE variant[w]]
  <2>1. v \in Variants BY <1>4, <1>r DEF SaveRow, At, LocalsSet
  <2>2. DOMAIN rows \subseteq Variants /\ rows \in [DOMAIN rows -> Row] BY <1>d, <1>r, <2>1
  <2>3. \A k \in Rules : rule[k].variant \in DOMAIN rows \cup {NoVariant} BY DEF RolloutsKept
  <2>4. ~request[r].overtaken /\ row.control => Controls(RowsOf(row.flag) \ {v}) = {}
    BY <1>4, <1>r DEF SaveRow, At, ReadsStand
  <2>5. ~request[r].overtaken => \A w, x \in DOMAIN rows :
           raced \/ (rows[w].control /\ rows[x].control /\ rows[w].flag = rows[x].flag => w = x)
    <3>. SUFFICES ASSUME ~request[r].overtaken
                  PROVE  \A w, x \in DOMAIN rows :
                           raced \/ (rows[w].control /\ rows[x].control /\ rows[w].flag = rows[x].flag => w = x)
      OBVIOUS
    <3>1. row \in Row /\ v \in Variants BY <1>r, <2>1
    <3>2. row.control => Controls(RowsOf(row.flag) \ {v}) = {} BY <2>4
    <3>3. ControlAlone(WithRow(v, row)) BY <3>1, <3>2, OneRowOneControl
    <3>4. rows = WithRow(v, row) BY DEF WithRow
    <3>. HIDE DEF rows
    <3>. QED BY <3>3, <3>4 DEF ControlAlone
  <2>6. Write(r, rows) BY <1>4 DEF SaveRow
  <2>. HIDE DEF rows
  <2>. QED BY <2>2, <2>3, <2>5, <2>6, WriteInv
<1>5. CASE DeleteRow(r)
  <2>. DEFINE rows == [w \in DOMAIN variant \ {request[r].row} |-> variant[w]]
  <2>1. DOMAIN rows \subseteq Variants /\ rows \in [DOMAIN rows -> Row] BY <1>d
  <2>2. \A k \in Rules : rule[k].variant \in DOMAIN rows \cup {NoVariant}
    BY <1>5 DEF DeleteRow, RolledOut, RolloutsKept
  <2>3. \A w, x \in DOMAIN rows :
           raced \/ (rows[w].control /\ rows[x].control /\ rows[w].flag = rows[x].flag => w = x)
    BY DEF OneControl
  <2>4. Write(r, rows) BY <1>5 DEF DeleteRow
  <2>. HIDE DEF rows
  <2>. QED BY <2>1, <2>2, <2>3, <2>4, WriteInv
<1>6. CASE ReplaceRefused(r) \/ DeleteRefused(r)
  <2>1. request' = [request EXCEPT ![r] = Idle] /\ UNCHANGED <<variant, born, rule, raced>>
    BY <1>6 DEF ReplaceRefused, DeleteRefused, Refuse, End
  <2>. QED BY <1>k, <2>1, IdleInv, BeginInv DEF RolloutsKept
<1>7. CASE SaveRule(r)
  <2>1. request' = [request EXCEPT ![r] = Idle] /\ UNCHANGED <<variant, born, raced>>
    BY <1>7 DEF SaveRule, End
  <2>2. rule' \in [Rules -> RuleRow] BY <1>7, <1>k, <1>r, <1>d DEF SaveRule, RuleRow
  <2>3. RolloutsKept' BY <1>7, <1>k, <2>1 DEF SaveRule, RolloutsKept, RuleRow
  <2>. QED BY <2>1, <2>2, <2>3, IdleInv, BeginInv
<1>. QED BY <1>1, <1>2, <1>3, <1>4, <1>5, <1>6, <1>7 DEF Advance

-----------------------------------------------------------------------------
(* The invariant holds of every run. *)
THEOREM InvHolds == Spec => []VariantSetsInv
<1>1. VariantSetsInv /\ [Next]_vars => VariantSetsInv'
  <2>. SUFFICES ASSUME VariantSetsInv, [Next]_vars PROVE VariantSetsInv' OBVIOUS
  <2>1. ASSUME NEW r \in Requests, Fail(r) PROVE VariantSetsInv'
    <3>1. request' = [request EXCEPT ![r] = Idle] /\ UNCHANGED <<variant, born, rule, raced>>
      BY <2>1 DEF Fail, Refuse, End
    <3>. QED BY <3>1, IdleInv, BeginInv DEF RolloutsKept, VariantSetsInv, TypeOK
  <2>2. CASE UNCHANGED vars
    <3>. USE <2>2 DEF vars, VariantSetsInv
    <3>1. TypeOK' /\ RolloutsKept' /\ OneControl' BY DEF TypeOK, RolloutsKept, OneControl
    <3>2. \A r \in Requests : LocalsSet(request[r])' BY Zenon DEF LocalsSet
    <3>3. \A r \in Requests : ReadsStand(request[r])' BY Zenon DEF ReadsStand, RowsOf, Controls
    <3>. QED BY <3>1, <3>2, <3>3
  <2>. QED BY <2>1, <2>2, ArriveInv, AdvanceInv DEF Next
<1>. QED BY InitInv, <1>1, PTL DEF Spec

(* Every reachable state is well-typed. *)
THEOREM TypeCorrect == Spec => []TypeOK
<1>1. VariantSetsInv => TypeOK BY DEF VariantSetsInv
<1>. QED BY InvHolds, <1>1, PTL

(* No rule rolls out a variant that is gone, however edits interleave.      *)
THEOREM RolloutsStay == Spec => []RolloutsKept
<1>1. VariantSetsInv => RolloutsKept BY DEF VariantSetsInv
<1>. QED BY InvHolds, <1>1, PTL

(* No sequence of edits makes a second control unless one was overtaken.    *)
THEOREM OneControlHolds == Spec => []OneControl
<1>1. VariantSetsInv => OneControl BY DEF VariantSetsInv
<1>. QED BY InvHolds, <1>1, PTL

(* No edit that was not overtaken takes the last variant of a flag away: a   *)
(* set that replaces it has at least one row, and the row that goes alone    *)
(* is not the only one.                                                      *)
THEOREM LastVariantKept == Spec => LastVariantStays
<1>1. ASSUME VariantSetsInv, [Next]_vars, ~raced', NEW f \in Flags, RowsOf(f) # {}
      PROVE  RowsOf(f)' # {} \/ RowsOf(f) \cap DOMAIN variant' # {}
  <2>. USE <1>1 DEF VariantSetsInv
  <2>1. ASSUME DOMAIN variant \subseteq DOMAIN variant'
        PROVE  RowsOf(f) \cap DOMAIN variant' # {}
    BY <2>1 DEF RowsOf
  <2>2. ASSUME NEW r \in Requests, CreateSet(r) PROVE DOMAIN variant \subseteq DOMAIN variant'
    BY <2>2 DEF CreateSet, Write, Placed
  <2>3. ASSUME NEW r \in Requests, InsertRow(r) \/ SaveRow(r)
        PROVE  DOMAIN variant \subseteq DOMAIN variant'
    BY <2>3 DEF InsertRow, SaveRow, Write
  <2>4. ASSUME NEW r \in Requests, ReplaceSet(r)
        PROVE  RowsOf(f)' # {} \/ RowsOf(f) \cap DOMAIN variant' # {}
    <3>. DEFINE s == request[r].set
                g == request[r].to.flag
                gone == Removed(r) \cap RowsOf(g)
    <3>1. ValidSet(s) /\ s \in Submissions /\ g \in Flags
      BY <2>4 DEF ReplaceSet, At, LocalsSet, TypeOK, Request, Row, ValidSet
    <3>2. PICK at \in Placements(s) : \E from \in LastItem(s, at) :
            variant' = Placed(s, from, g, DOMAIN variant \ gone)
      BY <2>4 DEF ReplaceSet, Write
    <3>3. PICK from \in LastItem(s, at) : variant' = Placed(s, from, g, DOMAIN variant \ gone)
      BY <3>2
    <3>4. WellPlaced(variant', s, from, g, DOMAIN variant \ gone)
      <4>1. DOMAIN variant \ gone \in SUBSET DOMAIN variant OBVIOUS
      <4>2. WellPlaced(Placed(s, from, g, DOMAIN variant \ gone), s, from, g, DOMAIN variant \ gone)
        BY <3>1, <4>1, PlacedRows
      <4>. QED BY <3>3, <4>2
    <3>5. CASE f = g BY <3>4, <3>5 DEF WellPlaced, RowsOf
    <3>6. CASE f # g
      <4>1. gone \cap RowsOf(f) = {} BY <3>6 DEF RowsOf
      <4>. QED BY <3>4, <4>1 DEF WellPlaced, RowsOf
    <3>. QED BY <3>5, <3>6
  <2>5. ASSUME NEW r \in Requests, DeleteRow(r) PROVE RowsOf(f) \cap DOMAIN variant' # {}
    <3>. DEFINE v == request[r].row
    <3>1. DOMAIN variant' = DOMAIN variant \ {v} BY <2>5 DEF DeleteRow, Write
    <3>2. v \in DOMAIN variant => RowsOf(variant[v].flag) # {v}
      BY <2>5 DEF DeleteRow, At, Write, ReadsStand
    <3>. QED BY <3>1, <3>2 DEF RowsOf
  <2>6. ASSUME variant' = variant PROVE RowsOf(f) \cap DOMAIN variant' # {}
    BY <2>1, <2>6
  <2>7. ASSUME NEW r \in Requests, Arrive(r) PROVE variant' = variant
    BY <2>7, ZenonT(40) DEF Arrive, Begin, ReadForPost,
        ReadForPut, ValidateCreate, ValidateUpdate, LoadForDestroy, ValidateRule
  <2>8. ASSUME NEW r \in Requests, Fail(r) \/ SaveRule(r) \/ ReplaceRefused(r) \/ DeleteRefused(r)
        PROVE  variant' = variant
    BY <2>8 DEF Fail, SaveRule, ReplaceRefused, DeleteRefused, Refuse
  <2>. QED
    BY <2>1, <2>2, <2>3, <2>4, <2>5, <2>6, <2>7, <2>8 DEF Next, Advance, vars
<1>2. VariantSetsInv /\ [Next]_vars =>
        [~raced' => \A f \in Flags : RowsOf(f) # {} =>
           RowsOf(f)' # {} \/ RowsOf(f) \cap DOMAIN variant' # {}]_vars
  BY <1>1
<1>. QED BY <1>2, InvHolds, PTL DEF Spec, LastVariantStays

-----------------------------------------------------------------------------
(* Weights: the rows of a flag, and what they weigh, in any set of rows.    *)
RowsIn(rows, f) == {v \in DOMAIN rows : rows[v].flag = f}

WeightIn(rows, S) == SumFunctionOnSet([v \in DOMAIN rows |-> rows[v].share], S)

(* Numbers that give the same product with another one are the same. *)
LEMMA SameFactor == \A n \in Nat \ {0} : \A x, y \in Int : n * x = n * y => x = y
OBVIOUS

(* A placed set writes finitely many rows. *)
LEMMA FinitePlaced ==
  ASSUME NEW s \in Submissions, NEW at \in Placements(s), NEW from \in LastItem(s, at)
  PROVE  IsFiniteSet(DOMAIN from)
<1>1. s \in Seq(Item) /\ DOMAIN s = 1..Len(s) /\ Len(s) \in Nat
  BY VariantSetsAssumption
<1>2. DOMAIN from = {at[i] : i \in DOMAIN s} /\ at \in [DOMAIN s -> Variants]
  BY DEF LastItem, Placements
<1>3. at \in Surjection(DOMAIN s, DOMAIN from)
  BY <1>2 DEF Surjection
<1> QED BY <1>1, <1>3, FS_Interval, FS_Surjection

(* A row that is saved weighs what the others of its flag leave of the whole. *)
LEMMA RowWeighs ==
  ASSUME TypeOK, IsFiniteSet(DOMAIN variant), NEW v, NEW row \in Row,
         Total(RowsOf(row.flag) \ {v}) + row.share = Whole,
         NEW rows, rows = [w \in DOMAIN variant \cup {v} |-> IF w = v THEN row ELSE variant[w]]
  PROVE  WeightIn(rows, RowsIn(rows, row.flag)) = Whole
<1> DEFINE others == RowsOf(row.flag) \ {v}
           old == [w \in DOMAIN variant |-> variant[w].share]
           new == [w \in DOMAIN rows |-> rows[w].share]
<1>1. RowsIn(rows, row.flag) = others \cup {v} /\ v \notin others
  BY DEF RowsIn, RowsOf
<1>2. IsFiniteSet(others) /\ others \subseteq DOMAIN variant
  BY FS_Subset DEF RowsOf
<1>3. (\A w \in others : new[w] = old[w]) /\ new[v] = row.share
  BY <1>1, <1>2
<1>4. \A w \in others \cup {v} : new[w] \in Int
  <2>1. \A w \in DOMAIN variant : variant[w].share \in Int
    BY VariantSetsAssumption DEF TypeOK, Row
  <2>2. row.share \in Int
    BY VariantSetsAssumption DEF Row
  <2> QED BY <1>2, <1>3, <2>1, <2>2
<1>5. SumFunctionOnSet(old, others) + row.share = Whole
  BY DEF Total
<1> HIDE DEF old, new, others
<1>6. SumFunctionOnSet(new, others) = SumFunctionOnSet(old, others)
  BY <1>2, <1>3, SumSame
<1>7. SumFunctionOnSet(new, others \cup {v}) = SumFunctionOnSet(new, others) + new[v]
  BY <1>1, <1>2, <1>4, SumAdd
<1>8. SumFunctionOnSet(new, RowsIn(rows, row.flag)) = SumFunctionOnSet(new, others \cup {v})
  BY <1>1, Zenon
<1> QED BY <1>3, <1>5, <1>6, <1>7, <1>8 DEF WeightIn, new

(* A valid set that is exact is written to as many rows as it has items, so  *)
(* they weigh the whole.                                                     *)
LEMMA PlacedWhole ==
  ASSUME TypeOK, NEW s \in Submissions, ValidSet(s), NEW f \in Flags,
         NEW at \in Placements(s), NEW from \in LastItem(s, at),
         NEW keep \in SUBSET DOMAIN variant, Exact(s)
  PROVE  WeightIn(Placed(s, from, f, keep), DOMAIN from) = Whole
<1> DEFINE rows == Placed(s, from, f, keep)
           T == DOMAIN from
           shares == [i \in DOMAIN s |-> s[i].share]
           new == [v \in DOMAIN rows |-> rows[v].share]
<1>1. s \in Seq(Item) /\ DOMAIN s = 1..Len(s) /\ Len(s) \in Nat
  BY VariantSetsAssumption
<1>2. \A i \in DOMAIN s : s[i].share \in Int
  <2>1. \A i \in DOMAIN s : s[i] \in Item
    BY <1>1
  <2>2. \A item \in Item : item.share \in Int
    BY VariantSetsAssumption DEF Item
  <2> QED BY <2>1, <2>2
<1>3. /\ T = {at[i] : i \in DOMAIN s}
      /\ \A v \in T : from[v] \in DOMAIN s /\ at[from[v]] = v
  BY DEF LastItem
<1>4. \A v \in T : v \in DOMAIN rows /\ rows[v] = ItemRow(s, from[v], f)
  BY DEF Placed
<1>5. \A v \in T : rows[v].share = s[from[v]].share
  <2>1. \A i : ItemRow(s, i, f).share = s[i].share
    BY DEF ItemRow
  <2> QED BY <1>4, <2>1, Zenon
<1>6. IsFiniteSet(DOMAIN s)
  BY <1>1, FS_Interval
<1>7. IsFiniteSet(T)
  BY <1>6, FinitePlaced
<1>8. \A v \in T : new[v] = rows[v].share
  BY <1>4
<1>9. \A v \in T : new[v] = shares[from[v]] /\ new[v] \in Int
  BY <1>2, <1>3, <1>5, <1>8
<1>10. \A v, u \in T : from[v] = from[u] => v = u
  BY <1>3
<1>11. SumFunctionOnSet(shares, DOMAIN s) = Whole
  <2>1. Parts * Weight(s) + CutOff(s) = Parts * Whole /\ CutOff(s) = 0
    BY DEF ValidSet, AddsUp, Exact
  <2>2. \A i \in DOMAIN s : shares[i] \in Int
    BY <1>2
  <2> HIDE DEF shares
  <2>3. SumFunctionOnSet(shares, DOMAIN s) \in Int
    BY <1>6, <2>2, SumInt
  <2>4. DOMAIN shares = DOMAIN s
    BY DEF shares
  <2>5. Weight(s) = SumFunctionOnSet(shares, DOMAIN s)
    BY <2>4, Zenon DEF Weight, SumFunction, shares
  <2>6. Parts * Weight(s) = Parts * Whole
    BY <2>1, <2>3, <2>5, VariantSetsAssumption
  <2> QED BY <2>3, <2>5, <2>6, VariantSetsAssumption, SameFactor
<1>12. WeightIn(rows, T) = SumFunctionOnSet(new, T)
  BY Zenon DEF WeightIn
<1>13. {from[v] : v \in T} = DOMAIN s
  <2>1. \A i, j \in DOMAIN s : at[i] = at[j] => i = j
    BY DEF Placements, Exact
  <2>2. \A i \in DOMAIN s : at[i] \in T /\ from[at[i]] = i
    BY <1>3, <2>1
  <2> HIDE DEF T
  <2>3. \A v \in T : from[v] \in DOMAIN s
    BY <1>3
  <2>4. \A i \in DOMAIN s : \E v \in T : i = from[v]
    BY <2>2
  <2> QED BY <2>3, <2>4
<1> HIDE DEF rows, shares, new, T
<1>14. SumFunctionOnSet(new, T) = SumFunctionOnSet(shares, {from[v] : v \in T})
  BY <1>7, <1>9, <1>10, SumImage
<1> QED BY <1>11, <1>12, <1>13, <1>14 DEF rows, T

(* A write keeps what is known of the weights: what the other requests have *)
(* read it leaves overtaken.                                                *)
LEMMA WriteWeights ==
  ASSUME VariantSetsInv, WeightsInv, NEW r \in Requests, NEW rows, Write(r, rows), IsFiniteSet(DOMAIN rows)
  PROVE  WeightsInv'
<1>1. variant' = rows /\ IsFiniteSet(DOMAIN variant')
  BY DEF Write
<1>2. ASSUME NEW q \in Requests PROVE WeightsStand(request[q])'
  <2>1. request'[q] = IF q = r THEN Idle
                      ELSE IF request[q] # Idle /\ rows # variant
                           THEN [request[q] EXCEPT !.overtaken = TRUE]
                      ELSE request[q]
    BY DEF Write, Overtake
  <2>2. CASE request'[q] = Idle
    BY <2>2 DEF WeightsStand, Idle
  <2>3. CASE q # r /\ request[q] # Idle /\ rows # variant
    <3>1. request[q] \in Request /\ request'[q] = [request[q] EXCEPT !.overtaken = TRUE]
      BY <2>1, <2>3 DEF VariantSetsInv, TypeOK
    <3>2. request'[q].overtaken
      BY <3>1, OvertakenRequest
    <3> QED BY <3>2 DEF WeightsStand
  <2>4. CASE q # r /\ rows = variant /\ request'[q] = request[q]
    <3>1. WeightsStand(request[q]) /\ variant' = variant
      BY <1>1, <2>4 DEF WeightsInv
    <3> QED BY <2>4, <3>1, Zenon DEF WeightsStand, Total, RowsOf
  <2> QED BY <2>1, <2>2, <2>3, <2>4
<1> QED BY <1>1, <1>2 DEF WeightsInv

(* A request that only read keeps them if its locals bear out what it read.  *)
LEMMA BeginWeights ==
  ASSUME VariantSetsInv, WeightsInv, NEW r \in Requests, NEW locals, WeightsStand(locals),
         request' = [request EXCEPT ![r] = locals], UNCHANGED variant
  PROVE  WeightsInv'
<1>1. \A q \in Requests : request'[q] = IF q = r THEN locals ELSE request[q]
  BY DEF VariantSetsInv, TypeOK
<1>2. \A q \in Requests : WeightsStand(request'[q])
  BY <1>1 DEF WeightsInv
<1>3. \A q \in Requests : WeightsStand(request[q])'
  BY <1>2, Zenon DEF WeightsStand, Total, RowsOf
<1> QED BY <1>3 DEF WeightsInv

(* A request that arrives has just seen that its row makes the whole. *)
LEMMA ArriveWeights ==
  ASSUME VariantSetsInv, WeightsInv, NEW r \in Requests, Arrive(r)
  PROVE  WeightsInv'
<1> SUFFICES \E locals : WeightsStand(locals) /\ request' = [request EXCEPT ![r] = locals] /\ UNCHANGED variant
  BY BeginWeights
<1>1. ASSUME NEW f \in Flags, NEW s \in Submissions, ReadForPost(r, f, s) \/ ReadForPut(r, f, s)
      PROVE  \E locals : WeightsStand(locals) /\ request' = [request EXCEPT ![r] = locals] /\ UNCHANGED variant
  <2>1. CASE ReadForPost(r, f, s)
    BY <2>1 DEF ReadForPost, Begin, WeightsStand, Idle
  <2>2. CASE ReadForPut(r, f, s)
    BY <2>2 DEF ReadForPut, Begin, WeightsStand, Idle
  <2> QED BY <1>1, <2>1, <2>2
<1>2. ASSUME NEW f \in Flags, NEW share \in Shares, NEW control \in BOOLEAN, ValidateCreate(r, f, share, control)
      PROVE  \E locals : WeightsStand(locals) /\ request' = [request EXCEPT ![r] = locals] /\ UNCHANGED variant
  <2> DEFINE becomes == control \/ RowsOf(f) = {}
             locals == [Idle EXCEPT !.pc = "checked", !.op = "create",
                                    !.to = [flag |-> f, share |-> share, control |-> becomes]]
  <2>1. request' = [request EXCEPT ![r] = locals] /\ UNCHANGED variant
    BY <1>2 DEF ValidateCreate, Begin
  <2>2. Total(RowsOf(f) \ {NoVariant}) + share = Whole
    BY <1>2 DEF ValidateCreate, RowAccepted
  <2>3. locals.to.flag = f /\ locals.to.share = share /\ locals.row = NoVariant
    BY DEF Idle
  <2> HIDE DEF locals
  <2>4. WeightsStand(locals)
    BY <2>2, <2>3 DEF WeightsStand
  <2> QED BY <2>1, <2>4
<1>3. ASSUME NEW f \in Flags, NEW share \in Shares, NEW control \in BOOLEAN, NEW v \in Variants,
             ValidateUpdate(r, v, f, share, control)
      PROVE  \E locals : WeightsStand(locals) /\ request' = [request EXCEPT ![r] = locals] /\ UNCHANGED variant
  <2> DEFINE locals == [Idle EXCEPT !.pc = "checked", !.op = "update", !.row = v,
                                    !.to = [flag |-> f, share |-> share, control |-> control]]
  <2>1. request' = [request EXCEPT ![r] = locals] /\ UNCHANGED variant
    BY <1>3 DEF ValidateUpdate, Begin
  <2>2. Total(RowsOf(f) \ {v}) + share = Whole
    BY <1>3 DEF ValidateUpdate, RowAccepted
  <2>3. locals.to.flag = f /\ locals.to.share = share /\ locals.row = v
    BY DEF Idle
  <2> HIDE DEF locals
  <2>4. WeightsStand(locals)
    BY <2>2, <2>3 DEF WeightsStand
  <2> QED BY <2>1, <2>4
<1>4. ASSUME NEW v \in Variants, LoadForDestroy(r, v)
      PROVE  \E locals : WeightsStand(locals) /\ request' = [request EXCEPT ![r] = locals] /\ UNCHANGED variant
  BY <1>4 DEF LoadForDestroy, Begin, WeightsStand, Idle
<1>5. ASSUME NEW f \in Flags, NEW k \in Rules, NEW v \in Variants \cup {NoVariant}, ValidateRule(r, k, f, v)
      PROVE  \E locals : WeightsStand(locals) /\ request' = [request EXCEPT ![r] = locals] /\ UNCHANGED variant
  BY <1>5 DEF ValidateRule, Begin, WeightsStand, Idle
<1> QED BY <1>1, <1>2, <1>3, <1>4, <1>5 DEF Arrive

(* The writes leave finitely many rows. *)
LEMMA AdvanceWeights ==
  ASSUME VariantSetsInv, WeightsInv, NEW r \in Requests, Advance(r)
  PROVE  WeightsInv'
<1>t. IsFiniteSet(DOMAIN variant) /\ request[r].set \in Submissions \cup {<<>>} /\ LocalsSet(request[r])
  BY DEF WeightsInv, VariantSetsInv, TypeOK, Request
<1>1. ASSUME NEW s \in Submissions, NEW at \in Placements(s), NEW from \in LastItem(s, at), NEW f,
             NEW keep \in SUBSET DOMAIN variant, Write(r, Placed(s, from, f, keep))
      PROVE  WeightsInv'
  <2> DEFINE rows == Placed(s, from, f, keep)
  <2>1. DOMAIN rows = keep \cup DOMAIN from
    BY DEF Placed
  <2>2. IsFiniteSet(keep) /\ IsFiniteSet(DOMAIN from)
    BY <1>t, FS_Subset, FinitePlaced
  <2>3. IsFiniteSet(DOMAIN rows)
    BY <2>1, <2>2, FS_Union
  <2> HIDE DEF rows
  <2> QED BY <1>1, <2>3, WriteWeights DEF rows
<1>2. CASE CreateSet(r) \/ ReplaceSet(r)
  <2> DEFINE s == request[r].set
             f == request[r].to.flag
  <2>1. s \in Submissions
    BY <1>2, <1>t DEF CreateSet, ReplaceSet, At, LocalsSet, ValidSet
  <2>2. PICK keep \in SUBSET DOMAIN variant :
          \E at \in Placements(s) : \E from \in LastItem(s, at) : Write(r, Placed(s, from, f, keep))
    BY <1>2 DEF CreateSet, ReplaceSet
  <2> HIDE DEF s, f
  <2> QED BY <1>1, <2>1, <2>2
<1>3. CASE InsertRow(r) \/ SaveRow(r)
  <2>1. PICK v : Write(r, [w \in DOMAIN variant \cup {v} |-> IF w = v THEN request[r].to ELSE variant[w]])
    BY <1>3 DEF InsertRow, SaveRow
  <2> DEFINE rows == [w \in DOMAIN variant \cup {v} |-> IF w = v THEN request[r].to ELSE variant[w]]
  <2>2. IsFiniteSet(DOMAIN rows)
    BY <1>t, FS_AddElement
  <2> HIDE DEF rows
  <2> QED BY <2>1, <2>2, WriteWeights DEF rows
<1>4. CASE DeleteRow(r)
  <2> DEFINE rows == [w \in DOMAIN variant \ {request[r].row} |-> variant[w]]
  <2>1. IsFiniteSet(DOMAIN rows)
    BY <1>t, FS_RemoveElement
  <2>2. Write(r, rows)
    BY <1>4 DEF DeleteRow
  <2> HIDE DEF rows
  <2> QED BY <2>1, <2>2, WriteWeights
<1>5. CASE ReplaceRefused(r) \/ DeleteRefused(r) \/ SaveRule(r)
  <2>1. request' = [request EXCEPT ![r] = Idle] /\ UNCHANGED variant
    BY <1>5 DEF ReplaceRefused, DeleteRefused, SaveRule, Refuse, End
  <2>2. WeightsStand(Idle)
    BY DEF WeightsStand, Idle
  <2> QED BY <2>1, <2>2, BeginWeights
<1> QED BY <1>2, <1>3, <1>4, <1>5 DEF Advance

(* What the checks read of the weights stands in every run. *)
LEMMA WeightsHold == Spec => [](VariantSetsInv /\ WeightsInv)
<1>1. Init => WeightsInv
  <2> SUFFICES ASSUME Init PROVE WeightsInv
    OBVIOUS
  <2>1. DOMAIN variant = {}
    BY DEF Init
  <2> QED BY <2>1, FS_EmptySet DEF Init, WeightsInv, WeightsStand, Idle
<1>2. VariantSetsInv /\ WeightsInv /\ [Next]_vars => WeightsInv'
  <2> SUFFICES ASSUME VariantSetsInv, WeightsInv, [Next]_vars PROVE WeightsInv'
    OBVIOUS
  <2>1. ASSUME NEW r \in Requests, Fail(r) PROVE WeightsInv'
    <3>1. request' = [request EXCEPT ![r] = Idle] /\ UNCHANGED variant
      BY <2>1 DEF Fail, Refuse, End
    <3>2. WeightsStand(Idle)
      BY DEF WeightsStand, Idle
    <3> QED BY <3>1, <3>2, BeginWeights
  <2>2. CASE UNCHANGED vars
    BY <2>2, Zenon DEF vars, WeightsInv, WeightsStand, Total, RowsOf
  <2> QED BY <2>1, <2>2, ArriveWeights, AdvanceWeights DEF Next
<1> QED BY <1>1, <1>2, InvHolds, PTL DEF Spec

(* A set that is written while nobody overtook it leaves its flag with the   *)
(* rows it writes, which weigh the whole.                                    *)
LEMMA SetWritten ==
  ASSUME VariantSetsInv, NEW r \in Requests, NEW f \in Flags, CreateSet(r) \/ ReplaceSet(r), Writes(r, f)
  PROVE  Total(RowsOf(f))' = Whole
<1> DEFINE s == request[r].set
<1>1. /\ TypeOK /\ LocalsSet(request[r]) /\ ReadsStand(request[r])
      /\ request[r].to.flag = f /\ ~request[r].overtaken /\ Exact(s)
  BY DEF VariantSetsInv, Writes
<1>2. ValidSet(s) /\ s \in Submissions
  BY <1>1 DEF CreateSet, ReplaceSet, At, LocalsSet, TypeOK, Request, ValidSet
<1>3. PICK keep \in SUBSET DOMAIN variant :
        /\ \E at \in Placements(s) : \E from \in LastItem(s, at) : variant' = Placed(s, from, f, keep)
        /\ keep \cap RowsOf(f) \subseteq Submitted(s)
  <2>1. CASE CreateSet(r)
    <3>1. RowsOf(f) = {}
      BY <1>1, <2>1 DEF CreateSet, At, ReadsStand
    <3>2. \E at \in Placements(s) : \E from \in LastItem(s, at) : variant' = Placed(s, from, f, DOMAIN variant)
      BY <1>1, <2>1 DEF CreateSet, Write
    <3> QED BY <3>1, <3>2
  <2>2. CASE ReplaceSet(r)
    <3> DEFINE gone == Removed(r) \cap RowsOf(f)
    <3>1. request[r].known = RowsOf(f)
      BY <1>1, <2>2 DEF ReplaceSet, At, ReadsStand
    <3>2. \E at \in Placements(s) : \E from \in LastItem(s, at) : variant' = Placed(s, from, f, DOMAIN variant \ gone)
      BY <1>1, <2>2 DEF ReplaceSet, Write
    <3>3. DOMAIN variant \ gone \in SUBSET DOMAIN variant
      OBVIOUS
    <3>4. (DOMAIN variant \ gone) \cap RowsOf(f) \subseteq Submitted(s)
      BY <3>1 DEF Removed
    <3> QED BY <3>2, <3>3, <3>4
  <2> QED BY <2>1, <2>2
<1>4. PICK at \in Placements(s) : \E from \in LastItem(s, at) : variant' = Placed(s, from, f, keep)
  BY <1>3
<1>5. PICK from \in LastItem(s, at) : variant' = Placed(s, from, f, keep)
  BY <1>4
<1> HIDE DEF s
<1>6. WellPlaced(variant', s, from, f, keep)
  <2>1. WellPlaced(Placed(s, from, f, keep), s, from, f, keep)
    BY <1>1, <1>2, PlacedRows
  <2> QED BY <1>5, <2>1
<1>7. RowsIn(variant', f) = DOMAIN from
  BY <1>3, <1>6 DEF WellPlaced, RowsIn, RowsOf
<1>8. WeightIn(variant', DOMAIN from) = Whole
  <2>1. WeightIn(Placed(s, from, f, keep), DOMAIN from) = Whole
    BY <1>1, <1>2, PlacedWhole
  <2> QED BY <1>5, <2>1
<1>9. WeightIn(variant', RowsIn(variant', f)) = Whole
  BY <1>7, <1>8, Zenon
<1> QED BY <1>9, Zenon DEF Total, RowsOf, WeightIn, RowsIn

(* A row that is written while nobody overtook it weighs what the others of  *)
(* its flag still leave of the whole.                                        *)
LEMMA RowWritten ==
  ASSUME VariantSetsInv, WeightsInv, NEW r \in Requests, NEW f \in Flags, InsertRow(r) \/ SaveRow(r), Writes(r, f)
  PROVE  Total(RowsOf(f))' = Whole
<1> DEFINE row == request[r].to
<1>1. /\ TypeOK /\ LocalsSet(request[r]) /\ row \in Row /\ row.flag = f
      /\ IsFiniteSet(DOMAIN variant) /\ WeightsStand(request[r]) /\ ~request[r].overtaken
  BY DEF VariantSetsInv, WeightsInv, Writes, TypeOK, Request
<1>2. PICK v : /\ variant' = [w \in DOMAIN variant \cup {v} |-> IF w = v THEN row ELSE variant[w]]
               /\ RowsOf(f) \ {v} = RowsOf(f) \ {request[r].row}
  <2>1. CASE InsertRow(r)
    <3>1. PICK v \in Variants \ born :
            variant' = [w \in DOMAIN variant \cup {v} |-> IF w = v THEN row ELSE variant[w]]
      BY <2>1 DEF InsertRow, Write
    <3>2. request[r].row = NoVariant
      BY <1>1, <2>1 DEF InsertRow, At, LocalsSet
    <3>3. v \notin RowsOf(f) /\ NoVariant \notin RowsOf(f)
      BY <1>1, VariantSetsAssumption DEF TypeOK, RowsOf
    <3> QED BY <3>1, <3>2, <3>3
  <2>2. CASE SaveRow(r)
    BY <2>2 DEF SaveRow, Write
  <2> QED BY <2>1, <2>2
<1>3. request[r].op \in {"create", "update"}
  BY DEF InsertRow, SaveRow, At
<1>4. Total(RowsOf(f) \ {request[r].row}) + row.share = Whole
  BY <1>1, <1>3 DEF WeightsStand
<1>5. Total(RowsOf(row.flag) \ {v}) + row.share = Whole
  BY <1>1, <1>2, <1>4, Zenon
<1> HIDE DEF row
<1>6. WeightIn(variant', RowsIn(variant', row.flag)) = Whole
  BY <1>1, <1>2, <1>5, RowWeighs
<1>7. WeightIn(variant', RowsIn(variant', f)) = Whole
  BY <1>1, <1>6, Zenon
<1> QED BY <1>7, Zenon DEF Total, RowsOf, WeightIn, RowsIn

(* Whatever weights earlier requests left a flag with, the next set or row   *)
(* written to it leaves it with the whole, unless its request was overtaken  *)
(* or its set names a row twice or has weights cut off: the checks of        *)
(* validate_variant_set and VariantSerializer.validate take every row the    *)
(* flag will have into account.                                              *)
THEOREM WrittenWholeHolds == Spec => WrittenWhole
<1>1. ASSUME VariantSetsInv, WeightsInv, [Next]_vars, NEW r \in Requests, NEW f \in Flags, Writes(r, f)
      PROVE  Total(RowsOf(f))' = Whole
  <2>1. request \in [Requests -> Request] /\ request[r] # Idle /\ variant' # variant
    BY <1>1 DEF Writes, VariantSetsInv, TypeOK, Idle
  <2>2. PICK q \in Requests : Arrive(q) \/ Advance(q) \/ Fail(q)
    BY <1>1, <2>1 DEF Next, vars
  <2>3. ~Arrive(q)
    BY <2>1, ZenonT(40) DEF Arrive, Begin, ReadForPost, ReadForPut, ValidateCreate, ValidateUpdate,
      LoadForDestroy, ValidateRule
  <2>4. ~Fail(q) /\ ~SaveRule(q) /\ ~ReplaceRefused(q) /\ ~DeleteRefused(q)
    BY <2>1 DEF Fail, SaveRule, ReplaceRefused, DeleteRefused, Refuse
  <2>5. CreateSet(q) \/ ReplaceSet(q) \/ InsertRow(q) \/ SaveRow(q) \/ DeleteRow(q)
    BY <2>2, <2>3, <2>4 DEF Advance
  <2>6. q = r
    <3>1. \E rows : request' = Overtake(q, rows)
      BY <2>5, ZenonT(40) DEF CreateSet, ReplaceSet, InsertRow, SaveRow, DeleteRow, Write
    <3>2. PICK rows : request' = Overtake(q, rows)
      BY <3>1
    <3> SUFFICES ASSUME q # r PROVE FALSE
      OBVIOUS
    <3>3. request'[r] = request[r] \/ request'[r] = [request[r] EXCEPT !.overtaken = TRUE]
      BY <3>2 DEF Overtake
    <3>4. request'[r] = Idle /\ request[r].op # Idle.op
      BY <1>1 DEF Writes, Idle
    <3>5. request'[r].op = request[r].op
      BY <2>1, <3>3, OvertakenRequest
    <3> QED BY <3>4, <3>5
  <2>7. ~DeleteRow(r)
    BY <1>1 DEF DeleteRow, At, Writes
  <2>8. CreateSet(r) \/ ReplaceSet(r) \/ InsertRow(r) \/ SaveRow(r)
    BY <2>5, <2>6, <2>7
  <2> QED BY <1>1, <2>8, SetWritten, RowWritten
<1>2. VariantSetsInv /\ WeightsInv /\ [Next]_vars =>
        [\A r \in Requests, f \in Flags : Writes(r, f) => Total(RowsOf(f))' = Whole]_vars
  BY <1>1
<1> QED BY <1>2, WeightsHold, PTL DEF Spec, WrittenWhole
=============================================================================

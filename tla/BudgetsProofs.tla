---------------------------- MODULE BudgetsProofs ----------------------------
(***************************************************************************)
(* TLAPS proofs about Budgets, for every finite set of cycles and all limits *)
(* and bounds: type correctness, the silence of enrichment cycles, that the   *)
(* counters in budget_usage count the calls that were really made, hence no   *)
(* window sees more of them than its limit, and that no hour hears more       *)
(* messages than its own.                                                   *)
(*                                                                         *)
(* The last parts are about the report of the cycles, a system of its own:    *)
(* in Traces, for any number of cycles, every row says truly why its cycle    *)
(* was silent, and the numbers of a report agree with each other.  What the   *)
(* report's folds compute is proved by induction on what they run over.       *)
(***************************************************************************)
EXTENDS Budgets, Traces, FiniteSetTheorems, WellFoundedInduction, TLAPS

(* The cycles started in a day.                                              *)
CallsOnDay(d) == {c \in Cycles : began[c] # 0 /\ DayOf(began[c]) = d}

(* A cycle that never ran has no start and no row; where there is no row a     *)
(* pass has none and there is nothing to report; a cycle that may speak was    *)
(* made so; the counters count.                                              *)
CycleInv == \A c \in Cycles :
  /\ cycle[c] = "none" => began[c] = 0 /\ status[c] = "none"
  /\ status[c] = "none" => report[c] = "none" /\ c \notin pass.list /\ c \notin pass.air
  /\ cycle[c] = "speak" => c \in eligible
CountInv ==
  /\ \A h \in Hours : llmHour[h] = Cardinality(BeganIn(h))
  /\ \A d \in Days : llmDay[d] = Cardinality(CallsOnDay(d))

-----------------------------------------------------------------------------
(* Types.                                                                   *)

LEMMA HourIsTyped == TypeOK => hour \in Hours /\ Day \in Days /\ hour # 0 /\ hour \in 0..MaxHour
BY TimeAssumption DEF TypeOK, Hours, Day, Days

(* Adding one to a counter that is under its limit keeps it within.           *)
LEMMA BumpIsTyped ==
  ASSUME NEW S, NEW limit \in Nat, NEW count \in [S -> 0..limit], NEW w \in S, count[w] < limit
  PROVE  Bump(count, w) \in [S -> 0..limit]
BY DEF Bump

LEMMA IdleIsTyped == Idle \in Pass
BY TimeAssumption DEF Idle, Pass

LEMMA InitTypes == Init => TypeOK
<1> SUFFICES ASSUME Init PROVE TypeOK
  OBVIOUS
<1>0. up \in BOOLEAN /\ revived \in BOOLEAN /\ pass \in Pass
  BY IdleIsTyped DEF Init
<1>1. hour \in Hours
  BY TimeAssumption DEF Init, Hours
<1>2. /\ llmHour \in [Hours -> 0..CallsPerHour] /\ llmDay \in [Days -> 0..CallsPerDay]
      /\ msgHour \in [Hours -> 0..MessagesPerHour] /\ tries \in [Cycles -> 0..Attempts]
  BY LimitsAssumption, AttemptsAssumption DEF Init
<1>3. /\ cycle \in [Cycles -> {"none", "speak", "enrich", "over"}]
      /\ status \in [Cycles -> Status] /\ report \in [Cycles -> Report]
  BY DEF Init, Status, Report
<1>4. /\ began \in [Cycles -> 0..MaxHour] /\ heard \in [Cycles -> 0..MaxHour]
      /\ eligible \subseteq Cycles /\ carried \subseteq Cycles
  BY TimeAssumption DEF Init
<1> QED
  BY <1>0, <1>1, <1>2, <1>3, <1>4 DEF TypeOK

LEMMA StepTypes == TypeOK /\ [Next]_vars => TypeOK'
<1> SUFFICES ASSUME TypeOK, [Next]_vars PROVE TypeOK'
  OBVIOUS
<1>0. hour \in Hours /\ Day \in Days /\ hour # 0 /\ hour \in 0..MaxHour
  BY HourIsTyped
<1>1. ASSUME NEW c \in Cycles, Wake(c) PROVE TypeOK'
  <2>1. /\ llmHour' \in [Hours -> 0..CallsPerHour]
        /\ llmDay' \in [Days -> 0..CallsPerDay]
    BY <1>0, <1>1, BumpIsTyped, LimitsAssumption DEF Wake, CallAllowed, TypeOK
  <2>2. eligible' \subseteq Cycles /\ cycle' \in [Cycles -> {"none", "speak", "enrich", "over"}]
    BY <1>1 DEF Wake, TypeOK
  <2> QED
    BY <1>0, <1>1, <2>1, <2>2 DEF Wake, TypeOK, pump
<1>2. ASSUME NEW c \in Cycles, Call(c) PROVE TypeOK'
  <2>1. tries' \in [Cycles -> 0..Attempts]
    BY <1>2, AttemptsAssumption DEF Call, TypeOK
  <2> QED
    BY <1>2, <2>1 DEF Call, TypeOK, usage, pump, history
<1>3. ASSUME NEW c \in Cycles, Speak(c) PROVE TypeOK'
  <2>1. msgHour' \in [Hours -> 0..MessagesPerHour]
    BY <1>0, <1>3, BumpIsTyped, LimitsAssumption DEF Speak, MayCreate, MessageAllowed, TypeOK
  <2>2. status' \in [Cycles -> Status]
    BY <1>3 DEF Speak, Supersede, Status, TypeOK
  <2> QED
    BY <1>3, <2>1, <2>2 DEF Speak, TypeOK, history
<1>4. ASSUME NEW c \in Cycles, Silence(c) PROVE TypeOK'
  BY <1>4 DEF Silence, TypeOK, usage, pump, history
<1>5. CASE PassBegins
  <2>1. pass' = [now |-> hour, list |-> {c \in Cycles : status[c] = "PENDING" /\ report[c] = "none"},
                 air |-> {}]
    BY <1>5 DEF PassBegins, Idle
  <2>2. pass' \in Pass
    BY <1>0, <2>1 DEF Pass
  <2> QED
    BY <1>5, <2>2 DEF PassBegins, TypeOK, usage, history
<1>6. ASSUME NEW c \in Cycles, PassSends(c) PROVE TypeOK'
  <2>1. pass' \in Pass
    <3>1. pass \in [now : 0..MaxHour, list : SUBSET Cycles, air : SUBSET Cycles]
      BY DEF TypeOK, Pass
    <3>2. PICK dropped : pass' = [pass EXCEPT !.list = @ \ (dropped \cup {c}), !.air = {c}]
      BY <1>6 DEF PassSends
    <3>3. pass'.now = pass.now /\ pass'.list \subseteq pass.list /\ pass'.air = {c}
          /\ pass' = [now |-> pass'.now, list |-> pass'.list, air |-> pass'.air]
      BY <3>1, <3>2
    <3> QED
      BY <3>1, <3>3 DEF Pass
  <2>2. report' \in [Cycles -> Report]
    BY <1>6 DEF PassSends, TypeOK, Report
  <2> QED
    BY <1>6, <2>1, <2>2 DEF PassSends, TypeOK, usage, history
<1>7. CASE PassSkips
  <2>1. report' \in [Cycles -> Report]
    BY <1>7 DEF PassSkips, TypeOK, Report
  <2> QED
    BY <1>7, <2>1, IdleIsTyped DEF PassSkips, TypeOK, usage, history
<1>8. ASSUME NEW c \in Cycles, PassSent(c) PROVE TypeOK'
  <2>1. report' \in [Cycles -> Report]
    BY <1>8 DEF PassSent, TypeOK, Report
  <2>2. heard' \in [Cycles -> 0..MaxHour] /\ carried' \subseteq Cycles
    BY <1>0, <1>8 DEF PassSent, TypeOK
  <2> QED
    BY <1>8, <2>1, <2>2, IdleIsTyped DEF PassSent, TypeOK, usage
<1>9. ASSUME NEW c \in Cycles, Settle(c) PROVE TypeOK'
  <2>1. /\ status' \in [Cycles -> Status] /\ report' \in [Cycles -> Report]
        /\ revived' \in BOOLEAN
    BY <1>9 DEF Settle, TypeOK, Status, Report
  <2> QED
    BY <1>9, <2>1 DEF Settle, TypeOK, usage
<1>10. CASE HourPasses
  BY <1>10, TimeAssumption DEF HourPasses, TypeOK, Hours, usage, pump, history
<1>11. CASE Down
  <2>1. report' \in [Cycles -> Report] /\ tries' \in [Cycles -> 0..Attempts]
    BY <1>11, AttemptsAssumption DEF Down, Report
  <2> QED
    BY <1>11, <2>1, IdleIsTyped DEF Down, TypeOK, usage, history
<1>12. CASE Start
  BY <1>12 DEF Start, TypeOK, usage, history, Status
<1>13. CASE UNCHANGED vars
  BY <1>13 DEF TypeOK, vars, usage, pump, history
<1> QED
  BY <1>1, <1>2, <1>3, <1>4, <1>5, <1>6, <1>7, <1>8, <1>9, <1>10, <1>11, <1>12, <1>13 DEF Next

(* Every reachable state is well typed; no counter of budget_usage exceeds its *)
(* limit.                                                                   *)
THEOREM TypeCorrect == Spec => []TypeOK
BY InitTypes, StepTypes, PTL DEF Spec

-----------------------------------------------------------------------------
(* Enrichment cycles are silent.                                             *)

LEMMA InitCycles == Init => CycleInv /\ EnrichmentStaysSilent
BY DEF Init, CycleInv, EnrichmentStaysSilent, Idle

LEMMA StepCycles ==
  TypeOK /\ CycleInv /\ EnrichmentStaysSilent /\ [Next]_vars => CycleInv' /\ EnrichmentStaysSilent'
<1> SUFFICES ASSUME TypeOK, CycleInv, EnrichmentStaysSilent, [Next]_vars
             PROVE  CycleInv' /\ EnrichmentStaysSilent'
  OBVIOUS
<1> USE DEF CycleInv, EnrichmentStaysSilent, TypeOK, Pass
<1>1. ASSUME NEW c \in Cycles, Wake(c) PROVE CycleInv' /\ EnrichmentStaysSilent'
  BY <1>1 DEF Wake, pump
<1>2. ASSUME NEW c \in Cycles, Call(c) PROVE CycleInv' /\ EnrichmentStaysSilent'
  BY <1>2 DEF Call, pump, history
<1>3. ASSUME NEW c \in Cycles, Speak(c) PROVE CycleInv' /\ EnrichmentStaysSilent'
  <2>1. c \in eligible /\ eligible' = eligible /\ began' = began
    BY <1>3 DEF Speak, OutputEligible, history
  <2>2. \A d \in Cycles : IF d = c THEN status'[d] = "PENDING"
                           ELSE status'[d] = "none" <=> status[d] = "none"
    BY <1>3 DEF Speak, Supersede
  <2>3. cycle' = [cycle EXCEPT ![c] = "over"] /\ report' = report /\ pass' = pass
    BY <1>3 DEF Speak
  <2> QED
    BY <2>1, <2>2, <2>3
<1>4. ASSUME NEW c \in Cycles, Silence(c) PROVE CycleInv' /\ EnrichmentStaysSilent'
  BY <1>4 DEF Silence, Answered, pump, history
<1>5. CASE PassBegins
  BY <1>5 DEF PassBegins, Idle, history
<1>6. ASSUME NEW c \in Cycles, PassSends(c) PROVE CycleInv' /\ EnrichmentStaysSilent'
  BY <1>6 DEF PassSends, history
<1>7. CASE PassSkips
  BY <1>7 DEF PassSkips, MayDrop, Idle, history
<1>8. ASSUME NEW c \in Cycles, PassSent(c) PROVE CycleInv' /\ EnrichmentStaysSilent'
  BY <1>8 DEF PassSent, MayDrop, Idle
<1>9. ASSUME NEW c \in Cycles, Settle(c) PROVE CycleInv' /\ EnrichmentStaysSilent'
  BY <1>9 DEF Settle
<1>10. CASE HourPasses
  BY <1>10 DEF HourPasses, pump, history
<1>11. CASE Down
  BY <1>11 DEF Down, Idle, history
<1>12. CASE Start
  BY <1>12 DEF Start, history
<1>13. CASE UNCHANGED vars
  BY <1>13 DEF vars, pump, history
<1> QED
  BY <1>1, <1>2, <1>3, <1>4, <1>5, <1>6, <1>7, <1>8, <1>9, <1>10, <1>11, <1>12, <1>13 DEF Next

(* A cycle that was started only to enrich never has an outbound row.         *)
THEOREM EnrichmentStaysSilentHolds == Spec => []EnrichmentStaysSilent
<1>1. Spec => [](TypeOK /\ CycleInv /\ EnrichmentStaysSilent)
  BY InitTypes, StepTypes, InitCycles, StepCycles, PTL DEF Spec
<1> QED
  BY <1>1, PTL

-----------------------------------------------------------------------------
(* The counters count.                                                      *)

LEMMA InitCount == Init => CountInv
<1> SUFFICES ASSUME Init PROVE CountInv
  OBVIOUS
<1>1. \A h \in Hours : BeganIn(h) = {}
  BY TimeAssumption, SMT DEF Init, BeganIn, Hours
<1>2. \A d \in Days : CallsOnDay(d) = {}
  BY DEF Init, CallsOnDay
<1> QED
  BY <1>1, <1>2, FS_EmptySet DEF Init, CountInv

(* A set of cycles that takes in one more is finite, and one larger.          *)
LEMMA OneMore ==
  ASSUME NEW S \in SUBSET Cycles, NEW c \in Cycles \ S
  PROVE  Cardinality(S \cup {c}) = Cardinality(S) + 1
BY CyclesAssumption, FS_Subset, FS_AddElement

LEMMA WakeCounts ==
  ASSUME TypeOK, CycleInv, CountInv, NEW c \in Cycles, Wake(c)
  PROVE  CountInv'
<1>0. hour \in Hours /\ Day \in Days /\ hour # 0
  BY HourIsTyped
<1>1. /\ began[c] = 0 /\ began' = [began EXCEPT ![c] = hour]
      /\ llmHour' = [llmHour EXCEPT ![hour] = @ + 1]
      /\ llmDay' = [llmDay EXCEPT ![Day] = @ + 1]
  BY DEF Wake, CycleInv, Bump
<1>2. ASSUME NEW h \in Hours PROVE llmHour'[h] = Cardinality(BeganIn(h)')
  <2>1. CASE h = hour
    <3>1. c \notin BeganIn(h) /\ BeganIn(h)' = BeganIn(h) \cup {c}
      BY <1>0, <1>1, <2>1 DEF BeganIn, TypeOK
    <3>2. Cardinality(BeganIn(h)') = Cardinality(BeganIn(h)) + 1
      BY <3>1, OneMore DEF BeganIn
    <3> QED
      BY <1>1, <2>1, <3>2 DEF CountInv, TypeOK
  <2>2. CASE h # hour
    <3>1. BeganIn(h)' = BeganIn(h)
      BY <1>0, <1>1, <2>2, TimeAssumption DEF BeganIn, TypeOK, Hours
    <3> QED
      BY <1>1, <2>2, <3>1 DEF CountInv, TypeOK
  <2> QED
    BY <2>1, <2>2
<1>3. ASSUME NEW d \in Days PROVE llmDay'[d] = Cardinality(CallsOnDay(d)')
  <2>1. CASE d = Day
    <3>1. c \notin CallsOnDay(d) /\ CallsOnDay(d)' = CallsOnDay(d) \cup {c}
      BY <1>0, <1>1, <2>1 DEF CallsOnDay, TypeOK, Day
    <3>2. Cardinality(CallsOnDay(d)') = Cardinality(CallsOnDay(d)) + 1
      BY <3>1, OneMore DEF CallsOnDay
    <3> QED
      BY <1>1, <2>1, <3>2 DEF CountInv, TypeOK
  <2>2. CASE d # Day
    <3>1. CallsOnDay(d)' = CallsOnDay(d)
      BY <1>0, <1>1, <2>2 DEF CallsOnDay, TypeOK, Day
    <3> QED
      BY <1>1, <2>2, <3>1 DEF CountInv, TypeOK
  <2> QED
    BY <2>1, <2>2
<1> QED
  BY <1>2, <1>3 DEF CountInv

LEMMA StepCount == TypeOK /\ CycleInv /\ CountInv /\ [Next]_vars => CountInv'
<1> SUFFICES ASSUME TypeOK, CycleInv, CountInv, [Next]_vars PROVE CountInv'
  OBVIOUS
<1>1. ASSUME NEW c \in Cycles, Wake(c) PROVE CountInv'
  BY <1>1, WakeCounts
<1>2. ASSUME UNCHANGED <<began, llmHour, llmDay>> PROVE CountInv'
  BY <1>2 DEF CountInv, BeganIn, CallsOnDay
<1>3. CASE \/ \E c \in Cycles : \/ Call(c) \/ Speak(c) \/ Silence(c)
                               \/ PassSends(c) \/ PassSent(c) \/ Settle(c)
           \/ PassBegins \/ PassSkips \/ HourPasses \/ Down \/ Start \/ UNCHANGED vars
  BY <1>2, <1>3 DEF Call, Speak, Silence, PassSends, PassSent, Settle, PassBegins, PassSkips,
                    HourPasses, Down, Start, vars, usage, history
<1> QED
  BY <1>1, <1>3 DEF Next

(* A cycle makes at most Attempts calls in one life of the process.           *)
LEMMA CallsAreFew ==
  ASSUME NEW S \in SUBSET Cycles, NEW limit \in Nat, Cardinality(S) <= limit
  PROVE  Cardinality(CallsFor(S)) <= Attempts * limit
<1>1. IsFiniteSet(S) /\ Cardinality(S) \in Nat
  BY CyclesAssumption, FS_Subset, FS_CardinalityType
<1>2. IsFiniteSet(1..Attempts) /\ Cardinality(1..Attempts) = Attempts
  BY AttemptsAssumption, FS_Interval
<1>3. /\ IsFiniteSet(S \X (1..Attempts))
      /\ Cardinality(S \X (1..Attempts)) = Cardinality(S) * Attempts
  BY <1>1, <1>2, FS_Product
<1>4. CallsFor(S) \subseteq S \X (1..Attempts)
  BY DEF CallsFor
<1>5. /\ Cardinality(CallsFor(S)) <= Cardinality(S \X (1..Attempts))
      /\ Cardinality(CallsFor(S)) \in Nat
  BY <1>3, <1>4, FS_Subset, FS_CardinalityType
<1>6. \A n \in Nat : n <= limit => n * Attempts <= Attempts * limit
  BY AttemptsAssumption
<1> QED
  BY <1>1, <1>3, <1>5, <1>6, AttemptsAssumption

(* No hour and no day starts more proactive cycles than its limit of calls,   *)
(* and a life of the process makes at most Attempts calls for each.           *)
THEOREM CallsWithinBudgetHolds == Spec => []CallsWithinBudget
<1>1. TypeOK /\ CountInv => CallsWithinBudget
  <2> SUFFICES ASSUME TypeOK, CountInv, NEW h \in Hours
               PROVE  /\ Cardinality(BeganIn(h)) <= CallsPerHour
                      /\ Cardinality(BeganOn(h)) <= CallsPerDay
                      /\ Cardinality(CallsFor(BeganIn(h))) <= Attempts * CallsPerHour
                      /\ Cardinality(CallsFor(BeganOn(h))) <= Attempts * CallsPerDay
    BY DEF CallsWithinBudget
  <2>1. llmHour[h] \in 0..CallsPerHour /\ DayOf(h) \in Days
    BY DEF TypeOK, Days
  <2>2. llmDay[DayOf(h)] \in 0..CallsPerDay
    BY <2>1 DEF TypeOK
  <2>3. BeganOn(h) = CallsOnDay(DayOf(h))
    BY DEF BeganOn, CallsOnDay
  <2>4. Cardinality(BeganIn(h)) <= CallsPerHour /\ Cardinality(BeganOn(h)) <= CallsPerDay
    BY <2>1, <2>2, <2>3, LimitsAssumption DEF CountInv
  <2>5. BeganIn(h) \subseteq Cycles /\ BeganOn(h) \subseteq Cycles
    BY DEF BeganIn, BeganOn
  <2> QED
    BY <2>4, <2>5, CallsAreFew, LimitsAssumption
<1>2. Spec => [](TypeOK /\ CycleInv /\ EnrichmentStaysSilent /\ CountInv)
  BY InitTypes, StepTypes, InitCycles, StepCycles, InitCount, StepCount, PTL DEF Spec
<1> QED
  BY <1>1, <1>2, PTL

-----------------------------------------------------------------------------
(* What the human hears.                                                     *)

PendingRows == {c \in Cycles : status[c] = "PENDING"}
(* Heard in an hour by that hour's budget                                     *)
HeardIn(h)  == {c \in Cycles \ carried : heard[c] = h}
(* What may yet be heard by the budget of this hour: the pending rows, and     *)
(* those of a pass that began in it                                          *)
Listed == IF pass.now = hour THEN pass.list \cup pass.air ELSE {}
Coming == PendingRows \cup Listed

(* No message was heard or charged in an hour that is still to come.  A row    *)
(* is carried into an hour only by the pass that was suspended at its          *)
(* beginning, and while that pass runs none has been.                         *)
CarriedInv ==
  /\ pass.now <= hour
  /\ \A c \in Cycles : heard[c] <= hour
  /\ \A h \in Hours : h > hour => msgHour[h] = 0
  /\ pass # Idle /\ pass.now # hour => \A c \in carried : heard[c] # hour
  /\ \A c, d \in carried : heard[c] = heard[d] => c = d

(* Unless a superseded row came back, one row at most is pending, and what was *)
(* or may yet be heard by this hour's budget is charged to this hour but for   *)
(* one row; that one is sent only if the budget has room for it.              *)
HeardInv ==
  ~revived =>
    /\ \A c, d \in PendingRows : c = d
    /\ Cardinality(HeardIn(hour) \cup Coming) <= msgHour[hour] + 1
    /\ pass.now = hour /\ pass.air # {} => Cardinality(HeardIn(hour) \cup pass.air) <= MessagesPerHour
    /\ \A h \in Hours : Cardinality(HeardIn(h)) <= MessagesPerHour

(* Sets of cycles are finite; a smaller set has no more members.              *)
LEMMA Fewer ==
  ASSUME NEW T \in SUBSET Cycles, NEW S \in SUBSET T
  PROVE  /\ Cardinality(S) \in Nat /\ Cardinality(T) \in Nat
         /\ Cardinality(S) <= Cardinality(T)
<1>1. IsFiniteSet(T)
  BY CyclesAssumption, FS_Subset
<1> QED
  BY <1>1, FS_Subset, FS_CardinalityType

(* One more cycle adds at most one.                                          *)
LEMMA AtMostOneMore ==
  ASSUME NEW T \in SUBSET Cycles, NEW c \in Cycles, NEW S \in SUBSET (T \cup {c})
  PROVE  /\ Cardinality(S) \in Nat /\ Cardinality(T) \in Nat
         /\ Cardinality(S) <= Cardinality(T) + 1
<1>1. /\ Cardinality(S) \in Nat /\ Cardinality(T \cup {c}) \in Nat
      /\ Cardinality(S) <= Cardinality(T \cup {c})
  BY Fewer
<1>2. Cardinality(T) \in Nat
  BY Fewer
<1>3. CASE c \in T
  <2>1. T \cup {c} = T
    BY <1>3
  <2> QED
    BY <1>1, <1>2, <2>1
<1>4. CASE c \notin T
  BY <1>1, <1>2, <1>4, OneMore
<1> QED
  BY <1>3, <1>4

(* A set of cycles all of whose members are one has at most one member.       *)
LEMMA AtMostOne ==
  ASSUME NEW S \in SUBSET Cycles, \A c, d \in S : c = d
  PROVE  Cardinality(S) <= 1
<1>1. CASE S = {}
  BY <1>1, FS_EmptySet
<1>2. ASSUME NEW c \in S PROVE Cardinality(S) <= 1
  <2>1. S = {c}
    BY <1>2
  <2> QED
    BY <2>1, FS_Singleton
<1> QED
  BY <1>1, <1>2

LEMMA InitHeard == Init => CarriedInv /\ HeardInv
<1> SUFFICES ASSUME Init PROVE CarriedInv /\ HeardInv
  OBVIOUS
<1>1. hour = 1 /\ pass = Idle /\ carried = {} /\ 1 \in Hours /\ \A h \in Hours : msgHour[h] = 0
  BY TimeAssumption DEF Init, Hours
<1>2. Coming = {} /\ \A h \in Hours : HeardIn(h) = {}
  BY <1>1, TimeAssumption, SMT DEF Init, Coming, Listed, PendingRows, HeardIn, Hours, Idle
<1>3. CarriedInv
  BY <1>1 DEF Init, CarriedInv, Idle
<1>4. Cardinality(HeardIn(hour) \cup Coming) = 0 /\ \A h \in Hours : Cardinality(HeardIn(h)) = 0
  <2>1. HeardIn(hour) \cup Coming = {}
    BY <1>1, <1>2
  <2> QED
    BY <1>2, <2>1, FS_EmptySet
<1>5. PendingRows = {} /\ pass.air = {}
  BY <1>1, <1>2 DEF Coming, Idle
<1> QED
  BY <1>1, <1>3, <1>4, <1>5, LimitsAssumption DEF HeardInv

LEMMA StepCarried == TypeOK /\ CarriedInv /\ [Next]_vars => CarriedInv'
<1> SUFFICES ASSUME TypeOK, CarriedInv, [Next]_vars PROVE CarriedInv'
  OBVIOUS
<1>0. /\ hour \in Hours /\ hour \in Nat /\ heard \in [Cycles -> 0..MaxHour]
      /\ msgHour \in [Hours -> 0..MessagesPerHour] /\ MaxHour \in Nat
      /\ pass.now \in 0..MaxHour /\ carried \subseteq Cycles
  BY TimeAssumption DEF TypeOK, Hours, Pass
<1>1. ASSUME UNCHANGED <<hour, msgHour, heard, carried>>, pass' = pass \/ pass' = Idle PROVE CarriedInv'
  <2>1. pass'.now <= hour
    BY <1>0, <1>1 DEF CarriedInv, Idle
  <2>2. pass' # Idle => pass' = pass
    BY <1>1
  <2> QED
    BY <1>0, <1>1, <2>1, <2>2 DEF CarriedInv
<1>2. ASSUME NEW c \in Cycles, Speak(c) PROVE CarriedInv'
  <2>1. /\ msgHour' = [msgHour EXCEPT ![hour] = @ + 1]
        /\ UNCHANGED <<hour, heard, carried, pass>>
    BY <1>2 DEF Speak, history, Bump
  <2>2. \A h \in Hours : h > hour' => msgHour'[h] = 0
    BY <1>0, <2>1 DEF CarriedInv, Hours
  <2> QED
    BY <2>1, <2>2 DEF CarriedInv
<1>3. CASE PassBegins
  <2>1. pass'.now = hour /\ UNCHANGED <<hour, msgHour, heard, carried>>
    BY <1>3 DEF PassBegins, Idle, usage, history
  <2> QED
    BY <1>0, <2>1 DEF CarriedInv
<1>4. ASSUME NEW c \in Cycles, PassSends(c) PROVE CarriedInv'
  <2>1. pass'.now = pass.now /\ pass # Idle /\ UNCHANGED <<hour, msgHour, heard, carried>>
    BY <1>4 DEF PassSends, usage, history, TypeOK, Pass
  <2> QED
    BY <1>0, <2>1 DEF CarriedInv
<1>5. ASSUME NEW c \in Cycles, PassSent(c) PROVE CarriedInv'
  <2>1. pass' = Idle /\ pass # Idle /\ UNCHANGED <<hour, msgHour>>
    BY <1>5 DEF PassSent, usage, Idle
  <2>2. CASE UNCHANGED <<heard, carried>>
    BY <1>1, <2>1, <2>2
  <2>3. CASE /\ heard' = [heard EXCEPT ![c] = hour]
            /\ carried' = IF pass.now = hour THEN carried \ {c} ELSE carried \cup {c}
    <3>1. \A d \in Cycles : heard'[d] <= hour
      BY <1>0, <2>3 DEF CarriedInv
    <3>2. \A d, e \in carried' : heard'[d] = heard'[e] => d = e
      <4>1. CASE pass.now = hour
        BY <1>0, <2>3, <4>1 DEF CarriedInv
      <4>2. CASE pass.now # hour
        BY <1>0, <2>1, <2>3, <4>2 DEF CarriedInv
      <4> QED
        BY <4>1, <4>2
    <3>3. pass'.now <= hour
      BY <1>0, <2>1 DEF Idle
    <3> QED
      BY <2>1, <3>1, <3>2, <3>3 DEF CarriedInv
  <2> QED
    BY <1>5, <2>2, <2>3 DEF PassSent
<1>6. CASE HourPasses
  <2>1. /\ hour' = hour + 1 /\ hour' \in Hours
        /\ UNCHANGED <<msgHour, heard, carried, pass>>
    BY <1>6, TimeAssumption DEF HourPasses, usage, pump, history, TypeOK, Hours
  <2>2. \A d \in Cycles : heard[d] \in Nat /\ heard[d] <= hour
    BY <1>0 DEF CarriedInv
  <2>3. \A h \in Hours : h > hour' => msgHour'[h] = 0
    BY <1>0, <2>1 DEF CarriedInv, Hours
  <2> QED
    BY <1>0, <2>1, <2>2, <2>3 DEF CarriedInv
<1>7. CASE \/ \E c \in Cycles : Wake(c) \/ Call(c) \/ Silence(c) \/ Settle(c)
           \/ PassSkips \/ Down \/ Start \/ UNCHANGED vars
  BY <1>1, <1>7 DEF Wake, Call, Silence, Settle, PassSkips, Down, Start, vars, usage, pump, history
<1> QED
  BY <1>2, <1>3, <1>4, <1>5, <1>6, <1>7 DEF Next

(* A step of the same hour after which no more may be heard than before, and   *)
(* which puts nothing on the air.                                            *)
LEMMA NoNewRow ==
  ASSUME TypeOK, HeardInv, UNCHANGED <<hour, msgHour, heard, carried>>, ~revived' => ~revived,
         ~revived' => PendingRows' \subseteq PendingRows /\ Coming' \subseteq Coming,
         pass'.air = {} \/ pass' = pass
  PROVE  HeardInv'
<1>0. /\ hour \in Hours /\ msgHour[hour] \in Nat
  BY LimitsAssumption DEF TypeOK
<1>1. \A h : HeardIn(h)' = HeardIn(h)
  BY DEF HeardIn
<1>2. ASSUME ~revived' PROVE Cardinality(HeardIn(hour) \cup Coming') <= msgHour[hour] + 1
  <2> DEFINE Before == HeardIn(hour) \cup Coming
             After  == HeardIn(hour) \cup Coming'
  <2>1. Before \in SUBSET Cycles /\ After \in SUBSET Before
    BY <1>2 DEF HeardIn, Coming, PendingRows, Listed, TypeOK, Pass
  <2>2. Cardinality(Before) <= msgHour[hour] + 1
    BY <1>2 DEF HeardInv
  <2> HIDE DEF Before, After
  <2>3. Cardinality(After) <= msgHour[hour] + 1
    BY <1>0, <2>1, <2>2, Fewer
  <2> QED
    BY <2>3 DEF After
<1>3. HeardIn(hour)' = HeardIn(hour) /\ hour' = hour /\ msgHour' = msgHour
  BY DEF HeardIn
<1> QED
  BY <1>1, <1>2, <1>3 DEF HeardInv

(* A new row supersedes the pending ones and is charged to the hour.          *)
LEMMA SpeakHeard ==
  ASSUME TypeOK, CarriedInv, HeardInv, NEW c \in Cycles, Speak(c)
  PROVE  HeardInv'
<1>0. /\ hour \in Hours /\ msgHour \in [Hours -> 0..MessagesPerHour]
      /\ MessagesPerHour \in Nat /\ msgHour[hour] \in Nat /\ status \in [Cycles -> Status]
  BY LimitsAssumption DEF TypeOK
<1>1. /\ UNCHANGED <<hour, heard, carried, revived, pass>>
      /\ msgHour' = [msgHour EXCEPT ![hour] = @ + 1]
      /\ PendingRows' = {c}
  BY DEF Speak, history, Bump, Supersede, PendingRows
<1>2. (\A h : HeardIn(h)' = HeardIn(h)) /\ HeardIn(hour)' = HeardIn(hour) /\ Listed' = Listed
  BY <1>1 DEF HeardIn, Listed
<1>3. ASSUME ~revived PROVE Cardinality(HeardIn(hour) \cup Coming') <= msgHour'[hour] + 1
  <2> DEFINE Before == HeardIn(hour) \cup Coming
             After  == HeardIn(hour) \cup Coming'
  <2>1. Before \in SUBSET Cycles /\ After \in SUBSET (Before \cup {c})
    BY <1>1, <1>2 DEF HeardIn, Coming, PendingRows, Listed, TypeOK, Pass
  <2>2. Cardinality(Before) <= msgHour[hour] + 1 /\ msgHour'[hour] = msgHour[hour] + 1
    BY <1>0, <1>1, <1>3 DEF HeardInv
  <2> HIDE DEF Before, After
  <2>3. Cardinality(After) <= msgHour'[hour] + 1
    BY <1>0, <2>1, <2>2, AtMostOneMore
  <2> QED
    BY <2>3 DEF After
<1> QED
  BY <1>1, <1>2, <1>3 DEF HeardInv

(* A pass puts a row on the air only if the hour it began in has room for it.  *)
LEMMA SendHeard ==
  ASSUME TypeOK, HeardInv, NEW c \in Cycles, PassSends(c)
  PROVE  HeardInv'
<1>0. /\ hour \in Hours /\ msgHour[hour] \in Nat /\ MessagesPerHour \in Nat
  BY LimitsAssumption DEF TypeOK
<1>1. /\ UNCHANGED <<hour, msgHour, heard, carried, revived, status>>
      /\ pass'.now = pass.now /\ pass'.list \subseteq pass.list /\ pass'.air = {c}
      /\ c \in pass.list /\ MayTransport
  BY DEF PassSends, usage, history, TypeOK, Pass
<1>2. /\ PendingRows' = PendingRows /\ Coming' \subseteq Coming
      /\ (\A h : HeardIn(h)' = HeardIn(h)) /\ HeardIn(hour)' = HeardIn(hour)
  BY <1>1 DEF PendingRows, Coming, Listed, HeardIn
<1> DEFINE Before == HeardIn(hour) \cup Coming
<1>3. /\ Before \in SUBSET Cycles
      /\ HeardIn(hour) \cup Coming' \in SUBSET Before
      /\ pass.now = hour => HeardIn(hour) \cup {c} \in SUBSET Before
  BY <1>1, <1>2 DEF HeardIn, Coming, PendingRows, Listed, TypeOK, Pass
<1>4. ASSUME ~revived
      PROVE  /\ Cardinality(HeardIn(hour) \cup Coming') <= msgHour[hour] + 1
             /\ pass.now = hour => Cardinality(HeardIn(hour) \cup {c}) <= MessagesPerHour
  <2>1. Cardinality(Before) <= msgHour[hour] + 1
    BY <1>4 DEF HeardInv
  <2>2. pass.now = hour => msgHour[hour] + 1 <= MessagesPerHour
    BY <1>0, <1>1 DEF MayTransport
  <2> HIDE DEF Before
  <2> QED
    BY <1>0, <1>3, <2>1, <2>2, Fewer
<1> QED
  BY <1>1, <1>2, <1>4 DEF HeardInv

(* A broadcast comes to its end: the row was counted when it went on the air, *)
(* or it is carried over from an earlier hour.                                *)
LEMMA SentHeard ==
  ASSUME TypeOK, HeardInv, NEW c \in Cycles, PassSent(c)
  PROVE  HeardInv'
<1>0. /\ hour \in Hours /\ msgHour[hour] \in Nat /\ MessagesPerHour \in Nat
      /\ heard \in [Cycles -> 0..MaxHour] /\ carried \subseteq Cycles
      /\ pass.list \subseteq Cycles /\ pass.air \subseteq Cycles
  BY LimitsAssumption DEF TypeOK, Pass
<1>1. /\ UNCHANGED <<hour, msgHour, revived, status>>
      /\ pass' = Idle /\ c \in pass.air
  BY DEF PassSent, usage
<1>2. PendingRows' = PendingRows /\ Coming' \subseteq Coming /\ PendingRows \subseteq Coming /\ pass'.air = {}
  BY <1>1 DEF PendingRows, Coming, Listed, Idle
<1>3. CASE UNCHANGED <<heard, carried>>
  BY <1>1, <1>2, <1>3, NoNewRow
<1>4. CASE /\ heard' = [heard EXCEPT ![c] = hour]
          /\ carried' = IF pass.now = hour THEN carried \ {c} ELSE carried \cup {c}
  <2>1. \A h \in Hours : h # hour => HeardIn(h)' \subseteq HeardIn(h) /\ HeardIn(h) \subseteq Cycles
    BY <1>0, <1>4 DEF HeardIn
  <2>2. IF pass.now = hour THEN HeardIn(hour)' \subseteq HeardIn(hour) \cup pass.air
                           ELSE HeardIn(hour)' \subseteq HeardIn(hour)
    BY <1>0, <1>1, <1>4 DEF HeardIn
  <2>3. HeardIn(hour)' \cup Coming' \subseteq HeardIn(hour) \cup Coming
    BY <1>2, <2>2 DEF Coming, Listed
  <2>4. HeardIn(hour) \cup Coming \subseteq Cycles
    BY <1>0 DEF HeardIn, Coming, Listed, PendingRows
  <2>5. ASSUME ~revived
        PROVE  /\ Cardinality(HeardIn(hour)' \cup Coming') <= msgHour[hour] + 1
               /\ \A h \in Hours : Cardinality(HeardIn(h)') <= MessagesPerHour
    <3> DEFINE Before == HeardIn(hour) \cup Coming
               After  == HeardIn(hour)' \cup Coming'
               Air    == HeardIn(hour) \cup pass.air
               Now    == HeardIn(hour)
               Now1   == HeardIn(hour)'
    <3>1. /\ Cardinality(Before) <= msgHour[hour] + 1
          /\ \A h \in Hours : Cardinality(HeardIn(h)) <= MessagesPerHour
          /\ pass.now = hour => Cardinality(Air) <= MessagesPerHour
      BY <1>1, <2>5 DEF HeardInv
    <3>2. /\ After \in SUBSET Before /\ Before \in SUBSET Cycles
          /\ Air \in SUBSET Cycles /\ Now \in SUBSET Cycles
          /\ IF pass.now = hour THEN Now1 \in SUBSET Air ELSE Now1 \in SUBSET Now
      BY <1>0, <2>2, <2>3, <2>4 DEF HeardIn
    <3>3. Cardinality(Now) <= MessagesPerHour
      BY <1>0, <3>1
    <3>4. ASSUME NEW h \in Hours, h # hour PROVE Cardinality(HeardIn(h)') <= MessagesPerHour
      BY <1>0, <2>1, <3>1, <3>4, Fewer
    <3>7. \A h \in Hours : h = hour => HeardIn(h)' = Now1
      BY <1>1 DEF HeardIn
    <3> HIDE DEF Before, After, Air, Now, Now1
    <3>5. Cardinality(After) <= msgHour[hour] + 1
      BY <1>0, <3>1, <3>2, Fewer
    <3>6. Cardinality(Now1) <= MessagesPerHour
      BY <1>0, <3>1, <3>2, <3>3, Fewer
    <3>8. \A h \in Hours : Cardinality(HeardIn(h)') <= MessagesPerHour
      BY <3>4, <3>6, <3>7
    <3> QED
      BY <3>5, <3>8 DEF After
  <2>6. HeardIn(hour)' = {d \in Cycles \ carried' : heard'[d] = hour}
    BY <1>1 DEF HeardIn
  <2>7. (HeardIn(hour) \cup Coming)' = HeardIn(hour)' \cup Coming'
    OBVIOUS
  <2> QED
    BY <1>1, <1>2, <2>5, <2>7 DEF HeardInv
<1> QED
  BY <1>3, <1>4 DEF PassSent

(* In a new hour nothing was heard yet; one pending row at most is carried     *)
(* over, and what a pass still has is not of this hour.                        *)
LEMMA HourHeard ==
  ASSUME TypeOK, CarriedInv, HeardInv, HourPasses
  PROVE  HeardInv'
<1>1. /\ hour \in Nat /\ hour' = hour + 1 /\ hour' \in Hours
      /\ UNCHANGED <<msgHour, heard, carried, revived, status, pass>>
      /\ heard \in [Cycles -> 0..MaxHour] /\ pass.now \in 0..MaxHour /\ MaxHour \in Nat
  BY TimeAssumption DEF HourPasses, usage, pump, history, TypeOK, Hours, Pass
<1>2. \A c \in Cycles : heard[c] \in Nat /\ heard[c] <= hour
  BY <1>1 DEF CarriedInv
<1>3. PendingRows' = PendingRows /\ PendingRows \subseteq Cycles /\ pass'.now # hour'
  BY <1>1 DEF PendingRows, CarriedInv
<1>4. msgHour'[hour'] = 0
  BY <1>1 DEF CarriedInv
<1>5. ~revived => Cardinality(PendingRows) <= 1
  BY <1>3, AtMostOne DEF HeardInv
<1>6. (HeardIn(hour) \cup Coming)' = PendingRows
  BY <1>1, <1>2, <1>3 DEF HeardIn, Coming, Listed
<1>7. \A h : HeardIn(h)' = HeardIn(h)
  BY <1>1 DEF HeardIn
<1>8. ~revived => Cardinality((HeardIn(hour) \cup Coming)') <= msgHour'[hour'] + 1
  BY <1>4, <1>5, <1>6
<1>9. ~revived' => /\ ~revived /\ (\A c, d \in PendingRows' : c = d)
                  /\ \A h \in Hours : Cardinality(HeardIn(h)') <= MessagesPerHour
  BY <1>1, <1>3, <1>7 DEF HeardInv
<1> QED
  BY <1>3, <1>8, <1>9 DEF HeardInv

LEMMA StepHeard == TypeOK /\ CarriedInv /\ HeardInv /\ [Next]_vars => HeardInv'
<1> SUFFICES ASSUME TypeOK, CarriedInv, HeardInv, [Next]_vars PROVE HeardInv'
  OBVIOUS
<1>1. ASSUME UNCHANGED <<hour, msgHour, heard, carried, revived>>, PendingRows' \subseteq PendingRows,
             pass' = pass \/ pass' = Idle
      PROVE  HeardInv'
  <2>1. Coming' \subseteq Coming /\ (pass'.air = {} \/ pass' = pass)
    BY <1>1 DEF Coming, Listed, Idle
  <2> QED
    BY <1>1, <2>1, NoNewRow
<1>2. ASSUME NEW c \in Cycles, Wake(c) \/ Call(c) \/ Silence(c) PROVE HeardInv'
  BY <1>1, <1>2 DEF Wake, Call, Silence, PendingRows, usage, pump, history
<1>3. ASSUME NEW c \in Cycles, Speak(c) PROVE HeardInv'
  BY <1>3, SpeakHeard
<1>4. CASE PassBegins
  <2>1. /\ UNCHANGED <<hour, msgHour, heard, carried, revived, status>>
        /\ pass'.air = {} /\ pass'.list \subseteq PendingRows
    BY <1>4 DEF PassBegins, Idle, PendingRows, usage, history
  <2>2. PendingRows' = PendingRows /\ Coming' \subseteq Coming
    BY <2>1 DEF PendingRows, Coming, Listed
  <2> QED
    BY <2>1, <2>2, NoNewRow
<1>5. ASSUME NEW c \in Cycles, PassSends(c) PROVE HeardInv'
  BY <1>5, SendHeard
<1>6. CASE PassSkips
  BY <1>1, <1>6 DEF PassSkips, PendingRows, usage, history
<1>7. ASSUME NEW c \in Cycles, PassSent(c) PROVE HeardInv'
  BY <1>7, SentHeard
<1>8. ASSUME NEW c \in Cycles, Settle(c) PROVE HeardInv'
  <2>1. /\ UNCHANGED <<hour, msgHour, heard, carried, pass>>
        /\ revived' = (revived \/ (status[c] # "PENDING" /\ report[c] = "no_client"))
    BY <1>8 DEF Settle, usage
  <2>2. /\ \A d \in Cycles : d # c => status'[d] = status[d]
        /\ status'[c] = "PENDING" => report[c] = "no_client"
    BY <1>8 DEF Settle, TypeOK
  <2>3. ~revived' => PendingRows' \subseteq PendingRows
    BY <2>1, <2>2 DEF PendingRows
  <2>4. ~revived' => Coming' \subseteq Coming
    BY <2>1, <2>3 DEF Coming, Listed
  <2> QED
    BY <2>1, <2>3, <2>4, NoNewRow
<1>9. CASE HourPasses
  BY <1>9, HourHeard
<1>10. CASE Down
  BY <1>1, <1>10 DEF Down, PendingRows, usage, history
<1>11. CASE Start
  <2>1. PendingRows' \subseteq PendingRows
    BY <1>11 DEF Start, PendingRows
  <2> QED
    BY <1>1, <1>11, <2>1 DEF Start, usage, history
<1>12. CASE UNCHANGED vars
  BY <1>1, <1>12 DEF vars, PendingRows, usage, pump, history
<1> QED
  BY <1>2, <1>3, <1>4, <1>5, <1>6, <1>7, <1>8, <1>9, <1>10, <1>11, <1>12 DEF Next

(* Unless a superseded row comes back, the budget of an hour lets no more      *)
(* messages be heard in it than its limit, whichever hours they were charged   *)
(* to, and one at most is heard in it by the budget of an earlier hour.        *)
THEOREM HeardWithinBudgetHolds == Spec => []HeardWithinBudget
<1>1. HeardInv /\ CarriedInv => HeardWithinBudget
  BY DEF HeardInv, CarriedInv, HeardWithinBudget, HeardIn
<1>2. Spec => [](TypeOK /\ CarriedInv /\ HeardInv)
  BY InitTypes, StepTypes, InitHeard, StepCarried, StepHeard, PTL DEF Spec
<1> QED
  BY <1>1, <1>2, PTL

-----------------------------------------------------------------------------
(* The reasons in the report of the cycles (Traces), a system of its own.     *)

(* The words the handlers write into a note, the reasons a report may give,    *)
(* and where a cycle's model call stands.                                    *)
Words ==
  {"nothing", "low_worth", "llm", "budget", "blocked", "cooldown", "mode_suppresses", "quiet_hours",
   "enrichment_gated", "discourse_orphan", "continuity_repeat", "proactive_dispatch",
   "mandatory_response", "reactive_optional", "silence", "worker_failure", "parse_failure", "focus",
   "non_speak_for_mandatory", "newer_human", "candidate_resolved", "pre_outbox", "enrichment_only",
   "advancement", "orphan", "repeat"}
Verdicts == Buckets \cup {"open", "spoke", "chose_silence"}
Works == {"none", "open", "silent", "over", "lost"}

(* A row of cycle_traces.                                                    *)
TraceRow ==
  [trigger : {"wake", "human"}, type : {"proactive", "mandatory", "reactive", "none"},
   candidate : Candidates \cup {"none"}, llm : BOOLEAN,
   action : {"none", "speak", "silence", "failed"}, invalidated : BOOLEAN, note : SUBSET Words]

(* The row of a cycle whose model call runs still says what was dispatched:    *)
(* a result without a note of its own keeps that one.                        *)
AsDispatched(row) ==
  /\ row.action = "none"
  /\ row.trigger = "wake" => row.type = "proactive" /\ row.note = {"proactive_dispatch"}
  /\ row.trigger = "human" => \/ row.type = "mandatory" /\ row.note = {"mandatory_response"}
                              \/ row.type = "reactive" /\ row.note = {"reactive_optional"}

(* A wake is never counted as a reply, nor a message as a wake.               *)
Classed(row) ==
  /\ row.trigger = "wake" => row.type \in {"proactive", "none"}
  /\ row.trigger = "human" => row.type \in {"mandatory", "reactive", "none"}

(* ReasonIsTrue of one row.                                                  *)
SaysWhy(row, v) ==
  /\ Proactive(row) /\ Resolved(row) =>
       \/ Bucket(row) = v
       \/ Bucket(row) = "enrichment_gated" /\ \E g \in Gates : v = GateBucket(g)
  /\ ~Proactive(row) =>
       OutcomeNote(row) = IF v \in {"open", "spoke"} THEN "no note" ELSE v

(* Every row says why, and one that a result may still rewrite is as its       *)
(* dispatch left it.                                                        *)
RowsInv ==
  /\ log \in Seq(TraceRow) /\ work \in Seq(Works) /\ verdict \in Seq(Verdicts)
  /\ Len(work) = Len(log) /\ Len(verdict) = Len(log)
  /\ \A i \in 1..Len(log) :
       /\ Classed(log[i])
       /\ SaysWhy(log[i], verdict[i])
       /\ work[i] \in {"open", "silent"} => AsDispatched(log[i])

LEMMA InsertSays ==
  ASSUME RowsInv, NEW row \in TraceRow, NEW w \in Works, NEW v \in Verdicts,
         Classed(row), SaysWhy(row, v), w \in {"open", "silent"} => AsDispatched(row),
         Insert(row, w, v)
  PROVE  RowsInv'
<1>1. /\ log' = Append(log, row) /\ work' = Append(work, w) /\ verdict' = Append(verdict, v)
  BY DEF Insert
<1>2. /\ log' \in Seq(TraceRow) /\ work' \in Seq(Works) /\ verdict' \in Seq(Verdicts)
      /\ Len(log') = Len(log) + 1 /\ Len(work') = Len(log') /\ Len(verdict') = Len(log')
  BY <1>1 DEF RowsInv
<1>3. ASSUME NEW i \in 1..Len(log')
      PROVE  /\ Classed(log'[i])
             /\ SaysWhy(log'[i], verdict'[i])
             /\ work'[i] \in {"open", "silent"} => AsDispatched(log'[i])
  <2>1. CASE i = Len(log) + 1
    <3>1. log'[i] = row /\ work'[i] = w /\ verdict'[i] = v
      BY <1>1, <2>1 DEF RowsInv
    <3> QED
      BY <3>1, Zenon
  <2>2. CASE i # Len(log) + 1
    <3>1. i \in 1..Len(log) /\ log'[i] = log[i] /\ work'[i] = work[i] /\ verdict'[i] = verdict[i]
      BY <1>1, <1>2, <2>2 DEF RowsInv
    <3> QED
      BY <3>1, Zenon DEF RowsInv
  <2> QED
    BY <2>1, <2>2
<1> QED
  BY <1>2, <1>3 DEF RowsInv

(* The row of a cycle after finalize_trace.                                   *)
Written(row, action, invalidated, note, c) ==
  [row EXCEPT !.action = action, !.invalidated = invalidated,
              !.note = IF note = {} THEN @ ELSE note, !.candidate = c]

LEMMA FinalizeSays ==
  ASSUME RowsInv, NEW i \in 1..Len(log), NEW action \in {"speak", "silence", "failed"},
         NEW invalidated \in BOOLEAN, NEW note \in SUBSET Words, NEW v \in Verdicts,
         \A c \in Candidates \cup {"none"} :
           SaysWhy(Written(log[i], action, invalidated, note, c), v),
         Finalize(i, action, invalidated, note, v)
  PROVE  RowsInv'
<1>0. log[i] \in TraceRow /\ log \in Seq(TraceRow)
  BY DEF RowsInv
<1>1. PICK c \in Candidates \cup {"none"} :
        log' = [log EXCEPT ![i] = Written(log[i], action, invalidated, note, c)]
  <2>1. PICK c \in Candidates \cup {"none"} :
          log' = [log EXCEPT ![i].action = action, ![i].invalidated = invalidated,
                             ![i].note = IF note = {} THEN @ ELSE note, ![i].candidate = c]
    BY DEF Finalize, NoteAfter, NoNote, None
  <2> QED
    BY <1>0, <2>1 DEF Written
<1>2. /\ work' = [work EXCEPT ![i] = "over"] /\ verdict' = [verdict EXCEPT ![i] = v]
  BY DEF Finalize
<1>3. Written(log[i], action, invalidated, note, c) \in TraceRow
  BY <1>0 DEF Written, TraceRow
<1>4. /\ log' \in Seq(TraceRow) /\ work' \in Seq(Works) /\ verdict' \in Seq(Verdicts)
      /\ Len(log') = Len(log) /\ Len(work') = Len(log') /\ Len(verdict') = Len(log')
  BY <1>1, <1>2, <1>3 DEF RowsInv, Works
<1>6. Classed(Written(log[i], action, invalidated, note, c))
  <2>1. Classed(log[i])
    BY DEF RowsInv
  <2> QED
    BY <1>0, <2>1 DEF Classed, Written, TraceRow
<1>5. ASSUME NEW j \in 1..Len(log')
      PROVE  /\ Classed(log'[j])
             /\ SaysWhy(log'[j], verdict'[j])
             /\ work'[j] \in {"open", "silent"} => AsDispatched(log'[j])
  <2>1. CASE j = i
    <3>1. /\ log'[j] = Written(log[i], action, invalidated, note, c)
          /\ work'[j] = "over" /\ verdict'[j] = v
      BY <1>1, <1>2, <2>1 DEF RowsInv
    <3>2. /\ Classed(Written(log[i], action, invalidated, note, c))
          /\ SaysWhy(Written(log[i], action, invalidated, note, c), v)
      BY <1>0, <1>6
    <3>3. work'[j] \notin {"open", "silent"}
      BY <3>1
    <3> QED
      BY <3>1, <3>2, <3>3, Zenon
  <2>2. CASE j # i
    <3>1. j \in 1..Len(log) /\ log'[j] = log[j] /\ work'[j] = work[j] /\ verdict'[j] = verdict[j]
      BY <1>1, <1>2, <1>4, <2>2 DEF RowsInv
    <3> QED
      BY <3>1, Zenon DEF RowsInv
  <2> QED
    BY <2>1, <2>2
<1> QED
  BY <1>4, <1>5 DEF RowsInv

LEMMA InitSays == TraceInit => RowsInv
<1> SUFFICES ASSUME TraceInit PROVE RowsInv
  OBVIOUS
<1>1. ASSUME NEW row \in TraceRow, NEW v \in Verdicts,
             log = <<row>>, work = <<"none">>, verdict = <<v>>, Classed(row), SaysWhy(row, v)
      PROVE  RowsInv
  <2>1. \A i \in 1..Len(log) : i = 1 /\ log[i] = row /\ work[i] = "none" /\ verdict[i] = v
    BY <1>1
  <2>2. /\ log \in Seq(TraceRow) /\ work \in Seq(Works) /\ verdict \in Seq(Verdicts)
        /\ Len(work) = Len(log) /\ Len(verdict) = Len(log)
    BY <1>1 DEF Works
  <2> QED
    BY <1>1, <2>1, <2>2 DEF RowsInv
<1>2. CASE log = <<>> /\ work = <<>> /\ verdict = <<>>
  BY <1>2 DEF RowsInv
<1>3. CASE Legacy(WakeTrace(FALSE, "silence", {"nothing"}), "nothing")
  <2> DEFINE row == [WakeTrace(FALSE, "silence", {"nothing"}) EXCEPT !.type = "none"]
  <2>1. row \in TraceRow
    BY DEF WakeTrace, None, TraceRow, Words
  <2>2. Classed(row) /\ SaysWhy(row, "nothing")
    BY DEF Classed, SaysWhy, WakeTrace, None, Proactive, Bucket, Stale
  <2> QED
    BY <1>1, <1>3, <2>1, <2>2 DEF Legacy, None, Verdicts, Buckets
<1>4. CASE Legacy(HumanTrace("none", TRUE, "speak", {"mandatory_response"}), "spoke")
  <2> DEFINE row == [HumanTrace("none", TRUE, "speak", {"mandatory_response"}) EXCEPT !.type = "none"]
  <2>1. row \in TraceRow
    BY DEF HumanTrace, None, TraceRow, Words
  <2>2. Classed(row) /\ SaysWhy(row, "spoke")
    BY DEF Classed, SaysWhy, HumanTrace, None, Proactive, OutcomeNote
  <2> QED
    BY <1>1, <1>4, <2>1, <2>2 DEF Legacy, None, Verdicts, Buckets
<1>5. CASE Legacy(HumanTrace("none", TRUE, "failed", {"parse_failure"}), "failed")
  <2> DEFINE row == [HumanTrace("none", TRUE, "failed", {"parse_failure"}) EXCEPT !.type = "none"]
  <2>1. row \in TraceRow
    BY DEF HumanTrace, None, TraceRow, Words
  <2>2. Classed(row) /\ SaysWhy(row, "failed")
    BY DEF Classed, SaysWhy, HumanTrace, None, Proactive, OutcomeNote
  <2> QED
    BY <1>1, <1>5, <2>1, <2>2 DEF Legacy, None, Verdicts, Buckets
<1> QED
  BY <1>2, <1>3, <1>4, <1>5 DEF TraceInit, None

(* A wake that ends without a model call, whatever its note, if the note's     *)
(* bucket is the verdict, or hides which of the gates it was.                  *)
LEMMA WakeEndsSays ==
  ASSUME RowsInv, NEW note \in SUBSET Words, NEW v \in Verdicts,
         \/ Bucket(WakeTrace(FALSE, "silence", note)) = v
         \/ /\ Bucket(WakeTrace(FALSE, "silence", note)) = "enrichment_gated"
            /\ \E g \in Gates : v = GateBucket(g),
         WakeEnds(note, v)
  PROVE  RowsInv'
<1> DEFINE row == WakeTrace(FALSE, "silence", note)
<1>1. row \in TraceRow
  BY DEF WakeTrace, None, TraceRow
<1>2. row.trigger = "wake"
  BY DEF WakeTrace
<1>3. Classed(row) /\ SaysWhy(row, v)
  BY <1>2 DEF Classed, SaysWhy, Proactive, WakeTrace
<1>4. "none" \in Works /\ "none" \notin {"open", "silent"} /\ Insert(row, "none", v)
  BY DEF Works, WakeEnds
<1> HIDE DEF row
<1> QED
  BY <1>1, <1>3, <1>4, InsertSays

LEMMA WakeSays ==
  ASSUME RowsInv, WakeIdle \/ WakeSuppressed
  PROVE  RowsInv'
<1> USE DEF Words, Verdicts, Buckets
<1>1. ASSUME NEW note \in SUBSET Words,
             WakeEnds(note, Bucket(WakeTrace(FALSE, "silence", note))),
             Bucket(WakeTrace(FALSE, "silence", note)) \in Verdicts
      PROVE  RowsInv'
  BY <1>1, WakeEndsSays
<1>2. ASSUME NEW note \in {{"nothing"}, {"low_worth"}}
      PROVE  \A word \in note : Bucket(WakeTrace(FALSE, "silence", note)) = word
  BY <1>2 DEF Bucket, WakeTrace, Stale
<1>3. /\ Bucket(WakeTrace(FALSE, "silence", {"llm", "budget"})) = "budget"
      /\ Bucket(WakeTrace(FALSE, "silence", {"discourse_orphan"})) = "discourse_orphan_wake"
      /\ Bucket(WakeTrace(FALSE, "silence", {"continuity_repeat"})) = "continuity_repeat_wake"
  BY DEF Bucket, WakeTrace, Stale
<1>4. ASSUME NEW g \in Gates
      PROVE  /\ Bucket(WakeTrace(FALSE, "silence", {"blocked", g})) = GateBucket(g)
             /\ Bucket(WakeTrace(FALSE, "silence", {"enrichment_gated"})) = "enrichment_gated"
             /\ {"blocked", g} \in SUBSET Words /\ {"enrichment_gated"} \in SUBSET Words
             /\ GateBucket(g) \in Verdicts
  BY <1>4 DEF Bucket, WakeTrace, Stale, Gates, GateBucket
<1>5. CASE WakeIdle
  <2>1. CASE WakeEnds({"nothing"}, "nothing")
    BY <1>1, <1>2, <2>1
  <2>2. CASE WakeEnds({"low_worth"}, "low_worth")
    BY <1>1, <1>2, <2>2
  <2>3. CASE WakeEnds({"llm", "budget"}, "budget")
    BY <1>1, <1>3, <2>3
  <2> QED
    BY <1>5, <2>1, <2>2, <2>3 DEF WakeIdle
<1>6. CASE WakeSuppressed
  <2>1. ASSUME NEW g \in Gates, WakeEnds({"blocked", g}, GateBucket(g))
        PROVE  RowsInv'
    BY <1>4, <2>1, WakeEndsSays
  <2>2. ASSUME NEW g \in Gates, WakeEnds({"enrichment_gated"}, GateBucket(g))
        PROVE  RowsInv'
    BY <1>4, <2>2, WakeEndsSays
  <2>3. CASE WakeEnds({"discourse_orphan"}, "discourse_orphan_wake")
    BY <1>1, <1>3, <2>3
  <2>4. CASE WakeEnds({"continuity_repeat"}, "continuity_repeat_wake")
    BY <1>1, <1>3, <2>4
  <2> QED
    BY <1>6, <2>1, <2>2, <2>3, <2>4 DEF WakeSuppressed
<1> QED
  BY <1>5, <1>6

LEMMA DispatchSays ==
  ASSUME RowsInv, WakeDispatch
  PROVE  RowsInv'
<1> DEFINE row == WakeTrace(TRUE, None, {"proactive_dispatch"})
<1>1. PICK w \in {"open", "silent"} : Insert(row, w, "open")
  BY DEF WakeDispatch
<1>2. row \in TraceRow /\ w \in Works /\ "open" \in Verdicts
  BY DEF WakeTrace, None, TraceRow, Words, Works, Verdicts
<1>3. Classed(row) /\ SaysWhy(row, "open") /\ AsDispatched(row)
  BY DEF Classed, SaysWhy, AsDispatched, WakeTrace, None, Proactive, Resolved
<1> HIDE DEF row
<1> QED
  BY <1>1, <1>2, <1>3, InsertSays

LEMMA HumanSays ==
  ASSUME RowsInv, Human
  PROVE  RowsInv'
<1> USE DEF Words, Works, Verdicts
<1>1. CASE Insert(HumanTrace("mandatory", TRUE, None, {"mandatory_response"}), "open", "open")
  <2> DEFINE row == HumanTrace("mandatory", TRUE, None, {"mandatory_response"})
  <2>1. row \in TraceRow
    BY DEF HumanTrace, None, TraceRow
  <2>2. Classed(row) /\ SaysWhy(row, "open") /\ AsDispatched(row)
    BY DEF Classed, SaysWhy, AsDispatched, HumanTrace, None, Proactive, OutcomeNote
  <2>3. Insert(row, "open", "open")
    BY <1>1
  <2> HIDE DEF row
  <2> QED
    BY <2>1, <2>2, <2>3, InsertSays
<1>2. CASE Insert(HumanTrace("reactive", TRUE, None, {"reactive_optional"}), "open", "open")
  <2> DEFINE row == HumanTrace("reactive", TRUE, None, {"reactive_optional"})
  <2>1. row \in TraceRow
    BY DEF HumanTrace, None, TraceRow
  <2>2. Classed(row) /\ SaysWhy(row, "open") /\ AsDispatched(row)
    BY DEF Classed, SaysWhy, AsDispatched, HumanTrace, None, Proactive, OutcomeNote
  <2>3. Insert(row, "open", "open")
    BY <1>2
  <2> HIDE DEF row
  <2> QED
    BY <2>1, <2>2, <2>3, InsertSays
<1>3. CASE Insert(HumanTrace("reactive", FALSE, "silence", {"silence"}), "none", "chose_silence")
  <2> DEFINE row == HumanTrace("reactive", FALSE, "silence", {"silence"})
  <2>1. row \in TraceRow
    BY DEF HumanTrace, None, TraceRow
  <2>2. Classed(row) /\ SaysWhy(row, "chose_silence")
    BY DEF Classed, SaysWhy, HumanTrace, None, Proactive, OutcomeNote, SilenceNote
  <2>3. Insert(row, "none", "chose_silence")
    BY <1>3
  <2> HIDE DEF row
  <2> QED
    BY <2>1, <2>2, <2>3, InsertSays
<1> QED
  BY <1>1, <1>2, <1>3 DEF Human

(* What a result writes, it is enough to read in any row with the same words.  *)
LEMMA ResultSays ==
  ASSUME RowsInv, NEW i \in 1..Len(log), NEW action \in {"speak", "silence", "failed"},
         NEW invalidated \in BOOLEAN, NEW note \in SUBSET Words, NEW v \in Verdicts,
         \A row \in TraceRow :
           /\ row.trigger = log[i].trigger
           /\ row.action = action
           /\ row.invalidated <=> invalidated
           /\ row.note = IF note = {} THEN log[i].note ELSE note
           => SaysWhy(row, v),
         Finalize(i, action, invalidated, note, v)
  PROVE  RowsInv'
<1>1. log[i] \in TraceRow
  BY DEF RowsInv
<1>2. ASSUME NEW c \in Candidates \cup {"none"}
      PROVE  SaysWhy(Written(log[i], action, invalidated, note, c), v)
  <2> DEFINE row == Written(log[i], action, invalidated, note, c)
  <2>1. row \in TraceRow
    BY <1>1 DEF Written, TraceRow
  <2>2. /\ row.trigger = log[i].trigger /\ row.action = action
        /\ row.note = IF note = {} THEN log[i].note ELSE note
    BY <1>1 DEF Written, TraceRow
  <2>3. row.invalidated <=> invalidated
    BY <1>1 DEF Written, TraceRow
  <2> HIDE DEF row
  <2>4. SaysWhy(row, v)
    BY <2>1, <2>2, <2>3
  <2> QED
    BY <2>4 DEF row
<1> QED
  BY <1>2, FinalizeSays

(* The buckets of what _finish_proactive writes, or leaves of the dispatch.    *)
LEMMA DropBuckets ==
  ASSUME NEW row, row.action = "silence"
  PROVE  /\ row.note = {"proactive_dispatch"} => Bucket(row) = "model_silence"
         /\ row.note = {"enrichment_only"} => Bucket(row) = "enrichment_only"
         /\ \A why \in Stale :
              row.note = {"pre_outbox"} \cup {why} => Bucket(row) = "superseded"
         /\ \A g \in Gates :
              row.note = {"pre_outbox"} \cup {g} => Bucket(row) = GateBucket(g)
         /\ row.note = {"pre_outbox"} \cup {"continuity_repeat"} =>
              Bucket(row) = "continuity_repeat_recheck"
         /\ row.note = {"pre_outbox"} \cup {"discourse_orphan"} =>
              Bucket(row) = "discourse_orphan_recheck"
         /\ \A r \in {"orphan", "repeat"} :
              row.note = {"pre_outbox"} \cup {"advancement", r} => Bucket(row) = "advancement"
         /\ \A note \in {"worker_failure", "parse_failure"} :
              row.note = {note} => Bucket(row) = "failed"
<1> USE DEF Stale
<1>1. row.note = {"proactive_dispatch"} => Bucket(row) = "model_silence"
  BY DEF Bucket
<1>2. row.note = {"enrichment_only"} => Bucket(row) = "enrichment_only"
  BY DEF Bucket
<1>3. ASSUME NEW why \in Stale, row.note = {"pre_outbox"} \cup {why}
      PROVE  Bucket(row) = "superseded"
  BY <1>3 DEF Bucket
<1>4. ASSUME NEW g \in Gates, row.note = {"pre_outbox"} \cup {g}
      PROVE  Bucket(row) = GateBucket(g)
  BY <1>4 DEF Bucket, Gates, GateBucket
<1>5. /\ row.note = {"pre_outbox"} \cup {"continuity_repeat"} =>
           Bucket(row) = "continuity_repeat_recheck"
      /\ row.note = {"pre_outbox"} \cup {"discourse_orphan"} =>
           Bucket(row) = "discourse_orphan_recheck"
  BY DEF Bucket
<1>6. ASSUME NEW r \in {"orphan", "repeat"}, row.note = {"pre_outbox"} \cup {"advancement", r}
      PROVE  Bucket(row) = "advancement"
  BY <1>6 DEF Bucket
<1>7. ASSUME NEW note \in {"worker_failure", "parse_failure"}, row.note = {note}
      PROVE  Bucket(row) = "failed"
  BY <1>7 DEF Bucket
<1> QED
  BY <1>1, <1>2, <1>3, <1>4, <1>5, <1>6, <1>7

LEMMA SpeakSays ==
  ASSUME RowsInv, NEW i \in 1..Len(log), NEW note \in SUBSET Words,
         Finalize(i, "speak", FALSE, note, "spoke")
  PROVE  RowsInv'
<1>1. \A row \in TraceRow : row.action = "speak" => SaysWhy(row, "spoke")
  BY DEF SaysWhy, Resolved, OutcomeNote
<1>2. \A row \in TraceRow :
        /\ row.trigger = log[i].trigger
        /\ row.action = "speak"
        /\ row.invalidated <=> FALSE
        /\ row.note = IF note = {} THEN log[i].note ELSE note
        => SaysWhy(row, "spoke")
  BY <1>1
<1>3. "spoke" \in Verdicts
  BY DEF Verdicts
<1> QED
  BY <1>2, <1>3, ResultSays

LEMMA SilenceSays ==
  ASSUME RowsInv, NEW i \in 1..Len(log), NEW note \in SUBSET Words, NEW v \in Verdicts,
         \A row \in TraceRow :
           /\ row.trigger = log[i].trigger /\ row.action = "silence" /\ ~row.invalidated
           /\ row.note = IF note = {} THEN log[i].note ELSE note
           => SaysWhy(row, v),
         Finalize(i, "silence", FALSE, note, v)
  PROVE  RowsInv'
<1> DEFINE invalidated == FALSE
<1>1. /\ invalidated \in BOOLEAN /\ "silence" \in {"speak", "silence", "failed"}
      /\ Finalize(i, "silence", invalidated, note, v)
  OBVIOUS
<1>2. ASSUME NEW row \in TraceRow, row.trigger = log[i].trigger, row.action = "silence",
             row.invalidated <=> invalidated,
             row.note = IF note = {} THEN log[i].note ELSE note
      PROVE  SaysWhy(row, v)
  BY <1>2
<1> HIDE DEF invalidated
<1> QED
  BY <1>1, <1>2, ResultSays

LEMMA FailureSays ==
  ASSUME RowsInv, NEW i \in 1..Len(log), AsDispatched(log[i]), Fails(i)
  PROVE  RowsInv'
<1>1. PICK note \in {"worker_failure", "parse_failure"} :
        Finalize(i, IF log[i].type = "mandatory" THEN "failed" ELSE "silence",
                        FALSE, {note}, "failed")
  BY DEF Fails
<1>2. log[i] \in TraceRow /\ {note} \in SUBSET Words /\ "failed" \in Verdicts /\ {note} # {}
  BY DEF RowsInv, Words, Verdicts, Buckets
<1>3. CASE log[i].type = "mandatory"
  <2>1. ASSUME NEW row \in TraceRow, row.trigger = log[i].trigger, row.action = "failed"
        PROVE  SaysWhy(row, "failed")
    <3>1. row.trigger # "wake"
      BY <1>2, <1>3, <2>1 DEF AsDispatched, TraceRow
    <3> QED
      BY <2>1, <3>1 DEF SaysWhy, Proactive, OutcomeNote
  <2>2. Finalize(i, "failed", FALSE, {note}, "failed")
    BY <1>1, <1>3
  <2>3. FALSE \in BOOLEAN /\ "failed" \in {"speak", "silence", "failed"}
    OBVIOUS
  <2> QED
    BY <1>2, <2>1, <2>2, <2>3, ResultSays
<1>4. CASE log[i].type # "mandatory"
  <2>1. ASSUME NEW row \in TraceRow, row.action = "silence", ~row.invalidated,
               row.note = {note}
        PROVE  SaysWhy(row, "failed")
    <3>1. Bucket(row) = "failed"
      BY <2>1, DropBuckets
    <3>2. OutcomeNote(row) = "failed"
      BY <2>1 DEF OutcomeNote, SilenceNote
    <3> QED
      BY <3>1, <3>2 DEF SaysWhy
  <2>2. Finalize(i, "silence", FALSE, {note}, "failed")
    BY <1>1, <1>4
  <2>3. \A row \in TraceRow :
          /\ row.trigger = log[i].trigger /\ row.action = "silence" /\ ~row.invalidated
          /\ row.note = IF {note} = {} THEN log[i].note ELSE {note}
          => SaysWhy(row, "failed")
    BY <1>2, <2>1
  <2> QED
    BY <1>2, <2>2, <2>3, SilenceSays
<1> QED
  BY <1>3, <1>4

LEMMA ReplySays ==
  ASSUME RowsInv, NEW i \in 1..Len(log), AsDispatched(log[i]),
         FinishMandatory(i) \/ FinishReactive(i)
  PROVE  RowsInv'
<1>0. log[i] \in TraceRow
  BY DEF RowsInv
<1>1. log[i].type \in {"mandatory", "reactive"}
  BY DEF FinishMandatory, FinishReactive
<1>2. log[i].trigger = "human" /\ log[i].note \in {{"mandatory_response"}, {"reactive_optional"}}
  BY <1>0, <1>1 DEF AsDispatched, TraceRow
<1>3. \A note \in FocusNotes : note \in SUBSET Words
  BY DEF FocusNotes, NoNote, Words
<1>4. CASE Finalize(i, "failed", FALSE, {"non_speak_for_mandatory"}, "failed")
  <2>1. \A row \in TraceRow :
          row.trigger = log[i].trigger /\ row.action = "failed" => SaysWhy(row, "failed")
    BY <1>2 DEF SaysWhy, Proactive, OutcomeNote
  <2>2. {"non_speak_for_mandatory"} \in SUBSET Words /\ "failed" \in Verdicts
    BY DEF Words, Verdicts, Buckets
  <2> QED
    BY <1>4, <2>1, <2>2, ResultSays
<1>5. ASSUME NEW note \in FocusNotes, Finalize(i, "speak", FALSE, note, "spoke")
      PROVE  RowsInv'
  BY <1>3, <1>5, SpeakSays
<1>6. ASSUME NEW note \in FocusNotes,
             Finalize(i, "silence", FALSE, note, "chose_silence")
      PROVE  RowsInv'
  <2>1. ASSUME NEW row \in TraceRow, row.trigger = log[i].trigger, row.action = "silence",
               ~row.invalidated, row.note = IF note = {} THEN log[i].note ELSE note
        PROVE  SaysWhy(row, "chose_silence")
    <3>1. row.note \in {{"mandatory_response"}, {"reactive_optional"}, {"focus"}}
      BY <1>2, <1>6, <2>1 DEF FocusNotes, NoNote
    <3>2. row.note \cap {"worker_failure", "parse_failure"} = {}
      BY <3>1
    <3>3. OutcomeNote(row) = "chose_silence"
      BY <2>1, <3>2 DEF OutcomeNote, SilenceNote
    <3> QED
      BY <1>2, <2>1, <3>3 DEF SaysWhy, Proactive
  <2>2. note \in SUBSET Words /\ "chose_silence" \in Verdicts
    BY <1>3, <1>6 DEF Verdicts
  <2> QED
    BY <1>6, <2>1, <2>2, ResultSays
<1>7. ASSUME NEW why \in Stale, Finalize(i, "silence", TRUE, {why}, "superseded")
      PROVE  RowsInv'
  <2>1. ASSUME NEW row \in TraceRow, row.trigger = log[i].trigger, row.action = "silence",
               row.invalidated
        PROVE  SaysWhy(row, "superseded")
    <3>1. OutcomeNote(row) = "superseded"
      BY <2>1 DEF OutcomeNote, SilenceNote
    <3> QED
      BY <1>2, <2>1, <3>1 DEF SaysWhy, Proactive
  <2>2. {why} \in SUBSET Words /\ "superseded" \in Verdicts
    BY DEF Stale, Words, Verdicts, Buckets
  <2> QED
    BY <1>7, <2>1, <2>2, ResultSays
<1>8. CASE FinishMandatory(i)
  BY <1>4, <1>5, <1>8 DEF FinishMandatory
<1>9. CASE FinishReactive(i)
  BY <1>5, <1>6, <1>7, <1>9 DEF FinishReactive
<1> QED
  BY <1>8, <1>9

(* A proactive cycle dropped or silent: the note written, or the one kept, is  *)
(* in the verdict's bucket.                                                  *)
LEMMA SilentSays ==
  ASSUME RowsInv, NEW i \in 1..Len(log), AsDispatched(log[i]), log[i].type = "proactive",
         NEW invalidated \in BOOLEAN, NEW note \in SUBSET Words, NEW v \in Verdicts,
         \A row : /\ row.action = "silence"
                  /\ row.note = IF note = {} THEN {"proactive_dispatch"} ELSE note
                  => Bucket(row) = v,
         Finalize(i, "silence", invalidated, note, v)
  PROVE  RowsInv'
<1>1. log[i] \in TraceRow /\ log[i].trigger = "wake" /\ log[i].note = {"proactive_dispatch"}
  <2>1. log[i] \in TraceRow
    BY DEF RowsInv
  <2> QED
    BY <2>1 DEF TraceRow, AsDispatched
<1>2. ASSUME NEW row \in TraceRow, row.trigger = log[i].trigger, row.action = "silence",
             row.note = IF note = {} THEN log[i].note ELSE note
      PROVE  SaysWhy(row, v)
  <2>1. Bucket(row) = v
    BY <1>1, <1>2
  <2> QED
    BY <1>1, <1>2, <2>1 DEF SaysWhy, Proactive
<1> QED
  BY <1>2, ResultSays

LEMMA ProactiveSays ==
  ASSUME RowsInv, NEW i \in 1..Len(log), AsDispatched(log[i]), FinishProactive(i)
  PROVE  RowsInv'
<1>0. log[i].type = "proactive"
  BY DEF FinishProactive
<1>1. CASE Finalize(i, "silence", FALSE, NoNote, "model_silence")
  <2>1. NoNote = {} /\ {} \in SUBSET Words /\ "model_silence" \in Verdicts
    BY DEF NoNote, Verdicts, Buckets
  <2>2. \A row : row.action = "silence" /\ row.note = {"proactive_dispatch"}
                   => Bucket(row) = "model_silence"
    BY DropBuckets
  <2> QED
    BY <1>0, <1>1, <2>1, <2>2, SilentSays
<1>2. CASE Finalize(i, "silence", TRUE, {"enrichment_only"}, "enrichment_only")
  <2>1. {"enrichment_only"} \in SUBSET Words /\ "enrichment_only" \in Verdicts
    BY DEF Words, Verdicts, Buckets
  <2>2. \A row : row.action = "silence" /\ row.note = {"enrichment_only"}
                   => Bucket(row) = "enrichment_only"
    BY DropBuckets
  <2> QED
    BY <1>0, <1>2, <2>1, <2>2, SilentSays
<1>3. ASSUME NEW words \in SUBSET Words, NEW v \in Verdicts, Dropped(i, words, v),
             \A row : row.action = "silence" /\ row.note = {"pre_outbox"} \cup words
                        => Bucket(row) = v
      PROVE  RowsInv'
  <2>1. {"pre_outbox"} \cup words \in SUBSET Words /\ {"pre_outbox"} \cup words # {}
    BY DEF Words
  <2>2. Finalize(i, "silence", TRUE, {"pre_outbox"} \cup words, v)
    BY <1>3 DEF Dropped
  <2> QED
    BY <1>0, <1>3, <2>1, <2>2, SilentSays
<1>4. ASSUME NEW why \in Stale, Dropped(i, {why}, "superseded") PROVE RowsInv'
  <2>1. {why} \in SUBSET Words /\ "superseded" \in Verdicts
    BY DEF Stale, Words, Verdicts, Buckets
  <2> QED
    BY <1>3, <1>4, <2>1, DropBuckets
<1>5. ASSUME NEW g \in Gates, Dropped(i, {g}, GateBucket(g)) PROVE RowsInv'
  <2>1. {g} \in SUBSET Words /\ GateBucket(g) \in Verdicts
    BY DEF Gates, Words, Verdicts, Buckets, GateBucket
  <2> QED
    BY <1>3, <1>5, <2>1, DropBuckets
<1>6. CASE Dropped(i, {"continuity_repeat"}, "continuity_repeat_recheck")
  <2>1. {"continuity_repeat"} \in SUBSET Words /\ "continuity_repeat_recheck" \in Verdicts
    BY DEF Words, Verdicts, Buckets
  <2> QED
    BY <1>3, <1>6, <2>1, DropBuckets
<1>7. CASE Dropped(i, {"discourse_orphan"}, "discourse_orphan_recheck")
  <2>1. {"discourse_orphan"} \in SUBSET Words /\ "discourse_orphan_recheck" \in Verdicts
    BY DEF Words, Verdicts, Buckets
  <2> QED
    BY <1>3, <1>7, <2>1, DropBuckets
<1>8. ASSUME NEW r \in {"orphan", "repeat"}, Dropped(i, {"advancement", r}, "advancement")
      PROVE  RowsInv'
  <2>1. {"advancement", r} \in SUBSET Words /\ "advancement" \in Verdicts
    BY DEF Words, Verdicts, Buckets
  <2> QED
    BY <1>3, <1>8, <2>1, DropBuckets
<1>9. CASE Finalize(i, "speak", FALSE, NoNote, "spoke")
  <2>1. NoNote \in SUBSET Words
    BY DEF NoNote
  <2> QED
    BY <1>9, <2>1, SpeakSays
<1> QED
  BY <1>1, <1>2, <1>4, <1>5, <1>6, <1>7, <1>8, <1>9 DEF FinishProactive

LEMMA LostSays ==
  ASSUME RowsInv, NEW i \in 1..Len(log), ResultLost(i)
  PROVE  RowsInv'
<1>1. log' = log /\ verdict' = verdict /\ work' = [work EXCEPT ![i] = "lost"]
  BY DEF ResultLost
<1>2. work' \in Seq(Works) /\ Len(work') = Len(work)
  BY <1>1 DEF RowsInv, Works
<1>3. \A j \in 1..Len(log) : work'[j] \in {"open", "silent"} => work'[j] = work[j]
  BY <1>1 DEF RowsInv
<1> QED
  BY <1>1, <1>2, <1>3 DEF RowsInv

LEMMA ReportStep == RowsInv /\ [TraceNext]_traceVars => RowsInv'
<1> SUFFICES ASSUME RowsInv, [TraceNext]_traceVars PROVE RowsInv'
  OBVIOUS
<1>1. CASE WakeIdle \/ WakeSuppressed
  BY <1>1, WakeSays
<1>2. CASE WakeDispatch
  BY <1>2, DispatchSays
<1>3. CASE Human
  BY <1>3, HumanSays
<1>4. ASSUME NEW i \in 1..MaxCycles, ReduceResult(i) PROVE RowsInv'
  <2>1. Calling(i)
    BY <1>4 DEF ReduceResult
  <2>2. i \in 1..Len(log) /\ AsDispatched(log[i])
    BY <2>1 DEF Calling, RowsInv
  <2> QED
    BY <1>4, <2>2, FailureSays, ReplySays, ProactiveSays DEF ReduceResult
<1>5. ASSUME NEW i \in 1..MaxCycles, ResultLost(i) PROVE RowsInv'
  <2>1. i \in 1..Len(log)
    BY <1>5 DEF ResultLost, Calling, RowsInv
  <2> QED
    BY <1>5, <2>1, LostSays
<1>6. CASE RowAges \/ UNCHANGED traceVars
  BY <1>6 DEF RowAges, traceVars, RowsInv
<1> QED
  BY <1>1, <1>2, <1>3, <1>4, <1>5, <1>6 DEF TraceNext

(* The report blames the check that did stop the cycle, and the agent is never *)
(* told that a failure was a silence it chose: for any number of cycles, and   *)
(* whichever results rewrite the rows in whatever order.                     *)
THEOREM ReasonIsTrueHolds == TraceSpec => []ReasonIsTrue
<1>1. RowsInv => ReasonIsTrue
  <2>1. RowsInv => \A i \in DOMAIN log : SaysWhy(log[i], verdict[i])
    BY DEF RowsInv
  <2> QED
    BY <2>1, Zenon DEF SaysWhy, ReasonIsTrue
<1> QED
  BY <1>1, InitSays, ReportStep, PTL DEF TraceSpec

(* A finite set split in two counts as its parts.                             *)
LEMMA TwoParts ==
  ASSUME NEW S, IsFiniteSet(S), NEW A, NEW B, A \cup B = S, A \cap B = {}
  PROVE  /\ IsFiniteSet(A) /\ IsFiniteSet(B)
         /\ Cardinality(A) \in Nat /\ Cardinality(B) \in Nat
         /\ Cardinality(S) = Cardinality(A) + Cardinality(B)
<1>1. A \subseteq S /\ B \subseteq S
  OBVIOUS
<1>2. IsFiniteSet(A) /\ IsFiniteSet(B)
  BY <1>1, FS_Subset
<1>3. Cardinality(A) \in Nat /\ Cardinality(B) \in Nat
  BY <1>2, FS_CardinalityType
<1>4. Cardinality(A \cup B) = Cardinality(A) + Cardinality(B) - Cardinality(A \cap B)
  BY <1>2, FS_Union
<1>5. Cardinality(A \cap B) = 0
  BY FS_EmptySet
<1>6. Cardinality(A \cup B) = Cardinality(S)
  BY Zenon
<1> QED
  BY <1>2, <1>3, <1>4, <1>5, <1>6

LEMMA UpTo == ASSUME NEW n \in Nat PROVE IsFiniteSet(1..n) /\ Cardinality(1..n) = n
<1>1. 1 \in Int /\ n \in Int
  OBVIOUS
<1> QED
  BY <1>1, FS_Interval

(* Every cycle is in exactly one class of the report, and every proactive one   *)
(* was dispatched or blocked, however its row was rewritten.                    *)
LEMMA ClassesHold == ASSUME RowsInv PROVE ClassesAddUp
<1> DEFINE Is(t) == {i \in DOMAIN log : log[i].type = t}
           Wakes == {i \in DOMAIN log : log[i].trigger = "wake"}
           Others == {i \in DOMAIN log : log[i].trigger = "human" /\ log[i].type = "none"}
           Called == {i \in DOMAIN log : log[i].trigger = "wake" /\ log[i].llm}
           Blocked == {i \in DOMAIN log : log[i].trigger = "wake" /\ ~log[i].llm}
<1>1. DOMAIN log = 1..Len(log) /\ Len(log) \in Nat
  BY DEF RowsInv
<1>2. IsFiniteSet(DOMAIN log) /\ Cardinality(DOMAIN log) = Len(log)
  <2>1. IsFiniteSet(1..Len(log)) /\ Cardinality(1..Len(log)) = Len(log)
    BY <1>1, UpTo
  <2> QED
    BY <1>1, <2>1, Zenon
<1>3. \A i \in DOMAIN log : log[i].trigger \in {"wake", "human"} /\ Classed(log[i])
  <2>1. \A i \in 1..Len(log) : log[i] \in TraceRow /\ Classed(log[i])
    BY DEF RowsInv
  <2> QED
    BY <1>1, <2>1 DEF TraceRow
<1>4. /\ DOMAIN log = Wakes \cup (Is("reactive") \cup (Is("mandatory") \cup Others))
      /\ Wakes \cap (Is("reactive") \cup (Is("mandatory") \cup Others)) = {}
      /\ Is("reactive") \cap (Is("mandatory") \cup Others) = {}
      /\ Is("mandatory") \cap Others = {}
  BY <1>3 DEF Classed
<1>5. Wakes = Called \cup Blocked /\ Called \cap Blocked = {}
  OBVIOUS
<1>6. /\ TraceMetrics.total = Len(log)
      /\ TraceMetrics.proactive = Cardinality(Wakes)
      /\ TraceMetrics.dispatched = Cardinality(Called)
      /\ TraceMetrics.blocked = Cardinality(Blocked)
      /\ TraceMetrics.reactive = Cardinality(Is("reactive"))
      /\ TraceMetrics.mandatory = Cardinality(Is("mandatory"))
      /\ TraceMetrics.unclassified = Cardinality(Others)
  BY DEF TraceMetrics, HumanTotals, Count, Rows, Proactive, None
<1> HIDE DEF Is, Wakes, Others, Called, Blocked
<1>7. /\ IsFiniteSet(Wakes) /\ IsFiniteSet(Is("reactive") \cup (Is("mandatory") \cup Others))
      /\ Cardinality(Wakes) \in Nat
      /\ Len(log) = Cardinality(Wakes) + Cardinality(Is("reactive") \cup (Is("mandatory") \cup Others))
  BY <1>2, <1>4, TwoParts
<1>8. /\ IsFiniteSet(Is("mandatory") \cup Others) /\ Cardinality(Is("reactive")) \in Nat
      /\ Cardinality(Is("reactive") \cup (Is("mandatory") \cup Others))
           = Cardinality(Is("reactive")) + Cardinality(Is("mandatory") \cup Others)
  BY <1>4, <1>7, TwoParts
<1>9. /\ Cardinality(Is("mandatory")) \in Nat /\ Cardinality(Others) \in Nat
      /\ Cardinality(Is("mandatory") \cup Others) = Cardinality(Is("mandatory")) + Cardinality(Others)
  BY <1>4, <1>8, TwoParts
<1>10. Cardinality(Wakes) = Cardinality(Called) + Cardinality(Blocked)
  BY <1>5, <1>7, TwoParts
<1> QED
  BY <1>6, <1>7, <1>8, <1>9, <1>10 DEF ClassesAddUp

-----------------------------------------------------------------------------
(* Folds.  A fold of the community modules is a recursive function that       *)
(* CHOOSE picks; that one exists is itself proved by induction, and so is     *)
(* what it computes.  The induction is the first-order one below: a set that   *)
(* holds 0 and the successor of each of its numbers holds them all.           *)

(* Mathematical induction about a set: the least number outside it would have a *)
(* predecessor in it.                                                         *)
LEMMA Induct ==
  ASSUME NEW S, 0 \in S, \A n \in Nat : n \in S => n + 1 \in S
  PROVE  \A n \in Nat : n \in S
<1> DEFINE R == {ss \in Nat \X Nat : ss[1] < ss[2]}
           T == Nat \ S
<1>1. IsWellFoundedOn(R, Nat)
  BY NatLessThanWellFounded DEF OpToRel
<1>2. SUFFICES ASSUME T # {} PROVE FALSE
  OBVIOUS
<1>3. PICK x \in T : \A y \in T : ~(<<y, x>> \in R)
  <2> HIDE DEF R
  <2> QED
    BY <1>1, <1>2, WFMin
<1>4. x # 0 /\ x - 1 \in Nat /\ x - 1 \in S
  <2>1. x \in Nat /\ x # 0 /\ x - 1 \in Nat
    OBVIOUS
  <2>2. x - 1 \in T => <<x - 1, x>> \in R
    BY <2>1
  <2> QED
    BY <1>3, <2>1, <2>2
<1> QED
  BY <1>4

(* A non-empty set of numbers up to n has a largest one, which Max chooses.   *)
LEMMA LargestExists ==
  ASSUME NEW n \in Nat, NEW T \in SUBSET (1..n), T # {}
  PROVE  Max(T) \in T /\ \A y \in T : y <= Max(T)
<1> DEFINE S == {m \in Nat : m <= n => \A y \in T : y <= n - m}
<1>1. CASE \E x \in T : \A y \in T : x >= y
  <2>1. Max(T) \in T /\ \A y \in T : Max(T) >= y
    BY <1>1 DEF Max
  <2> QED
    BY <2>1
<1>2. CASE ~ \E x \in T : \A y \in T : x >= y
  <2>1. 0 \in S
    OBVIOUS
  <2>2. ASSUME NEW m \in Nat, m \in S PROVE m + 1 \in S
    <3>1. SUFFICES ASSUME m + 1 <= n, NEW y \in T PROVE y <= n - (m + 1)
      OBVIOUS
    <3>2. \A z \in T : z <= n - m /\ z \in Nat
      BY <2>2, <3>1
    <3>3. y # n - m
      BY <1>2, <3>2
    <3> QED
      BY <3>1, <3>2, <3>3
  <2>3. n \in S
    <3> HIDE DEF S
    <3> QED
      BY <2>1, <2>2, Induct
  <2>4. \A y \in T : y <= n - n
    BY <2>3
  <2>5. PICK y \in T : TRUE
    OBVIOUS
  <2>6. y \in 1..n /\ y <= n - n
    BY <2>4
  <2> QED
    BY <2>6
<1> QED
  BY <1>1, <1>2

(* f folds step over every subset of S from base, in the order pick takes them.  *)
Folds(f, S, pick, base, step) == \A T \in SUBSET S :
  f[T] = IF T = {} THEN base ELSE step[pick[T]][f[T \ {pick[T]}]]

(* pick takes from each non-empty subset of S one of its members.             *)
Picks(pick, S) == \A T \in SUBSET S : T # {} => pick[T] \in T

(* For a finite S there is such an f, and what it yields is of the type that the *)
(* steps keep: by induction on the size of the subsets.                       *)
LEMMA Iterates ==
  ASSUME NEW S, IsFiniteSet(S), NEW pick, Picks(pick, S),
         NEW V, NEW base \in V, NEW step \in [S -> [V -> V]]
  PROVE  \E f \in [SUBSET S -> V] : Folds(f, S, pick, base, step)
<1> DEFINE Small(n) == {T \in SUBSET S : Cardinality(T) <= n}
           Iter(f, n) == \A T \in Small(n) :
             f[T] = IF T = {} THEN base ELSE step[pick[T]][f[T \ {pick[T]}]]
           Has == {n \in Nat : \E f \in [Small(n) -> V] : Iter(f, n)}
<1>1. \A T \in SUBSET S : IsFiniteSet(T) /\ Cardinality(T) \in Nat /\ Cardinality(T) <= Cardinality(S)
                          /\ (Cardinality(T) = 0 <=> T = {})
  BY FS_Subset, FS_CardinalityType, FS_EmptySet
<1>2. \A T \in SUBSET S : T # {} =>
        /\ T \ {pick[T]} \in SUBSET S /\ pick[T] \in S
        /\ Cardinality(T \ {pick[T]}) = Cardinality(T) - 1
  BY <1>1, FS_RemoveElement DEF Picks
<1>3. 0 \in Has
  <2> DEFINE f == [T \in Small(0) |-> base]
  <2>1. \A T \in Small(0) : T = {}
    BY <1>1
  <2>2. f \in [Small(0) -> V] /\ Iter(f, 0)
    BY <2>1
  <2> QED
    BY <2>2
<1>4. ASSUME NEW n \in Nat, n \in Has PROVE n + 1 \in Has
  <2>1. PICK f \in [Small(n) -> V] : Iter(f, n)
    BY <1>4
  <2> DEFINE g == [T \in Small(n + 1) |->
                     IF T \in Small(n) THEN f[T] ELSE step[pick[T]][f[T \ {pick[T]}]]]
  <2>2. \A T \in Small(n + 1) : T # {} => T \ {pick[T]} \in Small(n) /\ pick[T] \in S
    BY <1>1, <1>2
  <2>3. {} \in Small(n) /\ Small(n) \subseteq Small(n + 1)
    BY <1>1
  <2>4. \A T \in Small(n + 1) : g[T] \in V
    <3> SUFFICES ASSUME NEW T \in Small(n + 1) PROVE g[T] \in V
      OBVIOUS
    <3>1. CASE T \in Small(n)
      BY <2>1, <3>1
    <3>2. CASE T \notin Small(n)
      <4>1. T # {}
        BY <2>3, <3>2
      <4>2. pick[T] \in S /\ f[T \ {pick[T]}] \in V
        BY <2>1, <2>2, <4>1
      <4>3. step[pick[T]] \in [V -> V]
        BY <4>2
      <4>4. step[pick[T]][f[T \ {pick[T]}]] \in V
        BY <4>2, <4>3
      <4> QED
        BY <3>2, <4>4
    <3> QED
      BY <3>1, <3>2
  <2>5. \A T \in Small(n + 1) :
          g[T] = IF T = {} THEN base ELSE step[pick[T]][g[T \ {pick[T]}]]
    <3> SUFFICES ASSUME NEW T \in Small(n + 1)
                 PROVE  g[T] = IF T = {} THEN base ELSE step[pick[T]][g[T \ {pick[T]}]]
      OBVIOUS
    <3>1. T # {} => g[T \ {pick[T]}] = f[T \ {pick[T]}]
      BY <2>2, <2>3
    <3>2. T \in Small(n) => f[T] = IF T = {} THEN base ELSE step[pick[T]][f[T \ {pick[T]}]]
      BY <2>1
    <3> QED
      BY <2>3, <3>1, <3>2
  <2> QED
    <3>1. g \in [Small(n + 1) -> V]
      BY <2>4
    <3>2. Iter(g, n + 1)
      BY <2>5
    <3>3. n + 1 \in Nat
      OBVIOUS
    <3> HIDE DEF g, Iter, Small
    <3> QED
      BY <3>1, <3>2, <3>3
<1>5. Cardinality(S) \in Has
  <2>1. Cardinality(S) \in Nat
    BY FS_CardinalityType
  <2> HIDE DEF Has
  <2> QED
    BY <1>3, <1>4, <2>1, Induct
<1>6. Small(Cardinality(S)) = SUBSET S
  BY <1>1
<1>7. PICK f \in [SUBSET S -> V] : Iter(f, Cardinality(S))
  BY <1>5, <1>6
<1>8. Folds(f, S, pick, base, step)
  BY <1>6, <1>7 DEF Folds
<1> QED
  BY <1>7, <1>8
-----------------------------------------------------------------------------
(* The same at the other end: the mirror image of the set has a largest number. *)
LEMMA SmallestExists ==
  ASSUME NEW n \in Nat, NEW T \in SUBSET (1..n), T # {}
  PROVE  Min(T) \in T /\ \A y \in T : Min(T) <= y
<1> DEFINE U == {x \in 1..n : n + 1 - x \in T}
<1>1. U \in SUBSET (1..n) /\ \A x \in T : x \in 1..n /\ n + 1 - x \in U
  OBVIOUS
<1>2. U # {}
  BY <1>1
<1>3. PICK x \in U : \A y \in U : y <= x
  <2> HIDE DEF U
  <2> QED
    BY <1>1, <1>2, LargestExists
<1>4. n + 1 - x \in T /\ \A y \in T : n + 1 - x <= y
  BY <1>1, <1>3
<1>5. \E z \in T : \A y \in T : z <= y
  BY <1>4
<1> QED
  BY <1>5 DEF Min

(* The order of FoldLeft: f[T] has taken the largest of T last.               *)
FoldsUp(f, n, base, step) == \A T \in SUBSET (1..n) :
  f[T] = IF T = {} THEN base ELSE step[Max(T)][f[T \ {Max(T)}]]

(* There is a fold from the left of every sequence of n steps.                *)
LEMMA FoldsLeft ==
  ASSUME NEW n \in Nat, NEW V, NEW base \in V, NEW step \in [1..n -> [V -> V]]
  PROVE  \E f \in [SUBSET (1..n) -> V] : FoldsUp(f, n, base, step)
<1> DEFINE S == 1..n
           pick == [T \in SUBSET S |-> Max(T)]
<1>1. IsFiniteSet(S)
  BY FS_Interval
<1>2. Picks(pick, S)
  BY LargestExists DEF Picks
<1>3. \A T \in SUBSET S : pick[T] = Max(T)
  OBVIOUS
<1>4. step \in [S -> [V -> V]]
  OBVIOUS
<1> HIDE DEF pick, S
<1>5. PICK f \in [SUBSET S -> V] : Folds(f, S, pick, base, step)
  BY <1>1, <1>2, <1>4, Iterates
<1>6. \A T \in SUBSET S :
        f[T] = IF T = {} THEN base ELSE step[Max(T)][f[T \ {Max(T)}]]
  BY <1>3, <1>5 DEF Folds
<1> QED
  BY <1>5, <1>6 DEF S, FoldsUp

(* Of the first k numbers the last is k, and without it the first k - 1 are left. *)
LEMMA FirstNumbers ==
  ASSUME NEW n \in Nat, NEW k \in 1..n
  PROVE  /\ 1..k \in SUBSET (1..n) /\ 1..k # {} /\ Max(1..k) = k
         /\ (1..k) \ {k} = 1..(k - 1)
<1>1. 1..k \in SUBSET (1..n) /\ k \in 1..k /\ (1..k) \ {k} = 1..(k - 1)
  OBVIOUS
<1>2. Max(1..k) \in 1..k /\ \A y \in 1..k : y <= Max(1..k)
  BY <1>1, LargestExists
<1>3. k <= Max(1..k) /\ Max(1..k) <= k /\ Max(1..k) \in Nat
  BY <1>1, <1>2
<1> QED
  BY <1>1, <1>3
-----------------------------------------------------------------------------
(* Clusters of what was voiced.                                              *)

(* What a row may name, a candidate or none, and clusters of such names.        *)
Voiced == Candidates \cup {"none"}
Clusters == Seq(Seq(Voiced))

(* Joining a candidate to clusters gives clusters; the first cluster it is near to *)
(* is one of them.                                                            *)
LEMMA JoinType ==
  ASSUME NEW cl \in Clusters, NEW c \in Voiced
  PROVE  /\ Join(cl, c) \in Clusters
         /\ NearTo(cl, c) \in SUBSET (1..Len(cl)) /\ Len(cl) \in Nat
         /\ NearTo(cl, c) # {} =>
              /\ Min(NearTo(cl, c)) \in NearTo(cl, c)
              /\ \A j \in NearTo(cl, c) : Min(NearTo(cl, c)) <= j
<1>1. DOMAIN cl = 1..Len(cl) /\ Len(cl) \in Nat
  BY DEF Clusters
<1>2. NearTo(cl, c) \in SUBSET (1..Len(cl))
  BY <1>1 DEF NearTo
<1>3. ASSUME NearTo(cl, c) # {}
      PROVE  /\ Min(NearTo(cl, c)) \in NearTo(cl, c)
             /\ \A j \in NearTo(cl, c) : Min(NearTo(cl, c)) <= j
  BY <1>1, <1>2, <1>3, SmallestExists
<1>4. Join(cl, c) \in Clusters
  <2>1. CASE Hole(c)
    BY <2>1 DEF Join
  <2>2. CASE ~Hole(c) /\ NearTo(cl, c) = {}
    BY <2>2 DEF Join, Clusters
  <2>3. CASE ~Hole(c) /\ NearTo(cl, c) # {}
    <3> DEFINE j == Min(NearTo(cl, c))
    <3>1. j \in 1..Len(cl)
      BY <1>2, <1>3, <2>3
    <3>2. cl[j] \in Seq(Voiced)
      BY <3>1 DEF Clusters
    <3>3. Append(cl[j], c) \in Seq(Voiced)
      BY <3>2
    <3>4. Join(cl, c) = [cl EXCEPT ![j] = Append(cl[j], c)]
      BY <2>3 DEF Join
    <3> HIDE DEF j
    <3> QED
      BY <3>1, <3>3, <3>4 DEF Clusters
  <2> QED
    BY <2>1, <2>2, <2>3
<1> QED
  BY <1>1, <1>2, <1>3, <1>4

(* Clusters form one candidate at a time: the fold that Dominance reads is the last *)
(* of a chain g of clusterings, each the one before with one candidate joined. *)
LEMMA Clustering ==
  ASSUME NEW s \in Seq(Voiced)
  PROVE  \E g : /\ g[0] = <<>>
                /\ \A k \in 1..Len(s) : g[k] = Join(g[k - 1], s[k])
                /\ FoldLeft(Join, <<>>, s) = g[Len(s)]
<1> DEFINE n == Len(s)
           Def(f) == [T \in SUBSET DOMAIN s |->
                        IF T = {} THEN <<>>
                        ELSE Join(f[T \ {Max(T)}], s[Max(T)])]
           iter == CHOOSE f : f = Def(f)
           step == [i \in 1..n |-> [v \in Clusters |-> Join(v, s[i])]]
<1>1. DOMAIN s = 1..n /\ n \in Nat /\ \A i \in 1..n : s[i] \in Voiced
  OBVIOUS
<1>2. step \in [1..n -> [Clusters -> Clusters]]
  BY <1>1, JoinType
<1>3. <<>> \in Clusters
  BY DEF Clusters
<1>4. PICK f \in [SUBSET (1..n) -> Clusters] : FoldsUp(f, n, <<>>, step)
  <2> HIDE DEF step, n
  <2> QED
    BY <1>1, <1>2, <1>3, FoldsLeft
<1>5. f = Def(f)
  <2>1. ASSUME NEW T \in SUBSET (1..n), T # {}
        PROVE  f[T] = Join(f[T \ {Max(T)}], s[Max(T)])
    <3>1. Max(T) \in 1..n /\ T \ {Max(T)} \in SUBSET (1..n)
      BY <1>1, <2>1, LargestExists
    <3>2. f[T \ {Max(T)}] \in Clusters
      BY <1>4, <3>1
    <3> QED
      BY <1>4, <2>1, <3>1, <3>2 DEF FoldsUp
  <2>2. f[{}] = <<>>
    BY <1>4 DEF FoldsUp
  <2> QED
    BY <1>1, <1>4, <2>1, <2>2
<1>6. iter = Def(iter)
  <2> HIDE DEF Def
  <2> QED
    BY <1>5
<1>7. \A T \in SUBSET (1..n) : iter[T] = IF T = {} THEN <<>>
        ELSE Join(iter[T \ {Max(T)}], s[Max(T)])
  <2>1. Def(iter) = [T \in SUBSET (1..n) |-> IF T = {} THEN <<>>
                        ELSE Join(iter[T \ {Max(T)}], s[Max(T)])]
    BY <1>1
  <2> HIDE DEF iter, Def
  <2> QED
    BY <1>6, <2>1
<1>8. FoldLeft(Join, <<>>, s) = iter[1..n]
  BY <1>1, Zenon DEF FoldLeft, MapThenFoldSet
<1> DEFINE g == [k \in 0..n |-> iter[1..k]]
<1> HIDE DEF iter, Def, step
<1>9. 1..0 = {} /\ 0 \in 0..n /\ n \in 0..n
  BY <1>1
<1>10. g[0] = <<>>
  BY <1>7, <1>9
<1>11. ASSUME NEW k \in 1..n PROVE g[k] = Join(g[k - 1], s[k])
  <2>1. /\ 1..k \in SUBSET (1..n) /\ 1..k # {} /\ Max(1..k) = k
        /\ (1..k) \ {k} = 1..(k - 1)
    BY <1>1, FirstNumbers
  <2>2. iter[1..k] = Join(iter[1..(k - 1)], s[k])
    BY <1>7, <2>1
  <2>3. g[k] = iter[1..k] /\ g[k - 1] = iter[1..(k - 1)]
    BY <1>1
  <2> QED
    BY <2>2, <2>3
<1>12. FoldLeft(Join, <<>>, s) = g[n]
  BY <1>8, <1>9
<1> QED
  <2> HIDE DEF g
  <2> QED
    BY <1>10, <1>11, <1>12

(* Where c occurs among the first k of s.                                     *)
Times(s, c, k) == {i \in 1..k : s[i] = c}

(* After k of the candidates: clusters are not empty and no larger than k, and  *)
(* the first one that c is near to holds every c so far.                      *)
Gathered(cl, s, c, k) ==
  /\ cl \in Clusters
  /\ \A j \in 1..Len(cl) : Len(cl[j]) \in 1..k
  /\ Times(s, c, k) # {} =>
       /\ NearTo(cl, c) # {}
       /\ Len(cl[Min(NearTo(cl, c))]) >= Cardinality(Times(s, c, k))

(* One more of the sequence is one more time of c, or none.                   *)
LEMMA OneMoreTime ==
  ASSUME NEW s, NEW c, NEW k \in Nat
  PROVE  /\ Cardinality(Times(s, c, k)) \in Nat
         /\ s[k + 1] # c => Times(s, c, k + 1) = Times(s, c, k)
         /\ s[k + 1] = c => Times(s, c, k + 1) # {}
                          /\ Cardinality(Times(s, c, k + 1)) = Cardinality(Times(s, c, k)) + 1
<1>1. IsFiniteSet(1..k) /\ Times(s, c, k) \in SUBSET (1..k)
  BY FS_Interval DEF Times
<1>2. IsFiniteSet(Times(s, c, k)) /\ Cardinality(Times(s, c, k)) \in Nat
  BY <1>1, FS_Subset, FS_CardinalityType
<1>3. 1..(k + 1) = (1..k) \cup {k + 1} /\ k + 1 \notin 1..k
  OBVIOUS
<1>4. s[k + 1] # c => Times(s, c, k + 1) = Times(s, c, k)
  BY <1>3 DEF Times
<1>5. ASSUME s[k + 1] = c
      PROVE  /\ Times(s, c, k + 1) # {}
             /\ Cardinality(Times(s, c, k + 1)) = Cardinality(Times(s, c, k)) + 1
  <2>1. Times(s, c, k + 1) = Times(s, c, k) \cup {k + 1} /\ k + 1 \notin Times(s, c, k)
    BY <1>3, <1>5 DEF Times
  <2> QED
    BY <1>2, <2>1, FS_AddElement
<1> QED
  BY <1>2, <1>4, <1>5

(* A candidate joins the first cluster whose opener it resembles, and openers never *)
(* change: so whatever joined in between, every c joined the same cluster, the first *)
(* one c is near to.                                                          *)
LEMMA JoinGathers ==
  ASSUME NEW s, NEW k \in Nat, s[k + 1] \in Voiced, NEW c \in Candidates, Placed(c),
         NEW cl, Gathered(cl, s, c, k)
  PROVE  Gathered(Join(cl, s[k + 1]), s, c, k + 1)
<1> DEFINE d == s[k + 1]
           next == Join(cl, d)
           near(x) == NearTo(x, c)
<1>1. cl \in Clusters /\ d \in Voiced /\ c \in Voiced
  BY DEF Gathered, Voiced
<1>2. /\ Len(cl) \in Nat /\ DOMAIN cl = 1..Len(cl)
      /\ \A j \in 1..Len(cl) : cl[j] \in Seq(Voiced) /\ Len(cl[j]) \in 1..k /\ cl[j] # <<>>
  BY <1>1 DEF Clusters, Gathered
<1>3. next \in Clusters
  BY <1>1, JoinType
<1>4. /\ near(cl) \in SUBSET (1..Len(cl))
      /\ near(cl) # {} => /\ Min(near(cl)) \in near(cl)
                          /\ \A j \in near(cl) : Min(near(cl)) <= j
  BY <1>1, JoinType
<1>5. /\ Cardinality(Times(s, c, k)) \in Nat
      /\ d # c => Times(s, c, k + 1) = Times(s, c, k)
      /\ d = c => Times(s, c, k + 1) # {}
                  /\ Cardinality(Times(s, c, k + 1)) = Cardinality(Times(s, c, k)) + 1
  BY OneMoreTime
<1>6. Times(s, c, k) = {} => Cardinality(Times(s, c, k)) = 0
  BY FS_EmptySet
<1>7. Times(s, c, k) # {} => near(cl) # {} /\ Len(cl[Min(near(cl))]) >= Cardinality(Times(s, c, k))
  BY DEF Gathered
<1>8. CASE Hole(d)
  <2>1. next = cl /\ d # c
    BY <1>8 DEF Join, Placed
  <2> QED
    BY <1>2, <1>3, <1>5, <1>7, <2>1 DEF Gathered
<1>9. CASE ~Hole(d) /\ NearTo(cl, d) = {}
  <2>1. next = Append(cl, <<d>>)
    BY <1>9 DEF Join
  <2>2. /\ Len(next) = Len(cl) + 1 /\ DOMAIN next = 1..(Len(cl) + 1)
        /\ \A j \in 1..Len(cl) : next[j] = cl[j]
        /\ next[Len(cl) + 1] = <<d>>
    BY <1>1, <1>2, <2>1 DEF Clusters
  <2>3. \A j \in 1..Len(next) : Len(next[j]) \in 1..(k + 1)
    <3>1. \A j \in 1..Len(cl) : Len(next[j]) \in 1..(k + 1)
      <4>1. 1..k \subseteq 1..(k + 1)
        OBVIOUS
      <4> HIDE DEF next, d
      <4> QED
        BY <1>2, <2>2, <4>1
    <3>2. Len(<<d>>) = 1 /\ 1 \in 1..(k + 1)
      OBVIOUS
    <3>3. \A j \in 1..(Len(cl) + 1) : j \in 1..Len(cl) \/ j = Len(cl) + 1
      BY <1>2
    <3> HIDE DEF next, d
    <3> QED
      BY <2>2, <3>1, <3>2, <3>3
  <2>4. near(cl) = near(next) \cap (1..Len(cl))
    BY <1>2, <2>2 DEF NearTo
  <2>5. d = c => near(cl) = {} /\ near(next) = {Len(cl) + 1}
    <3>1. d = c => near(cl) = {}
      BY <1>9
    <3>2. d = c => Len(cl) + 1 \in near(next)
      BY <2>2 DEF NearTo, Within, Placed
    <3>3. near(next) \in SUBSET (1..(Len(cl) + 1))
      BY <2>2 DEF NearTo
    <3> QED
      BY <1>2, <2>4, <3>1, <3>2, <3>3
  <2>6. CASE d = c
    <3>1. Cardinality(Times(s, c, k + 1)) = 1
      BY <1>5, <1>6, <1>7, <2>5, <2>6
    <3>2. Min({Len(cl) + 1}) = Len(cl) + 1
      BY DEF Min
    <3>3. Len(<<d>>) = 1
      OBVIOUS
    <3>4. near(next) # {} /\ Len(next[Min(near(next))]) >= Cardinality(Times(s, c, k + 1))
      <4>1. near(next) = {Len(cl) + 1}
        BY <2>5, <2>6
      <4>2. Min(near(next)) = Len(cl) + 1
        BY <3>2, <4>1, Zenon
      <4>3. Len(next[Min(near(next))]) = 1
        BY <2>2, <3>3, <4>2, Zenon
      <4> HIDE DEF near, next
      <4> QED
        BY <3>1, <4>1, <4>3
    <3> QED
      BY <1>3, <2>3, <3>4 DEF Gathered
  <2>7. CASE d # c
    <3>1. Times(s, c, k) # {} => Min(near(next)) = Min(near(cl))
      <4> SUFFICES ASSUME Times(s, c, k) # {} PROVE Min(near(next)) = Min(near(cl))
        OBVIOUS
      <4>1. near(next) \in SUBSET (1..(Len(cl) + 1))
        BY <2>2 DEF NearTo
      <4>2. near(cl) # {} /\ near(next) # {}
        BY <1>7, <2>4
      <4>3. /\ Min(near(next)) \in near(next)
            /\ \A j \in near(next) : Min(near(next)) <= j
        <5> DEFINE T == near(next)
                   N == Len(cl) + 1
        <5>1. N \in Nat /\ T \in SUBSET (1..N) /\ T # {}
          BY <1>2, <4>1, <4>2
        <5> HIDE DEF T, N
        <5>2. Min(T) \in T /\ \A j \in T : Min(T) <= j
          BY <5>1, SmallestExists
        <5> QED
          BY <5>2 DEF T
      <4> DEFINE old == Min(near(cl))
                 new == Min(near(next))
      <4>4. old \in 1..Len(cl) /\ old \in near(next) /\ new \in 1..(Len(cl) + 1) /\ new <= old
        BY <1>4, <2>4, <4>1, <4>2, <4>3
      <4>5. new \in near(cl)
        <5>1. new \in 1..Len(cl)
          BY <1>2, <4>4
        <5> QED
          BY <2>4, <4>3, <5>1
      <4>6. old <= new
        BY <1>4, <4>2, <4>5
      <4> HIDE DEF old, new
      <4>7. old = new
        BY <1>2, <4>4, <4>6
      <4> QED
        BY <4>7 DEF old, new
    <3>2. Times(s, c, k) # {} => near(next) # {} /\ Min(near(cl)) \in 1..Len(cl)
      BY <1>4, <1>7, <2>4
    <3> QED
      BY <1>3, <1>5, <1>7, <2>2, <2>3, <2>7, <3>1, <3>2 DEF Gathered
  <2> QED
    BY <2>6, <2>7
<1>10. CASE ~Hole(d) /\ NearTo(cl, d) # {}
  <2> DEFINE j == Min(NearTo(cl, d))
  <2>1. next = [cl EXCEPT ![j] = Append(cl[j], d)]
    BY <1>10 DEF Join
  <2>2. j \in 1..Len(cl)
    BY <1>1, <1>10, JoinType
  <2> HIDE DEF j
  <2>3. /\ Len(next) = Len(cl) /\ DOMAIN next = 1..Len(cl)
        /\ \A i \in 1..Len(cl) : i # j => next[i] = cl[i]
        /\ next[j] = Append(cl[j], d)
    BY <1>2, <2>1, <2>2
  <2>4. /\ Len(next[j]) = Len(cl[j]) + 1
        /\ Head(next[j]) = Head(cl[j])
    BY <1>1, <1>2, <2>2, <2>3
  <2>5. near(next) = near(cl)
    BY <1>2, <2>3, <2>4 DEF NearTo
  <2>6. \A i \in 1..Len(next) : Len(next[i]) \in 1..(k + 1)
    BY <1>2, <2>2, <2>3, <2>4
  <2>7. d = c => near(cl) # {} /\ j = Min(near(cl))
    BY <1>10 DEF j
  <2>8. \A i \in 1..Len(cl) : Len(next[i]) \in Nat /\ Len(cl[i]) \in Nat /\ Len(next[i]) >= Len(cl[i])
    <3> HIDE DEF next, near, d
    <3> SUFFICES ASSUME NEW i \in 1..Len(cl)
                 PROVE  Len(next[i]) \in Nat /\ Len(cl[i]) \in Nat /\ Len(next[i]) >= Len(cl[i])
      OBVIOUS
    <3>1. Len(cl[i]) \in 1..k
      BY <1>2
    <3>2. CASE i = j
      BY <2>4, <3>1, <3>2
    <3>3. CASE i # j
      BY <2>3, <3>1, <3>3
    <3> QED
      BY <3>2, <3>3
  <2>9. near(cl) # {} => Min(near(cl)) \in 1..Len(cl)
    BY <1>4
  <2>10. CASE d = c
    <3>1. Len(next[j]) >= Cardinality(Times(s, c, k)) + 1
      BY <1>2, <1>5, <1>6, <1>7, <2>2, <2>4, <2>7, <2>10
    <3> HIDE DEF next, near, d
    <3> QED
      BY <1>3, <1>5, <2>5, <2>6, <2>7, <2>10, <3>1 DEF Gathered, near, next, d
  <2>11. CASE d # c
    <3>1. Times(s, c, k) # {} => near(cl) # {} /\ Len(next[Min(near(cl))]) >= Cardinality(Times(s, c, k))
      BY <1>5, <1>7, <2>8, <2>9
    <3> QED
      BY <1>3, <1>5, <2>5, <2>6, <2>11, <3>1 DEF Gathered
  <2> QED
    BY <2>10, <2>11
<1> QED
  BY <1>8, <1>9, <1>10

(* Hence the largest cluster counts at least the times of any candidate that has a *)
(* vector other than zero.                                                    *)
LEMMA DominanceShows ==
  ASSUME NEW s \in Seq(Voiced), NEW c \in Candidates, Placed(c),
         Cardinality({k \in DOMAIN s : s[k] = c}) > 1
  PROVE  Dominance(s) >= Cardinality({k \in DOMAIN s : s[k] = c})
<1> DEFINE n == Len(s)
           cl == FoldLeft(Join, <<>>, s)
           lens == {Len(cl[j]) : j \in DOMAIN cl}
<1>1. DOMAIN s = 1..n /\ n \in Nat /\ \A i \in 1..n : s[i] \in Voiced
  OBVIOUS
<1> DEFINE Voicings == {k \in DOMAIN s : s[k] = c}
<1>2. Voicings = Times(s, c, n)
  BY <1>1 DEF Times
<1>3. PICK g : /\ g[0] = <<>>
               /\ \A k \in 1..Len(s) : g[k] = Join(g[k - 1], s[k])
               /\ FoldLeft(Join, <<>>, s) = g[Len(s)]
  BY Clustering
<1> DEFINE S == {k \in Nat : k <= n => Gathered(g[k], s, c, k)}
<1>4. 0 \in S
  <2>1. Times(s, c, 0) = {}
    BY DEF Times
  <2>2. <<>> \in Clusters /\ Len(<<>>) = 0
    BY DEF Clusters
  <2> QED
    BY <1>3, <2>1, <2>2 DEF Gathered
<1>5. ASSUME NEW k \in Nat, k \in S PROVE k + 1 \in S
  <2> SUFFICES ASSUME k + 1 <= n PROVE Gathered(g[k + 1], s, c, k + 1)
    OBVIOUS
  <2>1. Gathered(g[k], s, c, k) /\ s[k + 1] \in Voiced
    BY <1>1, <1>5
  <2>2. g[k + 1] = Join(g[k], s[k + 1])
    <3>1. k + 1 \in 1..Len(s) /\ (k + 1) - 1 = k
      BY <1>1
    <3> QED
      BY <1>3, <3>1
  <2> QED
    BY <2>1, <2>2, JoinGathers
<1>6. Gathered(cl, s, c, n)
  <2>1. n \in S
    <3> HIDE DEF S
    <3> QED
      BY <1>1, <1>4, <1>5, Induct
  <2> QED
    BY <1>1, <1>3, <2>1
<1> HIDE DEF cl
<1>7. Times(s, c, n) # {} /\ Cardinality(Times(s, c, n)) > 1
  <2>1. Cardinality(Times(s, c, n)) > 1
    BY <1>2
  <2>2. Times(s, c, n) = {} => Cardinality(Times(s, c, n)) = 0
    BY FS_EmptySet
  <2> QED
    BY <2>1, <2>2
<1>8. /\ NearTo(cl, c) \in SUBSET (1..Len(cl)) /\ DOMAIN cl = 1..Len(cl)
      /\ Min(NearTo(cl, c)) \in NearTo(cl, c)
      /\ Len(cl[Min(NearTo(cl, c))]) >= Cardinality(Times(s, c, n))
      /\ \A j \in 1..Len(cl) : Len(cl[j]) \in 1..n
  <2>1. cl \in Clusters /\ c \in Voiced
    BY <1>6 DEF Gathered, Voiced
  <2>2. DOMAIN cl = 1..Len(cl)
    BY <2>1 DEF Clusters
  <2> QED
    BY <1>6, <1>7, <2>1, <2>2, JoinType DEF Gathered
<1>9. lens \in SUBSET (1..n) /\ Len(cl[Min(NearTo(cl, c))]) \in lens
  BY <1>8
<1>10. Len(cl[Min(NearTo(cl, c))]) <= Max(lens) /\ Max(lens) \in lens
  <2> HIDE DEF lens
  <2>1. lens # {}
    BY <1>9
  <2> QED
    BY <1>1, <1>9, <2>1, LargestExists
<1>11. Dominance(s) = Max(lens)
  <2> DEFINE placed == {k \in DOMAIN s : ~Hole(s[k])}
  <2>1. IsFiniteSet(placed) /\ Times(s, c, n) \in SUBSET placed
    <3>1. IsFiniteSet(1..n) /\ placed \in SUBSET (1..n)
      BY <1>1, FS_Interval
    <3> QED
      BY <1>1, <3>1, FS_Subset DEF Times, Placed
  <2>2. Cardinality(Times(s, c, n)) <= Cardinality(placed) /\ Cardinality(placed) \in Nat
        /\ Cardinality(Times(s, c, n)) \in Nat
    BY <2>1, FS_Subset, FS_CardinalityType
  <2>3. ~(Cardinality(placed) < 2)
    <3> HIDE DEF placed
    <3> QED
      BY <1>7, <2>2
  <2> QED
    BY <2>3 DEF Dominance, cl
<1>12. Cardinality(Times(s, c, n)) \in Nat
  BY <1>1, OneMoreTime
<1>13. Dominance(s) >= Cardinality(Times(s, c, n))
  <2> DEFINE size == Len(cl[Min(NearTo(cl, c))])
             biggest == Max(lens)
  <2>1. size \in Nat /\ biggest \in Nat /\ size <= biggest
    BY <1>1, <1>9, <1>10
  <2>2. size >= Cardinality(Times(s, c, n))
    BY <1>8
  <2> HIDE DEF size, biggest
  <2>3. biggest >= Cardinality(Times(s, c, n))
    BY <1>12, <2>1, <2>2
  <2> QED
    BY <1>11, <2>3 DEF biggest
<1> QED
  BY <1>2, <1>13

(* What the window of recent rows says was spoken is a sequence of such names. *)
LEMMA SpokenType ==
  ASSUME log \in Seq(TraceRow), window \in Nat, window <= Len(log)
  PROVE  Spoken \in Seq(Voiced)
<1> DEFINE s == SubSeq(log, window + 1, Len(log))
           n == Len(s)
           Say(said, r) == IF Proactive(r) /\ Spoke(r)
                             THEN Append(said, r.candidate) ELSE said
           Def(f) == [T \in SUBSET DOMAIN s |->
                        IF T = {} THEN <<>>
                        ELSE Say(f[T \ {Max(T)}], s[Max(T)])]
           iter == CHOOSE f : f = Def(f)
           step == [i \in 1..n |-> [v \in Seq(Voiced) |-> Say(v, s[i])]]
<1>0. s \in Seq(TraceRow)
  OBVIOUS
<1>1. Spoken = iter[DOMAIN s]
  BY Zenon DEF Spoken, FoldLeft, MapThenFoldSet
<1> HIDE DEF s
<1>2. DOMAIN s = 1..n /\ n \in Nat /\ \A i \in 1..n : s[i].candidate \in Voiced
  <2>1. DOMAIN s = 1..n /\ n \in Nat /\ \A i \in 1..n : s[i] \in TraceRow
    BY <1>0
  <2>2. \A r \in TraceRow : r.candidate \in Voiced
    BY DEF TraceRow, Voiced
  <2> QED
    BY <2>1, <2>2
<1>3. \A v \in Seq(Voiced), i \in 1..n : Say(v, s[i]) \in Seq(Voiced)
  BY <1>2
<1> HIDE DEF Say
<1>4. step \in [1..n -> [Seq(Voiced) -> Seq(Voiced)]] /\ <<>> \in Seq(Voiced)
  BY <1>3
<1>5. PICK f \in [SUBSET (1..n) -> Seq(Voiced)] : FoldsUp(f, n, <<>>, step)
  <2> HIDE DEF step, n
  <2> QED
    BY <1>2, <1>4, FoldsLeft
<1>6. f = Def(f)
  <2>1. ASSUME NEW T \in SUBSET (1..n), T # {}
        PROVE  f[T] = Say(f[T \ {Max(T)}], s[Max(T)])
    <3>1. Max(T) \in 1..n /\ T \ {Max(T)} \in SUBSET (1..n)
      BY <1>2, <2>1, LargestExists
    <3>2. f[T \ {Max(T)}] \in Seq(Voiced)
      BY <1>5, <3>1
    <3> QED
      BY <1>5, <2>1, <3>1, <3>2 DEF FoldsUp
  <2>2. f[{}] = <<>>
    BY <1>5 DEF FoldsUp
  <2> QED
    BY <1>2, <1>5, <2>1, <2>2
<1>7. iter = Def(iter)
  <2> HIDE DEF Def
  <2> QED
    BY <1>6
<1>8. \A T \in SUBSET (1..n) : iter[T] = IF T = {} THEN <<>>
        ELSE Say(iter[T \ {Max(T)}], s[Max(T)])
  <2>1. Def(iter) = [T \in SUBSET (1..n) |-> IF T = {} THEN <<>>
                        ELSE Say(iter[T \ {Max(T)}], s[Max(T)])]
    BY <1>2
  <2> HIDE DEF iter, Def
  <2> QED
    BY <1>7, <2>1
<1> HIDE DEF iter, Def, step
<1> DEFINE S == {k \in Nat : k <= n => iter[1..k] \in Seq(Voiced)}
<1>9. 0 \in S
  <2>1. 1..0 = {}
    OBVIOUS
  <2> QED
    BY <1>4, <1>8, <2>1
<1>10. ASSUME NEW k \in Nat, k \in S PROVE k + 1 \in S
  <2> SUFFICES ASSUME k + 1 <= n PROVE iter[1..(k + 1)] \in Seq(Voiced)
    OBVIOUS
  <2>1. k + 1 \in 1..n /\ (k + 1) - 1 = k
    BY <1>2
  <2>2. /\ 1..(k + 1) \in SUBSET (1..n) /\ 1..(k + 1) # {} /\ Max(1..(k + 1)) = k + 1
        /\ (1..(k + 1)) \ {k + 1} = 1..((k + 1) - 1)
    BY <1>2, <2>1, FirstNumbers
  <2>3. iter[1..(k + 1)] = Say(iter[1..k], s[k + 1])
    BY <1>8, <2>1, <2>2
  <2>4. iter[1..k] \in Seq(Voiced)
    BY <1>2, <1>10
  <2> QED
    BY <1>3, <2>1, <2>3, <2>4
<1>11. n \in S
  <2> HIDE DEF S
  <2> QED
    BY <1>2, <1>9, <1>10, Induct
<1> QED
  BY <1>1, <1>2, <1>11

(* Of a sequence in which c occurs m times, at least m - 1 entries are repetitions. *)
LEMMA RepeatedShows ==
  ASSUME NEW s \in Seq(Voiced), NEW c, Cardinality({k \in DOMAIN s : s[k] = c}) > 1
  PROVE  Len(s) - Cardinality({s[k] : k \in DOMAIN s})
           >= Cardinality({k \in DOMAIN s : s[k] = c}) - 1
<1> DEFINE D == DOMAIN s
           cs == {k \in D : s[k] = c}
           rest == D \ cs
           others == {s[k] : k \in rest}
           all == {s[k] : k \in D}
           f == [k \in rest |-> s[k]]
<1>1. IsFiniteSet(D) /\ Cardinality(D) = Len(s) /\ Len(s) \in Nat
  <2>1. D = 1..Len(s) /\ Len(s) \in Nat
    OBVIOUS
  <2>2. IsFiniteSet(1..Len(s)) /\ Cardinality(1..Len(s)) = Len(s)
    BY <2>1, FS_Interval
  <2> QED
    BY <2>1, <2>2
<1>2. /\ IsFiniteSet(rest) /\ Cardinality(rest) \in Nat /\ Cardinality(cs) \in Nat
      /\ Cardinality(rest) = Len(s) - Cardinality(cs)
  <2>1. cs \in SUBSET D /\ rest \in SUBSET D /\ D \cap cs = cs
    OBVIOUS
  <2>2. IsFiniteSet(rest) /\ IsFiniteSet(cs)
    BY <1>1, <2>1, FS_Subset
  <2>3. Cardinality(D \ cs) = Cardinality(D) - Cardinality(D \cap cs)
    BY <1>1, FS_Difference
  <2> HIDE DEF cs
  <2> QED
    BY <1>1, <2>1, <2>2, <2>3, FS_CardinalityType
<1>3. IsFiniteSet(others) /\ Cardinality(others) <= Cardinality(rest)
  <2>1. f \in Surjection(rest, others)
    BY DEF Surjection
  <2> HIDE DEF f, rest, others
  <2> QED
    BY <1>2, <2>1, FS_Surjection
<1>4. all \subseteq others \cup {c}
  OBVIOUS
<1>5. Cardinality(all) \in Nat /\ Cardinality(all) <= Cardinality(others) + 1 /\ Cardinality(others) \in Nat
  <2> HIDE DEF all, others
  <2>0. Cardinality(others) \in Nat
    BY <1>3, FS_CardinalityType
  <2>1. IsFiniteSet(others \cup {c}) /\ Cardinality(others \cup {c}) <= Cardinality(others) + 1
    <3>1. IsFiniteSet(others)
      BY <1>3
    <3>2. /\ IsFiniteSet(others \cup {c})
          /\ Cardinality(others \cup {c}) = IF c \in others THEN Cardinality(others)
                                            ELSE Cardinality(others) + 1
      BY <3>1, FS_AddElement, Zenon
    <3> QED
      BY <2>0, <3>2
  <2>2. IsFiniteSet(all) /\ Cardinality(all) <= Cardinality(others \cup {c})
    BY <1>4, <2>1, FS_Subset
  <2> QED
    BY <2>0, <2>1, <2>2, FS_CardinalityType
<1> HIDE DEF all, others, rest, cs
<1>6. Len(s) - Cardinality(all) >= Cardinality(cs) - 1
  BY <1>1, <1>2, <1>3, <1>5
<1> QED
  BY <1>6 DEF all, cs

(* All three measures of repetition show what was voiced more than once.      *)
LEMMA RepetitionHolds ==
  ASSUME Spoken \in Seq(Voiced)
  PROVE  RepetitionShows
<1> DEFINE s == Spoken
<1>1. ASSUME NEW c \in Candidates, Cardinality({k \in DOMAIN s : s[k] = c}) > 1
      PROVE  /\ Repeated >= Cardinality({k \in DOMAIN s : s[k] = c}) - 1
             /\ Placed(c) => Dominance(s) >= Cardinality({k \in DOMAIN s : s[k] = c})
  <2>1. Repeated >= Cardinality({k \in DOMAIN s : s[k] = c}) - 1
    <3>1. Repeated = Len(s) - Cardinality({s[k] : k \in DOMAIN s})
      BY DEF Repeated
    <3> HIDE DEF s
    <3> QED
      BY <1>1, <3>1, RepeatedShows DEF s
  <2>2. ASSUME Placed(c) PROVE Dominance(s) >= Cardinality({k \in DOMAIN s : s[k] = c})
    BY <1>1, <2>2, DominanceShows
  <2> QED
    BY <2>1, <2>2
<1>2. Cardinality({k \in 1..(Len(s) - 1) : s[k] = s[k+1] /\ Placed(s[k])})
        <= AdvanceRate["repetition"]
  <2> DEFINE same == {k \in 1..(Len(s) - 1) : s[k] = s[k+1] /\ Placed(s[k])}
             counted == {k \in 1..(Len(s) - 1) : Band(s[k], s[k+1]) = "repetition"}
  <2>1. same \in SUBSET counted
    BY DEF Band, Within, Placed
  <2>2. IsFiniteSet(counted)
    <3>1. IsFiniteSet(1..(Len(s) - 1)) /\ counted \in SUBSET (1..(Len(s) - 1))
      <4>1. Len(s) - 1 \in Int
        OBVIOUS
      <4> QED
        BY <4>1, FS_Interval
    <3> QED
      BY <3>1, FS_Subset
  <2>3. AdvanceRate["repetition"] = Cardinality(counted)
    BY DEF AdvanceRate
  <2> HIDE DEF same, counted
  <2>4. Cardinality(same) <= Cardinality(counted)
    BY <2>1, <2>2, FS_Subset
  <2> QED
    BY <2>3, <2>4 DEF same
<1> QED
  BY <1>1, <1>2 DEF RepetitionShows, PairsOf

-----------------------------------------------------------------------------
(* The numbers in the parts of a finite set add up to its size, however Sum        *)
(* orders them: by induction on the number of parts it has added.                *)
LEMMA SumOfParts ==
  ASSUME NEW D, IsFiniteSet(D), NEW B, IsFiniteSet(B), NEW of \in [D -> B],
         NEW h \in [B -> Nat], \A b \in B : h[b] = Cardinality({i \in D : of[i] = b})
  PROVE  Sum(h) = Cardinality(D)
<1> DEFINE Def(f) == [T \in SUBSET B |->
                        IF T = {} THEN 0
                        ELSE LET x == CHOOSE y \in T : TRUE IN h[x] + f[T \ {x}]]
           iter == CHOOSE f : f = Def(f)
           pick == [T \in SUBSET B |-> CHOOSE y \in T : TRUE]
           step == [b \in B |-> [v \in Nat |-> h[b] + v]]
           Part(T) == {i \in D : of[i] \in T}
<1>1. DOMAIN h = B
  OBVIOUS
<1>2. Sum(h) = iter[B]
  BY <1>1, Zenon DEF Sum, FoldFunction, FoldFunctionOnSet, MapThenFoldSet
<1>3. Picks(pick, B) /\ \A T \in SUBSET B : pick[T] = CHOOSE y \in T : TRUE
  BY DEF Picks
<1>4. step \in [B -> [Nat -> Nat]] /\ 0 \in Nat
  OBVIOUS
<1>5. PICK f \in [SUBSET B -> Nat] : Folds(f, B, pick, 0, step)
  <2> DEFINE V == Nat
             zero == 0
  <2>1. step \in [B -> [V -> V]] /\ zero \in V
    BY <1>4
  <2> HIDE DEF pick, step, V, zero
  <2>2. Picks(pick, B) /\ IsFiniteSet(B)
    BY <1>3
  <2>3. \E f \in [SUBSET B -> V] : Folds(f, B, pick, zero, step)
    BY <2>1, <2>2, Iterates
  <2> QED
    BY <2>3 DEF V, zero
<1> HIDE DEF pick
<1>6. f = Def(f)
  <2>1. ASSUME NEW T \in SUBSET B, T # {}
        PROVE  f[T] = h[pick[T]] + f[T \ {pick[T]}]
    <3>1. pick[T] \in B /\ T \ {pick[T]} \in SUBSET B
      BY <1>3, <2>1 DEF Picks
    <3>2. f[T \ {pick[T]}] \in Nat
      BY <1>5, <3>1
    <3> QED
      BY <1>5, <2>1, <3>1, <3>2 DEF Folds
  <2>2. f[{}] = 0
    BY <1>5 DEF Folds
  <2> QED
    BY <1>3, <1>5, <2>1, <2>2
<1>7. iter = Def(iter)
  <2> HIDE DEF Def
  <2> QED
    BY <1>6
<1> HIDE DEF iter
<1>8. \A T \in SUBSET B : iter[T] = IF T = {} THEN 0 ELSE h[pick[T]] + iter[T \ {pick[T]}]
  <2>1. Def(iter) = [T \in SUBSET B |-> IF T = {} THEN 0 ELSE h[pick[T]] + iter[T \ {pick[T]}]]
    BY <1>3
  <2> HIDE DEF iter, Def
  <2> QED
    BY <1>7, <2>1
<1> HIDE DEF iter, Def, step
<1> DEFINE S == {k \in Nat : \A T \in SUBSET B : Cardinality(T) = k => iter[T] = Cardinality(Part(T))}
<1>9. \A T \in SUBSET B : IsFiniteSet(T) /\ Cardinality(T) \in Nat /\ (Cardinality(T) = 0 <=> T = {})
  BY FS_Subset, FS_CardinalityType, FS_EmptySet
<1>10. \A E \in SUBSET D : IsFiniteSet(E) /\ Cardinality(E) \in Nat
  BY FS_Subset, FS_CardinalityType
<1>11. 0 \in S
  <2> SUFFICES ASSUME NEW T \in SUBSET B, Cardinality(T) = 0 PROVE iter[T] = Cardinality(Part(T))
    OBVIOUS
  <2>1. T = {} /\ Part(T) = {}
    BY <1>9
  <2>2. Cardinality(Part(T)) = 0
    BY <2>1, FS_EmptySet
  <2> QED
    BY <1>8, <2>1, <2>2
<1>12. ASSUME NEW k \in Nat, k \in S PROVE k + 1 \in S
  <2> SUFFICES ASSUME NEW T \in SUBSET B, Cardinality(T) = k + 1
               PROVE  iter[T] = Cardinality(Part(T))
    OBVIOUS
  <2> DEFINE b == pick[T]
             U == T \ {b}
             one == {i \in D : of[i] = b}
  <2>1. T # {} /\ b \in T /\ b \in B
    BY <1>3, <1>9 DEF Picks
  <2>2. U \in SUBSET B /\ Cardinality(U) = k
    BY <1>9, <2>1, FS_RemoveElement
  <2> HIDE DEF b
  <2>3. iter[U] = Cardinality(Part(U))
    BY <1>12, <2>2
  <2>4. Part(T) = Part(U) \cup one /\ Part(U) \cap one = {}
    BY <2>1
  <2>5. h[b] = Cardinality(one)
    BY <2>1
  <2>6. iter[T] = h[b] + iter[U]
    BY <1>8, <2>1 DEF b
  <2>7. Part(U) \in SUBSET D /\ one \in SUBSET D
    OBVIOUS
  <2> HIDE DEF Part, one, U
  <2>8. Cardinality(Part(U) \cup one) = Cardinality(Part(U)) + Cardinality(one) - Cardinality(Part(U) \cap one)
    BY <1>10, <2>7, FS_Union
  <2>9. Cardinality(Part(U) \cap one) = 0
    BY <2>4, FS_EmptySet
  <2> QED
    BY <1>10, <2>3, <2>4, <2>5, <2>6, <2>7, <2>8, <2>9
<1>13. Cardinality(B) \in S
  <2> HIDE DEF S
  <2> QED
    BY <1>9, <1>11, <1>12, Induct
<1>14. Part(B) = D
  OBVIOUS
<1>15. iter[B] = Cardinality(Part(B))
  BY <1>13
<1> QED
  BY <1>2, <1>14, <1>15

-----------------------------------------------------------------------------
(* The report as a whole.                                                    *)

(* There are finitely many reasons for silence.                               *)
LEMMA BucketsFinite == IsFiniteSet(Buckets)
<1> DEFINE names == <<"nothing", "low_worth", "budget", "cooldown", "quiet_hours",
              "mode_suppressed", "enrichment_gated", "discourse_orphan_wake",
              "continuity_repeat_wake", "discourse_orphan_recheck",
              "continuity_repeat_recheck", "advancement", "superseded", "model_silence",
              "enrichment_only", "failed", "other">>
           f == [k \in 1..17 |-> names[k]]
<1>1. \A b \in Buckets : \E k \in 1..17 : names[k] = b
  BY DEF Buckets
<1>2. \A k \in 1..17 : names[k] \in Buckets
  BY DEF Buckets
<1>3. f \in Surjection(1..17, Buckets)
  BY <1>1, <1>2 DEF Surjection
<1>4. IsFiniteSet(1..17)
  <2>1. 1 \in Int /\ 17 \in Int
    OBVIOUS
  <2> QED
    BY <2>1, FS_Interval
<1> QED
  BY <1>3, <1>4, FS_Surjection

(* Every proactive cycle spoke, waits for its result, or counts under one reason. *)
LEMMA ReasonsHold == ASSUME RowsInv PROVE ReasonsAddUp
<1> DEFINE Wakes == {i \in DOMAIN log : Proactive(log[i])}
           Silent == {i \in DOMAIN log : Proactive(log[i]) /\ Resolved(log[i])}
           Voices == {i \in DOMAIN log : Proactive(log[i]) /\ Spoke(log[i])}
           Waits == {i \in DOMAIN log : Proactive(log[i]) /\ log[i].action = None}
           of == [i \in Silent |-> Bucket(log[i])]
<1>1. DOMAIN log = 1..Len(log) /\ Len(log) \in Nat /\ \A i \in DOMAIN log : log[i] \in TraceRow
  BY DEF RowsInv
<1>2. IsFiniteSet(DOMAIN log) /\ Wakes \in SUBSET DOMAIN log
  BY <1>1, UpTo
<1>3. IsFiniteSet(Wakes)
  BY <1>2, FS_Subset
<1>4. /\ Wakes = Silent \cup (Voices \cup Waits) /\ Silent \cap (Voices \cup Waits) = {}
      /\ Voices \cap Waits = {}
  BY <1>1 DEF TraceRow, Resolved, Spoke, None
<1>5. of \in [Silent -> Buckets]
  BY Zenon DEF Bucket, Buckets
<1>6. /\ BlockReasons = [b \in Buckets |-> Cardinality({i \in Silent : of[i] = b})]
      /\ TraceMetrics.proactive = Cardinality(Wakes)
      /\ TraceMetrics.proactive_spoke = Cardinality(Voices)
      /\ Count(LAMBDA r : Proactive(r) /\ r.action = None) = Cardinality(Waits)
  <2>1. \A b \in Buckets :
          {i \in Silent : of[i] = b}
            = {i \in DOMAIN log : Proactive(log[i]) /\ Resolved(log[i])
                                                        /\ Bucket(log[i]) = b}
    OBVIOUS
  <2> HIDE DEF of, Silent
  <2>2. BlockReasons = [b \in Buckets |-> Cardinality({i \in Silent : of[i] = b})]
    BY <2>1, Zenon DEF BlockReasons, Count, Rows
  <2> QED
    BY <2>2 DEF TraceMetrics, Count, Rows
<1> HIDE DEF Wakes, Silent, Voices, Waits, of
<1>7. /\ IsFiniteSet(Silent) /\ IsFiniteSet(Voices \cup Waits) /\ Cardinality(Silent) \in Nat
      /\ Cardinality(Wakes) = Cardinality(Silent) + Cardinality(Voices \cup Waits)
  BY <1>3, <1>4, TwoParts
<1>8. /\ Cardinality(Voices) \in Nat /\ Cardinality(Waits) \in Nat
      /\ Cardinality(Voices \cup Waits) = Cardinality(Voices) + Cardinality(Waits)
  <2> DEFINE both == Voices \cup Waits
  <2>1. IsFiniteSet(both) /\ both = Voices \cup Waits /\ Voices \cap Waits = {}
    BY <1>4, <1>7
  <2> HIDE DEF both
  <2>2. /\ Cardinality(Voices) \in Nat /\ Cardinality(Waits) \in Nat
        /\ Cardinality(both) = Cardinality(Voices) + Cardinality(Waits)
    BY <2>1, TwoParts
  <2> QED
    BY <2>2 DEF both
<1>9. Sum(BlockReasons) = Cardinality(Silent)
  <2> DEFINE B == Buckets
             h == BlockReasons
  <2>1. \A b \in B : IsFiniteSet({i \in Silent : of[i] = b})
                    /\ Cardinality({i \in Silent : of[i] = b}) \in Nat
    <3> SUFFICES ASSUME NEW b \in B
                 PROVE  /\ IsFiniteSet({i \in Silent : of[i] = b})
                        /\ Cardinality({i \in Silent : of[i] = b}) \in Nat
      OBVIOUS
    <3>1. {i \in Silent : of[i] = b} \in SUBSET Silent
      OBVIOUS
    <3> QED
      BY <1>7, <3>1, FS_Subset, FS_CardinalityType
  <2>2. h \in [B -> Nat] /\ \A b \in B : h[b] = Cardinality({i \in Silent : of[i] = b})
    BY <1>6, <2>1
  <2>3. IsFiniteSet(B) /\ of \in [Silent -> B] /\ IsFiniteSet(Silent)
    BY <1>5, <1>7, BucketsFinite
  <2> HIDE DEF B, h
  <2>4. Sum(h) = Cardinality(Silent)
    BY <2>2, <2>3, SumOfParts
  <2> QED
    BY <2>4 DEF h
<1> QED
  BY <1>6, <1>7, <1>8, <1>9 DEF ReasonsAddUp

(* As many rows have left the window of recent ones as there are at most.      *)
WindowOK == window \in Nat /\ window <= Len(log)

(* A window only moves over rows that exist, and no handler removes a row.    *)
LEMMA WindowStep ==
  ASSUME RowsInv, RowsInv', WindowOK, [TraceNext]_traceVars
  PROVE  WindowOK'
<1>1. Len(log) \in Nat /\ Len(log') \in Nat /\ DOMAIN log = 1..Len(log) /\ DOMAIN log' = 1..Len(log')
  BY DEF RowsInv
<1>2. ASSUME NEW row, NEW w, NEW v, Insert(row, w, v) PROVE WindowOK'
  <2>1. log' = Append(log, row) /\ window' = window /\ log \in Seq(TraceRow)
    BY <1>2 DEF Insert, RowsInv
  <2>3. Len(log') = Len(log) + 1
    BY <2>1
  <2> QED
    BY <1>1, <2>1, <2>3 DEF WindowOK
<1>3. ASSUME NEW i, NEW action, NEW invalidated, NEW note, NEW v,
             Finalize(i, action, invalidated, note, v)
      PROVE  WindowOK'
  <2>1. DOMAIN log' = DOMAIN log /\ window' = window
    BY <1>3 DEF Finalize
  <2> QED
    BY <1>1, <2>1 DEF WindowOK
<1>4. CASE WakeIdle \/ WakeSuppressed \/ WakeDispatch \/ Human
  BY <1>2, <1>4 DEF WakeIdle, WakeSuppressed, WakeDispatch, Human,
                    WakeEnds
<1>5. ASSUME NEW i \in 1..MaxCycles, ReduceResult(i) PROVE WindowOK'
  BY <1>3, <1>5, Zenon DEF ReduceResult, Fails, FinishMandatory,
       FinishReactive, FinishProactive, Dropped
<1>6. ASSUME NEW i \in 1..MaxCycles, ResultLost(i) PROVE WindowOK'
  BY <1>6 DEF ResultLost, WindowOK
<1>7. CASE RowAges \/ UNCHANGED traceVars
  BY <1>1, <1>7 DEF RowAges, traceVars, WindowOK
<1> QED
  BY <1>4, <1>5, <1>6, <1>7 DEF TraceNext

(* The numbers of one report agree, whichever handlers wrote and rewrote the    *)
(* rows: classes and reasons add up, and what is voiced again shows as a       *)
(* repetition and in the largest theme, however the others cluster around it.  *)
THEOREM ReportReconcilesHolds == TraceSpec => []ReportReconciles
<1>1. TraceInit => WindowOK
  <2> SUFFICES ASSUME TraceInit PROVE WindowOK
    OBVIOUS
  <2>1. RowsInv /\ window = 0
    BY InitSays DEF TraceInit
  <2> QED
    BY <2>1 DEF RowsInv, WindowOK
<1>2. ASSUME RowsInv, WindowOK PROVE ReportReconciles
  <2>1. Spoken \in Seq(Voiced)
    BY <1>2, SpokenType DEF RowsInv, WindowOK
  <2> QED
    BY <1>2, <2>1, ClassesHold, ReasonsHold, RepetitionHolds DEF ReportReconciles
<1>3. RowsInv /\ RowsInv' /\ WindowOK /\ [TraceNext]_traceVars => WindowOK'
  BY WindowStep
<1>4. RowsInv /\ WindowOK => ReportReconciles
  BY <1>2
<1> QED
  BY <1>1, <1>3, <1>4, InitSays, ReportStep, PTL DEF TraceSpec
=============================================================================

----------------------- MODULE PromptPromotionProofs -----------------------
(***************************************************************************)
(* Proofs about prompt promotion, for every policy and set of outcomes.    *)
(***************************************************************************)
EXTENDS PromptPromotion, TLAPS

(***************************************************************************)
(* A tally counts no more passes than samples, and no more of the workflow *)
(* than of any stage.                                                      *)
(***************************************************************************)
Counted(t) == /\ t \in Tally
              /\ \A m \in Metrics : t.passes[m] <= t.samples
              /\ \A s \in Stages : t.passes["workflow"] <= t.passes[s]

TalliesCounted == /\ tally \in [Prompts -> Tally]
                  /\ \A p \in Prompts : Counted(tally[p])

(***************************************************************************)
(* Adding an outcome keeps that: a run that passes passes every stage.     *)
(***************************************************************************)
LEMMA AddCounts ==
  ASSUME NEW t, Counted(t), NEW o \in Outcome
  PROVE  Counted(Add(t, o))
<1> DEFINE one(m) == IF Passes(o, m) THEN 1 ELSE 0
           sums == [m \in Metrics |-> t.passes[m] + one(m)]
<1>1. /\ t.samples \in Nat /\ t.repairs \in Nat
      /\ t.passes \in [Metrics -> Nat]
      /\ o.repairs \in Nat
  BY DEF Counted, Tally, Outcome
<1>2. \A m \in Metrics : one(m) \in {0, 1}
  OBVIOUS
<1>3. \A s \in Stages : one("workflow") <= one(s)
  BY DEF Passes, Stages
<1>4. sums \in [Metrics -> Nat] /\ \A m \in Metrics : sums[m] = t.passes[m] + one(m)
  BY <1>1, <1>2
<1>5. Add(t, o) = [samples |-> t.samples + 1, passes |-> sums,
                   repairs |-> t.repairs + o.repairs]
  BY DEF Add
<1>6. Add(t, o) \in Tally
  BY <1>1, <1>4, <1>5 DEF Tally
<1> HIDE DEF one, sums
<1>7. \A m \in Metrics : sums[m] <= t.samples + 1
  BY <1>1, <1>2, <1>4 DEF Counted
<1>8. \A s \in Stages : sums["workflow"] <= sums[s]
  <2>1. TAKE s \in Stages
  <2>2. s \in Metrics /\ "workflow" \in Metrics
    BY DEF Metrics
  <2>3. t.passes["workflow"] <= t.passes[s]
    BY DEF Counted
  <2>4. QED
    BY <1>1, <1>2, <1>3, <1>4, <2>2, <2>3
<1>9. QED
  BY <1>5, <1>6, <1>7, <1>8 DEF Counted

LEMMA CountsInvariant == Spec => []TalliesCounted
<1>1. Init => TalliesCounted
  <2>1. [samples |-> 0, passes |-> [m \in Metrics |-> 0], repairs |-> 0] \in Tally
    BY DEF Tally
  <2>2. QED
    BY <2>1 DEF Init, TalliesCounted, Counted, Metrics
<1>2. TalliesCounted /\ [Next]_tally => TalliesCounted'
  <2>1. SUFFICES ASSUME TalliesCounted, [Next]_tally PROVE TalliesCounted'
    OBVIOUS
  <2>2. CASE UNCHANGED tally
    BY <2>1, <2>2 DEF TalliesCounted
  <2>3. ASSUME NEW p \in Prompts, NEW o \in Outcomes, Record(p, o)
        PROVE  TalliesCounted'
    <3>1. Counted(Add(tally[p], o))
      BY <2>1, AddCounts, PolicyAssumption DEF TalliesCounted
    <3>2. tally' = [tally EXCEPT ![p] = Add(tally[p], o)]
      BY <2>3 DEF Record
    <3>3. QED
      BY <2>1, <3>1, <3>2 DEF TalliesCounted, Counted
  <2>4. QED
    BY <2>1, <2>2, <2>3 DEF Next
<1>3. QED
  BY <1>1, <1>2, PTL DEF Spec

(***************************************************************************)
(* Every tally keeps its type.                                             *)
(***************************************************************************)
THEOREM TypeCorrect == Spec => []TypeOK
<1>1. TalliesCounted => TypeOK
  BY DEF TalliesCounted, TypeOK
<1>2. QED
  BY <1>1, CountsInvariant, PTL

(***************************************************************************)
(* Facts about products, of which the solver needs to be told.             *)
(***************************************************************************)
LEMMA ProductMonotone ==
  ASSUME NEW a \in Int, NEW b \in Int, NEW n \in Nat, a <= b
  PROVE  a * n <= b * n
OBVIOUS

(***************************************************************************)
(* A version that meets the minimum of the workflow meets that of every    *)
(* stage that asks for no more, whatever the policy and the outcomes.      *)
(***************************************************************************)
THEOREM WorkflowRateBoundsStagesHolds == Spec => []WorkflowRateBoundsStages
<1>1. TalliesCounted => WorkflowRateBoundsStages
  <2>1. SUFFICES ASSUME TalliesCounted, NEW p \in Prompts, NEW s \in Stages,
                        MeetsMinimum(tally[p], "workflow"),
                        Minimum[s] <= Minimum["workflow"]
                 PROVE  MeetsMinimum(tally[p], s)
    BY DEF WorkflowRateBoundsStages
  <2> DEFINE t == tally[p]
             w == t.passes["workflow"]
  <2>2. s \in Metrics /\ "workflow" \in Metrics
    BY DEF Metrics
  <2>3. /\ t \in Tally
        /\ w <= t.passes[s]
    BY <2>1 DEF TalliesCounted, Counted
  <2>4. /\ w \in Nat /\ t.passes[s] \in Nat
        /\ Divisor(t) \in Nat
    BY <2>2, <2>3 DEF Tally, Divisor
  <2>5. /\ Minimum[s] \in Nat /\ Minimum["workflow"] \in Nat
        /\ Unit \in Nat
    BY <2>2, PolicyAssumption
  <2>6. w * Unit <= t.passes[s] * Unit
    BY <2>3, <2>4, <2>5, ProductMonotone
  <2>7. Minimum[s] * Divisor(t) <= Minimum["workflow"] * Divisor(t)
    BY <2>1, <2>4, <2>5, ProductMonotone
  <2>8. w * Unit >= Minimum["workflow"] * Divisor(t)
    BY <2>1 DEF MeetsMinimum
  <2>9. QED
    BY <2>4, <2>5, <2>6, <2>7, <2>8 DEF MeetsMinimum
<1>2. QED
  BY <1>1, CountsInvariant, PTL

(***************************************************************************)
(* The lead of a version over another is an integer.                       *)
(***************************************************************************)
LEMMA LeadTyped ==
  ASSUME NEW c \in Tally, NEW b \in Tally
  PROVE  Lead(c, b) \in Int
<1>1. /\ c.passes["workflow"] \in Nat /\ c.samples \in Nat
      /\ b.passes["workflow"] \in Nat /\ b.samples \in Nat
  BY DEF Tally, Metrics
<1>2. Divisor(c) \in Nat
  BY <1>1 DEF Divisor
<1>3. Unit \in Nat /\ Delta \in Nat
  BY PolicyAssumption
<1>4. QED
  BY <1>1, <1>2, <1>3 DEF Lead

(***************************************************************************)
(* What a promotion says of the lead.                                      *)
(***************************************************************************)
LEMMA PromotionNeedsLead ==
  ASSUME NEW c \in Tally, NEW b \in Tally, b.samples > 0, MayPromote(c, b)
  PROVE  Lead(c, b) >= 0
<1>1. PICK beats \in BeatsBaseline(c, b) : "promote" = IF beats THEN "promote" ELSE "keep_candidate"
  BY DEF MayPromote, Decide
<1>2. beats
  BY <1>1
<1>3. b.samples # 0
  BY DEF Tally
<1>4. Lead(c, b) > 0 \/ Lead(c, b) = 0
  BY <1>1, <1>2, <1>3 DEF BeatsBaseline
<1>5. Lead(c, b) \in Int
  BY LeadTyped
<1>6. QED
  BY <1>4, <1>5

(***************************************************************************)
(* The leads of two versions over each other add up to less than nothing.  *)
(***************************************************************************)
LEMMA LeadsCancel ==
  ASSUME NEW a \in Nat, NEW b \in Nat, NEW n \in Nat, NEW m \in Nat,
         NEW u \in Nat, NEW d \in Nat
  PROVE  (a * m * u - (b * u + d * m) * n) + (b * n * u - (a * u + d * n) * m)
           = 0 - 2 * (d * (m * n))
OBVIOUS

(***************************************************************************)
(* With a positive delta, no two versions are each promoted over the       *)
(* other, whatever the limits, the outcomes and the rounding of ties.      *)
(***************************************************************************)
THEOREM NoMutualPromotionHolds == Spec => []NoMutualPromotion
<1>1. TypeOK => NoMutualPromotion
  <2>1. SUFFICES ASSUME TypeOK, Delta > 0, NEW p \in Prompts, NEW q \in Prompts,
                        tally[p].samples > 0, tally[q].samples > 0,
                        MayPromote(tally[p], tally[q]),
                        MayPromote(tally[q], tally[p])
                 PROVE  FALSE
    BY DEF NoMutualPromotion, TypeOK, Tally
  <2> DEFINE a == tally[p].passes["workflow"]
             b == tally[q].passes["workflow"]
             n == tally[p].samples
             m == tally[q].samples
  <2>2. tally[p] \in Tally /\ tally[q] \in Tally
    BY <2>1 DEF TypeOK
  <2>3. /\ a \in Nat /\ b \in Nat /\ n \in Nat /\ m \in Nat
        /\ Unit \in Nat /\ Delta \in Nat
    BY <2>2, PolicyAssumption DEF Tally, Metrics
  <2>4. /\ Divisor(tally[p]) = n
        /\ Divisor(tally[q]) = m
    BY <2>1, <2>3 DEF Divisor
  <2>5. /\ a * m * Unit - (b * Unit + Delta * m) * n >= 0
        /\ b * n * Unit - (a * Unit + Delta * n) * m >= 0
    BY <2>1, <2>2, <2>4, PromotionNeedsLead DEF Lead
  <2> HIDE DEF a, b, n, m
  <2>6. 0 - 2 * (Delta * (m * n)) >= 0
    BY <2>3, <2>5, LeadsCancel
  <2>7. m * n > 0
    BY <2>1, <2>3 DEF m, n
  <2>8. Delta * (m * n) > 0
    BY <2>1, <2>3, <2>7
  <2>9. QED
    BY <2>3, <2>6, <2>8
<1>2. QED
  BY <1>1, TypeCorrect, PTL

(***************************************************************************)
(* A quota x of n that reaches a share l of u still does as x + 1 of       *)
(* n + 1, and no quota of n exceeds n.                                     *)
(***************************************************************************)
LEMMA QuotaGrows ==
  ASSUME NEW x \in Nat, NEW n \in Nat, NEW l \in Nat, NEW u \in Nat,
         x * u >= l * n, l <= u
  PROVE  (x + 1) * u >= l * (n + 1)
<1>1. /\ (x + 1) * u = x * u + u
      /\ l * (n + 1) = l * n + l
  OBVIOUS
<1>2. x * u \in Nat /\ l * n \in Nat
  OBVIOUS
<1>3. QED
  BY <1>1, <1>2

LEMMA QuotaIsAShare ==
  ASSUME NEW x \in Nat, NEW n \in Nat \ {0}, NEW l \in Nat, NEW u \in Nat,
         x * u >= l * n, x <= n
  PROVE  l <= u
<1>1. SUFFICES ASSUME l > u PROVE FALSE
  OBVIOUS
<1>2. x * u <= n * u
  BY ProductMonotone
<1>3. (u + 1) * n <= l * n
  BY <1>1, ProductMonotone
<1>4. (u + 1) * n = n * u + n
  OBVIOUS
<1>5. x * u \in Nat /\ n * u \in Nat /\ l * n \in Nat
  OBVIOUS
<1>6. QED
  BY <1>2, <1>3, <1>4, <1>5

\* What a success adds.
Success == [passed |-> Stages, repairs |-> 0]

(***************************************************************************)
(* A success adds one to every sum but the repairs.                        *)
(***************************************************************************)
LEMMA SuccessAdds ==
  ASSUME NEW t, Counted(t)
  PROVE  /\ Add(t, Success) \in Tally
         /\ Add(t, Success).samples = t.samples + 1
         /\ Add(t, Success).repairs = t.repairs
         /\ \A m \in Metrics : Add(t, Success).passes[m] = t.passes[m] + 1
         /\ Divisor(Add(t, Success)) = t.samples + 1
<1>1. Success \in Outcome
  BY DEF Success, Outcome
<1>2. Add(t, Success) \in Tally
  BY <1>1, AddCounts DEF Counted
<1>3. \A m \in Metrics : Passes(Success, m)
  BY DEF Passes, Success, Metrics
<1>4. t.samples \in Nat /\ t.repairs \in Nat
  BY DEF Counted, Tally
<1>5. /\ Add(t, Success).samples = t.samples + 1
      /\ Add(t, Success).repairs = t.repairs
  BY <1>4 DEF Add, Success
<1>6. \A m \in Metrics : Add(t, Success).passes[m] = t.passes[m] + 1
  BY <1>3 DEF Add
<1>7. QED
  BY <1>2, <1>4, <1>5, <1>6 DEF Divisor

LEMMA SuccessKeepsThresholds ==
  ASSUME NEW t, Counted(t), MeetsThresholds(t)
  PROVE  MeetsThresholds(Add(t, Success))
<1> DEFINE more == Add(t, Success)
<1>1. /\ t.samples \in Nat /\ t.repairs \in Nat
      /\ \A m \in Metrics : t.passes[m] \in Nat
      /\ Divisor(t) \in Nat /\ Divisor(t) <= t.samples + 1
      /\ t.samples <= Divisor(t)
  BY DEF Counted, Tally, Divisor
<1>2. Unit \in Nat /\ MaximumRepairs \in Nat
  BY PolicyAssumption
<1>3. ASSUME NEW m \in Metrics
      PROVE  MeetsMinimum(more, m)
  <2>1. Minimum[m] \in Nat /\ Minimum[m] <= Unit
    BY PolicyAssumption
  <2>2. t.passes[m] * Unit >= Minimum[m] * Divisor(t)
    BY DEF MeetsThresholds, MeetsMinimum
  <2>3. t.samples * Minimum[m] <= Divisor(t) * Minimum[m]
    BY <1>1, <2>1, ProductMonotone
  <2>4. t.passes[m] * Unit >= Minimum[m] * t.samples
    BY <1>1, <1>2, <2>1, <2>2, <2>3
  <2>5. (t.passes[m] + 1) * Unit >= Minimum[m] * (t.samples + 1)
    BY <1>1, <1>2, <2>1, <2>4, QuotaGrows
  <2>6. QED
    BY <2>5, SuccessAdds DEF MeetsMinimum
<1>4. more.repairs * Unit <= MaximumRepairs * Divisor(more)
  <2>1. t.repairs * Unit <= MaximumRepairs * Divisor(t)
    BY DEF MeetsThresholds
  <2>2. Divisor(t) * MaximumRepairs <= (t.samples + 1) * MaximumRepairs
    BY <1>1, <1>2, ProductMonotone
  <2>3. t.repairs * Unit <= MaximumRepairs * (t.samples + 1)
    BY <1>1, <1>2, <2>1, <2>2
  <2>4. QED
    BY <2>3, SuccessAdds
<1>5. QED
  BY <1>3, <1>4 DEF MeetsThresholds

LEMMA SuccessKeepsLead ==
  ASSUME NEW t, Counted(t), NEW b \in Tally, b.samples > 0, Lead(t, b) >= 0
  PROVE  Lead(Add(t, Success), b) >= 0
<1> DEFINE x == t.passes["workflow"]
           u == b.samples * Unit
           l == b.passes["workflow"] * Unit + Delta * b.samples
<1>1. "workflow" \in Metrics
  BY DEF Metrics
<1>2. /\ t.samples \in Nat /\ x \in Nat /\ x <= t.samples
      /\ Divisor(t) \in Nat \ {0}
      /\ t.samples <= Divisor(t)
  BY <1>1 DEF Counted, Tally, Divisor
<1>3. /\ b.samples \in Nat /\ b.passes["workflow"] \in Nat
      /\ Unit \in Nat /\ Delta \in Nat
  BY <1>1, PolicyAssumption DEF Tally
<1>4. u \in Nat /\ l \in Nat
  BY <1>3
<1>5. x * u >= l * Divisor(t)
  BY <1>2, <1>3 DEF Lead
<1>6. Lead(Add(t, Success), b) = (x + 1) * u - l * (t.samples + 1)
  BY <1>1, <1>2, <1>3, SuccessAdds DEF Lead
<1> HIDE DEF x, u, l
<1>7. l <= u
  BY <1>2, <1>4, <1>5, QuotaIsAShare
<1>8. t.samples * l <= Divisor(t) * l
  BY <1>2, <1>4, ProductMonotone
<1>9. x * u >= l * t.samples
  BY <1>2, <1>4, <1>5, <1>8
<1>10. (x + 1) * u >= l * (t.samples + 1)
  BY <1>2, <1>4, <1>7, <1>9, QuotaGrows
<1>11. QED
  BY <1>2, <1>4, <1>6, <1>10

(***************************************************************************)
(* A version that meets the samples and the thresholds and is not behind   *)
(* is promoted.                                                            *)
(***************************************************************************)
LEMMA LeadPromotes ==
  ASSUME NEW c \in Tally, NEW b \in Tally, c.samples >= MinimumSamples,
         MeetsThresholds(c), b.samples = 0 \/ Lead(c, b) >= 0
  PROVE  MayPromote(c, b)
<1>1. c.samples \in Nat /\ MinimumSamples \in Nat
  BY PolicyAssumption DEF Tally
<1>2. ~(c.samples < MinimumSamples)
  BY <1>1
<1>3. Lead(c, b) \in Int
  BY LeadTyped
<1>4. b.samples = 0 \/ Lead(c, b) > 0 \/ Lead(c, b) = 0
  BY <1>3
<1>5. TRUE \in BeatsBaseline(c, b)
  BY <1>4, Zenon DEF BeatsBaseline
<1>6. "promote" \in {IF beats THEN "promote" ELSE "keep_candidate" :
                      beats \in BeatsBaseline(c, b)}
  BY <1>5, Zenon
<1>7. QED
  BY <1>2, <1>6, Zenon DEF MayPromote, Decide

(***************************************************************************)
(* One more run that passes without a repair never costs a version its     *)
(* promotion, whatever the policy and the rounding of ties.                *)
(***************************************************************************)
THEOREM SuccessKeepsPromotionHolds == Spec => SuccessKeepsPromotion
<1>1. ASSUME TalliesCounted, NEW p \in Prompts, NEW q \in Prompts, p # q,
             Succeeds(p), MayPromote(tally[p], tally[q])
      PROVE  MayPromote(tally'[p], tally'[q])
  <2>1. /\ tally'[p] = Add(tally[p], Success)
        /\ tally'[q] = tally[q]
    BY <1>1 DEF Succeeds, Success, TalliesCounted
  <2>2. Counted(tally[p]) /\ tally[p] \in Tally /\ tally[q] \in Tally
    BY <1>1 DEF TalliesCounted
  <2>3. /\ tally[p].samples >= MinimumSamples
        /\ MeetsThresholds(tally[p])
    BY <1>1, <2>2, PolicyAssumption DEF MayPromote, Decide, Tally
  <2>4. /\ Add(tally[p], Success) \in Tally
        /\ Add(tally[p], Success).samples >= MinimumSamples
    BY <2>2, <2>3, SuccessAdds, PolicyAssumption DEF Tally
  <2>5. MeetsThresholds(Add(tally[p], Success))
    BY <2>2, <2>3, SuccessKeepsThresholds
  <2>6. CASE tally[q].samples = 0
    BY <2>1, <2>2, <2>4, <2>5, <2>6, LeadPromotes
  <2>7. CASE tally[q].samples > 0
    <3>1. Lead(tally[p], tally[q]) >= 0
      BY <1>1, <2>2, <2>7, PromotionNeedsLead
    <3>2. Lead(Add(tally[p], Success), tally[q]) >= 0
      BY <2>2, <2>7, <3>1, SuccessKeepsLead
    <3>3. QED
      BY <2>1, <2>2, <2>4, <2>5, <3>2, LeadPromotes
  <2>8. QED
    BY <2>2, <2>6, <2>7 DEF Tally
<1>2. TalliesCounted =>
        [\A p, q \in Prompts :
           p # q /\ Succeeds(p) /\ MayPromote(tally[p], tally[q])
             => MayPromote(tally'[p], tally'[q])]_tally
  BY <1>1
<1>3. QED
  BY <1>2, CountsInvariant, PTL DEF SuccessKeepsPromotion
=============================================================================

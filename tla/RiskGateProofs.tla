--------------------------- MODULE RiskGateProofs ---------------------------
(***************************************************************************)
(* Proofs about RiskGate for all limits, thresholds, orders and answers.   *)
(***************************************************************************)
EXTENDS RiskGate, TLAPS

(* Both decisions are the ones the analysers give on the order under       *)
(* review; the model's answer is any of those it may give.                 *)
IInv ==
  /\ terms \in Terms
  /\ heuristic # Nil => heuristic = Decision(assess(terms), HeuristicThreshold)
  /\ llm # Nil => \E a \in Answers \union {NoAnswer} :
                    llm = Decision(RaisedScore(terms, a), ModelThreshold)

(* The heuristic's score is a number from 0 to 100. *)
LEMMA AssessRange == \A t : assess(t) \in 0 .. 100
<1> SUFFICES ASSUME NEW t PROVE assess(t) \in 0 .. 100
  OBVIOUS
<1>1. MarketRisk(t) \in {0, 15} /\ TIFRisk(t) \in {0, 5}
  BY DEF MarketRisk, TIFRisk
<1>2. QuantityRisk(t) \in {0, 100} /\ NotionalRisk(t) \in {0, 100}
  BY DEF QuantityRisk, NotionalRisk
<1> QED
  BY <1>1, <1>2 DEF assess

(* The model raises the score and keeps it in range. *)
LEMMA RaisedRange ==
  \A t : \A a \in Answers \union {NoAnswer} :
    RaisedScore(t, a) \in assess(t) .. 100
<1> SUFFICES ASSUME NEW t, NEW a \in Answers \union {NoAnswer}
             PROVE  RaisedScore(t, a) \in assess(t) .. 100
  OBVIOUS
<1>1. assess(t) \in 0 .. 100
  BY AssessRange
<1>2. CASE ModelScored(a)
  <2>1. a \in 0 .. 100
    BY <1>2, RiskAssumption DEF ModelScored
  <2> QED
    BY <2>1, <1>1, <1>2 DEF RaisedScore
<1>3. CASE ~ModelScored(a)
  BY <1>3, <1>1 DEF RaisedScore
<1> QED
  BY <1>2, <1>3

LEMMA ThresholdRange ==
  HeuristicThreshold \in 1 .. 100 /\ ModelThreshold \in 1 .. 100
BY RiskAssumption DEF HeuristicThreshold, ModelThreshold

(* What a decision holds. *)
LEMMA DecisionFields ==
  ASSUME NEW score, NEW threshold
  PROVE  /\ Decision(score, threshold).score = score
         /\ Decision(score, threshold).approved <=> score < threshold
<1>1. Decision(score, threshold).score = score
  BY DEF Decision
<1>2. Decision(score, threshold).approved = (score < threshold)
  BY Zenon DEF Decision
<1> QED
  BY <1>1, <1>2

LEMMA DecisionType ==
  ASSUME NEW score \in 0 .. 100, NEW threshold
  PROVE  Decision(score, threshold) \in Decisions
<1>1. (score < threshold) \in BOOLEAN
  OBVIOUS
<1> QED
  BY <1>1, Zenon DEF Decision, Decisions

LEMMA InitInv == Init => IInv
BY DEF Init, IInv

LEMMA StepInv == IInv /\ [Next]_vars => IInv'
<1> SUFFICES ASSUME IInv, [Next]_vars PROVE IInv'
  OBVIOUS
<1>1. CASE HeuristicCheck
  BY <1>1 DEF IInv, HeuristicCheck
<1>2. ASSUME NEW a \in Answers \union {NoAnswer}, LLMCheck(a)
      PROVE  IInv'
  BY <1>2 DEF IInv, LLMCheck
<1>3. CASE UNCHANGED vars
  BY <1>3 DEF IInv, vars
<1> QED
  BY <1>1, <1>2, <1>3 DEF Next

LEMMA Inductive == Spec => []IInv
BY InitInv, StepInv, PTL DEF Spec

(* A decision's score is from 0 to 100 for all risks and answers. *)
THEOREM TypeCorrect == Spec => []TypeOK
<1>1. IInv => TypeOK
  <2> SUFFICES ASSUME IInv PROVE TypeOK
    OBVIOUS
  <2>1. ASSUME heuristic # Nil PROVE heuristic \in Decisions
    BY <2>1, AssessRange, DecisionType DEF IInv
  <2>2. ASSUME llm # Nil PROVE llm \in Decisions
    <3>1. PICK a \in Answers \union {NoAnswer} :
            llm = Decision(RaisedScore(terms, a), ModelThreshold)
      BY <2>2 DEF IInv
    <3>2. RaisedScore(terms, a) \in 0 .. 100
      BY RaisedRange, AssessRange
    <3> QED
      BY <3>1, <3>2, DecisionType
  <2> QED
    BY <2>1, <2>2 DEF IInv, TypeOK
<1> QED
  BY Inductive, <1>1, PTL

(* The LLM analyser never approves what the heuristic rejects, for every   *)
(* model, as long as it was not built with a higher threshold.             *)
THEOREM StricterModel ==
  ASSUME ModelThreshold <= HeuristicThreshold
  PROVE  Spec => []ModelOnlyStricter
<1>1. IInv => ModelOnlyStricter
  <2> SUFFICES ASSUME IInv, heuristic # Nil, llm # Nil
               PROVE  /\ llm.score >= heuristic.score
                      /\ llm.approved => heuristic.approved
    BY DEF ModelOnlyStricter
  <2>1. PICK a \in Answers \union {NoAnswer} :
          llm = Decision(RaisedScore(terms, a), ModelThreshold)
    BY DEF IInv
  <2>2. heuristic = Decision(assess(terms), HeuristicThreshold)
    BY DEF IInv
  <2>3. /\ RaisedScore(terms, a) \in assess(terms) .. 100
        /\ assess(terms) \in 0 .. 100
    BY RaisedRange, AssessRange
  <2>4. llm.score = RaisedScore(terms, a) /\ heuristic.score = assess(terms)
    BY <2>1, <2>2, DecisionFields
  <2>5. /\ llm.approved <=> RaisedScore(terms, a) < ModelThreshold
        /\ heuristic.approved <=> assess(terms) < HeuristicThreshold
    BY <2>1, <2>2, DecisionFields
  <2> QED
    BY <2>3, <2>4, <2>5, ThresholdRange
<1> QED
  BY Inductive, <1>1, PTL

(* An order beyond a limit scores 100 if its notional fits int64. *)
LEMMA OversizedScore ==
  ASSUME NEW t \in Terms, Oversized(t),
         t.orderType = "LIMIT" => MulQuantity(t.limitPrice, t.quantity).ok
  PROVE  assess(t) = 100
<1>1. MarketRisk(t) \in {0, 15} /\ TIFRisk(t) \in {0, 5}
  BY DEF MarketRisk, TIFRisk
<1>2. QuantityRisk(t) \in {0, 100} /\ NotionalRisk(t) \in {0, 100}
  BY DEF QuantityRisk, NotionalRisk
<1>3. QuantityRisk(t) = 100 \/ NotionalRisk(t) = 100
  <2>1. CASE MaxQuantity > 0 /\ t.quantity > MaxQuantity
    BY <2>1 DEF QuantityRisk
  <2>2. CASE /\ t.orderType = "LIMIT" /\ MaxNotional > 0
             /\ RoundQuo(t.limitPrice * t.quantity, quantityScale) > MaxNotional
    <3>1. MulQuantity(t.limitPrice, t.quantity)
            = Value(RoundQuo(t.limitPrice * t.quantity, quantityScale))
      BY <2>2, MoneyAssumption DEF MulQuantity, mulDivRound, Overflow, Value
    <3> QED
      BY <2>2, <3>1 DEF NotionalRisk, Value
  <2> QED
    BY <2>1, <2>2 DEF Oversized
<1> QED
  BY <1>1, <1>2, <1>3 DEF assess

(* Neither analyser approves an order beyond a limit, whatever the model   *)
(* answers, as long as the notionals of all orders fit int64.              *)
THEOREM HardLimitsHold ==
  ASSUME \A t \in Terms : t.orderType = "LIMIT"
                            => MulQuantity(t.limitPrice, t.quantity).ok
  PROVE  Spec => []OversizedNeverApproved
<1>1. IInv => OversizedNeverApproved
  <2> SUFFICES ASSUME IInv, Oversized(terms)
               PROVE  /\ heuristic # Nil => ~heuristic.approved
                      /\ llm # Nil => ~llm.approved
    BY DEF OversizedNeverApproved
  <2>1. assess(terms) = 100
    BY OversizedScore DEF IInv
  <2>2. ASSUME heuristic # Nil PROVE ~heuristic.approved
    <3>1. heuristic.approved <=> assess(terms) < HeuristicThreshold
      BY <2>2, DecisionFields DEF IInv
    <3> QED
      BY <3>1, <2>1, ThresholdRange
  <2>3. ASSUME llm # Nil PROVE ~llm.approved
    <3>1. PICK a \in Answers \union {NoAnswer} :
            llm = Decision(RaisedScore(terms, a), ModelThreshold)
      BY <2>3 DEF IInv
    <3>2. RaisedScore(terms, a) = 100
      <4>1. RaisedScore(terms, a) \in assess(terms) .. 100
        BY RaisedRange
      <4> QED
        BY <4>1, <2>1
    <3>3. llm.approved <=> RaisedScore(terms, a) < ModelThreshold
      BY <3>1, DecisionFields
    <3> QED
      BY <3>2, <3>3, ThresholdRange
  <2> QED
    BY <2>2, <2>3
<1> QED
  BY Inductive, <1>1, PTL
=============================================================================

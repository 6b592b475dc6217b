------------------------------ MODULE RiskGate ------------------------------
(***************************************************************************)
(* The pre-trade risk analysers of internal/adapters/ai/analyzer.go on one *)
(* order: the heuristic and the one that adds a language model's score.    *)
(* A check changes nothing but its answer; the model may answer            *)
(* differently each time it is asked.  Reasons are left out.               *)
(***************************************************************************)
EXTENDS Order

CONSTANTS MaxNotional, MaxQuantity,   \* Thresholds; 0 switches a limit off
          RejectScore,                \* Thresholds of the heuristic
          ModelRejectScore,           \* Thresholds of the LLM analyser
          Terms,                      \* the orders to check
          Answers, NoAnswer,          \* the integers a model answers; error or no integer
          Nil

ASSUME RiskAssumption ==
  /\ MaxNotional \in Int64 /\ MaxQuantity \in Int64
  /\ RejectScore \in Int /\ RejectScore <= 100
  /\ ModelRejectScore \in Int /\ ModelRejectScore <= 100
  /\ Terms \subseteq TermRecords
  /\ Answers \subseteq Int
  /\ NoAnswer \notin Answers

VARIABLES
  terms,       \* the order under review
  heuristic,   \* the last decision of HeuristicAnalyzer.Check, or Nil
  llm          \* the last decision of LLMAnalyzer.Check, or Nil

vars == <<terms, heuristic, llm>>

(***************************************************************************)
(* Scoring.                                                                *)
(***************************************************************************)
(* NewHeuristicAnalyzer and NewLLMAnalyzer replace thresholds below 1. *)
HeuristicThreshold == IF RejectScore <= 0 THEN 80 ELSE RejectScore

ModelThreshold == IF ModelRejectScore <= 0 THEN HeuristicThreshold ELSE ModelRejectScore

MarketRisk(t) == IF t.orderType = "MARKET" THEN 15 ELSE 0

QuantityRisk(t) == IF MaxQuantity > 0 /\ t.quantity > MaxQuantity THEN 100 ELSE 0

(* A bug to catch: a breach of the limit is merely additive risk. *)
NotionalRiskAdditive(t) ==
  LET notional == MulQuantity(t.limitPrice, t.quantity)
  IN  IF /\ t.orderType = "LIMIT" /\ MaxNotional > 0
         /\ notional.ok /\ notional.val > MaxNotional
      THEN 60 ELSE 0

(* A notional that does not fit int64 is an error, and skips the limit. *)
NotionalRisk(t) ==
  LET notional == MulQuantity(t.limitPrice, t.quantity)
  IN  IF /\ t.orderType = "LIMIT" /\ MaxNotional > 0
         /\ notional.ok /\ notional.val > MaxNotional
      THEN 100 ELSE 0

TIFRisk(t) == IF t.tif \in {"FOK", "IOC"} THEN 5 ELSE 0

(* A bug to catch: the score is not cut at 100. *)
assessUncapped(t) == MarketRisk(t) + QuantityRisk(t) + NotionalRisk(t) + TIFRisk(t)

assess(t) ==
  LET score == MarketRisk(t) + QuantityRisk(t) + NotionalRisk(t) + TIFRisk(t)
  IN  IF score > 100 THEN 100 ELSE score

Decision(score, threshold) == [approved |-> score < threshold, score |-> score]

(* modelScore: an error, text that is no integer or an integer out of      *)
(* range is no score.                                                      *)
ModelScored(a) == a # NoAnswer /\ a >= 0 /\ a <= 100

(* A bug to catch: the model's score replaces the heuristic's. *)
ReplacedScore(t, a) == IF ModelScored(a) THEN a ELSE assess(t)

RaisedScore(t, a) == IF ModelScored(a) /\ a > assess(t) THEN a ELSE assess(t)

(***************************************************************************)
(* The state machine.                                                      *)
(***************************************************************************)
Init ==
  /\ terms \in {t \in Terms : ValidTerms(t)}
  /\ heuristic = Nil
  /\ llm = Nil

HeuristicCheck ==
  /\ heuristic' = Decision(assess(terms), HeuristicThreshold)
  /\ UNCHANGED <<terms, llm>>

LLMCheck(a) ==
  /\ llm' = Decision(RaisedScore(terms, a), ModelThreshold)
  /\ UNCHANGED <<terms, heuristic>>

Next == HeuristicCheck \/ \E a \in Answers \union {NoAnswer} : LLMCheck(a)

Spec == Init /\ [][Next]_vars

(***************************************************************************)
(* Safety.                                                                 *)
(***************************************************************************)
Decisions == [approved : BOOLEAN, score : 0 .. 100]

(* A score is a number from 0 to 100 (ports.go:57), whatever risks add up. *)
TypeOK ==
  /\ terms \in Terms
  /\ heuristic \in Decisions \union {Nil}
  /\ llm \in Decisions \union {Nil}

(* "The model may only push the score UP; it can never approve an order    *)
(* the heuristic rejected" (analyzer.go:98), whatever it answers and       *)
(* however often it is asked.                                              *)
ModelOnlyStricter ==
  heuristic # Nil /\ llm # Nil =>
    /\ llm.score >= heuristic.score
    /\ llm.approved => heuristic.approved

(* An order beyond a limit, by its true notional: no bound of int64. *)
Oversized(t) ==
  \/ MaxQuantity > 0 /\ t.quantity > MaxQuantity
  \/ /\ t.orderType = "LIMIT" /\ MaxNotional > 0
     /\ RoundQuo(t.limitPrice * t.quantity, quantityScale) > MaxNotional

(* "An oversized order can never slip through on balance" (analyzer.go:58),*)
(* past either analyser, whatever the model answers.                       *)
OversizedNeverApproved ==
  Oversized(terms) =>
    /\ heuristic # Nil => ~heuristic.approved
    /\ llm # Nil => ~llm.approved
=============================================================================

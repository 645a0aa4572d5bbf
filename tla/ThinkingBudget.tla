---------------------------- MODULE ThinkingBudget ----------------------------
(***************************************************************************)
(* The thinking budget of the second-generation Gemini client              *)
(* (shared/llm_gemini.py): what the constructor, the setters and a call    *)
(* ask for, and what _get_base_config sends.  -1 asks for dynamic          *)
(* thinking, 0 for none; None (here -2) leaves it to the model.            *)
(***************************************************************************)
EXTENDS Integers

CONSTANT Budget   \* the budgets that are asked for

ASSUME BudgetAssumption == Budget \subseteq Int \ {-2}

VARIABLES
  clientModel,   \* default_model
  clientBudget,  \* self.thinking_budget
  sentBudget     \* thinking_budget of the last request

budgetVars == <<clientModel, clientBudget, sentBudget>>

NotGiven == -2
Dynamic == -1
Model == {"PRO", "FLASH", "FLASH_LITE"}
Least == [PRO |-> 128, FLASH |-> 0, FLASH_LITE |-> 512]
Most == [PRO |-> 32768, FLASH |-> 24576, FLASH_LITE |-> 24576]

(* Variant for the mutation run: the floor is forgotten.                   *)
ClampAbove(m, b) == IF b > Most[m] THEN Most[m] ELSE b

Clamp(m, b) == IF b < Least[m] THEN Least[m] ELSE IF b > Most[m] THEN Most[m] ELSE b

(* The constructor takes any budget as it is.                              *)
BudgetInit ==
  /\ clientModel \in Model
  /\ clientBudget \in Budget \cup {NotGiven}
  /\ sentBudget = NotGiven

DisableThinking ==
  /\ clientModel # "PRO"
  /\ clientBudget' = 0
  /\ UNCHANGED <<clientModel, sentBudget>>

EnableDynamicThinking ==
  /\ clientBudget' = Dynamic
  /\ UNCHANGED <<clientModel, sentBudget>>

SetThinkingBudget(b) ==
  /\ clientBudget' = Clamp(clientModel, b)
  /\ UNCHANGED <<clientModel, sentBudget>>

(* _get_base_config for a call that overrides the budget, or does not; the *)
(* limits are those of default_model, whatever model the call names.       *)
SendRequest(b) ==
  LET budget == IF b # NotGiven THEN b ELSE clientBudget IN
  /\ sentBudget' = IF budget = NotGiven THEN NotGiven ELSE Clamp(clientModel, budget)
  /\ UNCHANGED <<clientModel, clientBudget>>

BudgetNext ==
  \/ DisableThinking \/ EnableDynamicThinking
  \/ \E b \in Budget : SetThinkingBudget(b)
  \/ \E b \in Budget \cup {NotGiven} : SendRequest(b)

BudgetSpec == BudgetInit /\ [][BudgetNext]_budgetVars

-----------------------------------------------------------------------------
(* Properties                                                              *)

(* Whatever the constructor, the setters and the calls asked for, a        *)
(* request of the client's own model carries a budget that the model       *)
(* takes, or none; other models have other limits.                         *)
SentInRange ==
  sentBudget # NotGiven => sentBudget \in Least[clientModel] .. Most[clientModel]
=============================================================================

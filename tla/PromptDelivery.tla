--------------------------- MODULE PromptDelivery ---------------------------
(***************************************************************************)
(* What becomes of the manual prompts, as somebody who asks for one may    *)
(* rely on it: a prompt waits, is taken out by the supervisor one at a     *)
(* time, and is then typed once or put back.  It is lost in two ways only: *)
(* it cannot be put back, and the window says so, or the program dies with *)
(* the prompt in hand.                                                     *)
(***************************************************************************)
CONSTANT Prompt

VARIABLES
    where,   \* where each prompt is
    told     \* the window shows that the last prompt could not be put back

deliveryVars == <<where, told>>

DeliveryInit ==
    /\ where = [p \in Prompt |-> "unasked"]
    /\ told = FALSE

Moves(p, from, to) ==
    where[p] = from /\ where' = [where EXCEPT ![p] = to]

Ask(p) == Moves(p, "unasked", "waiting") /\ UNCHANGED told

Take(p) ==
    /\ \A q \in Prompt : where[q] # "held"
    /\ Moves(p, "waiting", "held") /\ UNCHANGED told

PutBack(p) == Moves(p, "held", "waiting") /\ told' = FALSE

Type(p) == Moves(p, "held", "typed") /\ told' = FALSE

Lose(p) == Moves(p, "held", "lost") /\ told' = TRUE

Die(p) == Moves(p, "held", "buried") /\ told' = FALSE

(* A new agent, in the same program or in a new one.                       *)
Dismiss == told' = FALSE /\ UNCHANGED where

DeliveryNext ==
    \/ \E p \in Prompt :
         Ask(p) \/ Take(p) \/ PutBack(p) \/ Type(p) \/ Lose(p) \/ Die(p)
    \/ Dismiss

DeliverySpec == DeliveryInit /\ [][DeliveryNext]_deliveryVars

=============================================================================

------------------------------ MODULE MCGoesOn ------------------------------
(* Four parts of the program that must not get stuck, for TLC.  They share *)
(* no variable, so each is run by itself while the others stay as they are *)
(* at the start: one instance of each is explored instead of all the ways  *)
(* to interleave them.                                                     *)
EXTENDS Prompts, GuardProxy, AggregatePool, QualityWriter

CONSTANT u1            \* the upstream of the pool

VARIABLE part          \* the part that runs

OneUpstream == [m \in Member |-> u1]
OneAtATime == [u \in Upstream |-> 1]

TwoGuards == {[mode |-> "filterAndFail", rewrite |-> TRUE, shared |-> FALSE],
              [mode |-> "observeThenFail", rewrite |-> FALSE, shared |-> TRUE]}

(* The worker drives prompts unless another part runs.                     *)
GoesOnInit ==
    /\ part \in {"prompts", "guard", "pool", "writer"}
    /\ Init /\ (part # "prompts" => file.paused /\ rt.initial # "none")
    /\ GuardInit
    /\ part # "guard" => config.rewrite
    /\ PoolInit /\ QualityInit

GoesOnNext ==
    \/ part = "prompts" /\ Next /\ UNCHANGED <<part, guardVars, poolVars, qualityVars>>
    \/ part = "guard" /\ GuardNext /\ UNCHANGED <<part, vars, poolVars, qualityVars>>
    \/ part = "pool" /\ PoolNext /\ UNCHANGED <<part, vars, guardVars, qualityVars>>
    \/ part = "writer" /\ QualityNext /\ UNCHANGED <<part, vars, guardVars, poolVars>>

Only(action) == part = "prompts" /\ action

(* At the start nothing in the guard or the pool has to happen.  Nothing   *)
(* that is checked of the writer needs fairness.                           *)
GoesOnSpec ==
    /\ GoesOnInit /\ [][GoesOnNext]_<<part, vars, guardVars, poolVars, qualityVars>>
    /\ WF_vars(Only(DrivePrompt)) /\ WF_vars(Only(TimePasses))
    /\ WF_vars(Only(AgentReady)) /\ WF_vars(Only(AgentStarts))
    /\ WF_vars(Only(AgentAnswers)) /\ WF_vars(Only(AgentFinishes))
    /\ GuardFairness
    /\ PoolFairness

=============================================================================

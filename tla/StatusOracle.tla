---------------------------- MODULE StatusOracle ----------------------------
(***************************************************************************)
(* What eleel promises a consensus node, whatever the method: an answer    *)
(* that carries a payload status carries one the execution engine's        *)
(* answers support for the question asked, or a SYNCING of eleel's own     *)
(* where it may make one up.  Caches, waiting, matching and concurrent     *)
(* requests do not appear here.  ForkchoiceUpdated and NewPayload each     *)
(* implement this specification.                                           *)
(***************************************************************************)
EXTENDS Types

CONSTANTS
    Task,
    Question,
    Supports(_, _, _),   \* said, question, status: the engine's answers said
                         \* support that status for that question
    MaySynthesise(_, _)  \* task, question: SYNCING may be made up

VARIABLES
    said,      \* what the engine has answered
    question,  \* the question each task has, or had last
    busy,      \* whether it still waits for the answer
    reply      \* the answer to its last question

vars == <<said, question, busy, reply>>

Init ==
    /\ said = {}
    /\ question \in [Task -> Question]
    /\ busy = [t \in Task |-> FALSE]
    /\ reply = [t \in Task |-> "none"]

\* The new question of task t replaces its last.
Poses(t) ==
    /\ ~busy[t]
    /\ question'[t] \in Question
    /\ question' = [question EXCEPT ![t] = question'[t]]
    /\ UNCHANGED said

Ask(t) ==
    /\ Poses(t)
    /\ busy' = [busy EXCEPT ![t] = TRUE]
    /\ reply' = [reply EXCEPT ![t] = "none"]

\* A question that cannot be understood is answered at once, not by a status.
Refuse(t) ==
    /\ Poses(t)
    /\ reply'[t] \notin Status
    /\ reply' = [reply EXCEPT ![t] = reply'[t]]
    /\ UNCHANGED busy

\* The engine answers something: nothing it has said is forgotten.
Learn ==
    /\ said \subseteq said'
    /\ UNCHANGED <<question, busy, reply>>

MayAnswer(t, r) ==
    r \in Status =>
        \/ Supports(said, question[t], r)
        \/ r = "SYNCING" /\ MaySynthesise(t, question[t])

Answer(t) ==
    /\ busy[t]
    /\ busy' = [busy EXCEPT ![t] = FALSE]
    /\ MayAnswer(t, reply'[t])
    /\ reply' = [reply EXCEPT ![t] = reply'[t]]
    /\ UNCHANGED <<said, question>>

Next == Learn \/ \E t \in Task : Ask(t) \/ Refuse(t) \/ Answer(t)

Spec == Init /\ [][Next]_vars
=============================================================================

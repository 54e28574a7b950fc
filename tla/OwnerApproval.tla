--------------------------- MODULE OwnerApproval ---------------------------
(***************************************************************************)
(* What the proposal flow promises the owner, without store, broker, issue *)
(* tracker or seats: work begins on a request only after the owner granted *)
(* it; a refusal holds until somebody asks again; stopped work resumes     *)
(* only where it had been granted.                                         *)
(***************************************************************************)
CONSTANT Ids

VARIABLES
  stage,    \* where each request stands
  granted,  \* the requests the owner has ever granted
  begun     \* the requests on which something was begun in the owner's name

vars == <<stage, granted, begun>>

Stages == {"none", "open", "granted", "refused", "stopped", "done"}

Init ==
  /\ stage = [id \in Ids |-> "none"]
  /\ granted = {}
  /\ begun = {}

Moves(id, from, to) ==
  /\ stage[id] \in from
  /\ stage' = [stage EXCEPT ![id] = to]

\* A new request, or a request again after the last one ended.
Ask(id) ==
  Moves(id, {"none", "refused", "stopped", "done"}, "open") /\ UNCHANGED <<granted, begun>>

Grant(id) ==
  Moves(id, {"open"}, "granted") /\ granted' = granted \cup {id} /\ UNCHANGED begun

\* A no, or no answer in time.  Silence may refuse several requests at once.
Refuse ==
  /\ \E silent \in (SUBSET Ids) \ {{}} :
       /\ \A id \in silent : stage[id] = "open"
       /\ stage' = [id \in Ids |-> IF id \in silent THEN "refused" ELSE stage[id]]
  /\ UNCHANGED <<granted, begun>>

Stop(id)   == Moves(id, {"granted"}, "stopped") /\ UNCHANGED <<granted, begun>>
Resume(id) == Moves(id, {"stopped"}, "granted") /\ UNCHANGED <<granted, begun>>
Finish(id) == Moves(id, {"granted"}, "done") /\ UNCHANGED <<granted, begun>>

\* Work begun under an earlier grant may come late, when its request has moved on.
Begin(id) == id \in granted /\ begun' = begun \cup {id} /\ UNCHANGED <<stage, granted>>

Next ==
  \/ Refuse
  \/ \E id \in Ids : Ask(id) \/ Grant(id) \/ Stop(id) \/ Resume(id) \/ Finish(id) \/ Begin(id)

Spec == Init /\ [][Next]_vars
=============================================================================

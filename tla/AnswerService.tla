--------------------------- MODULE AnswerService ----------------------------
(***************************************************************************)
(* What POST /recommend promises about one answer, whatever the batches    *)
(* do to the database meanwhile: everything that the answer shows was true *)
(* at some moment between question and answer, a recommended image is one  *)
(* of the images shown, with the digest shown for it, every citation that  *)
(* is called verified stands in a text that the answer carries, and an     *)
(* answer without a recommendation says that it is degraded.               *)
(***************************************************************************)
CONSTANTS Requests, Facts, None

VARIABLES facts,    \* what the database says now
          window,   \* what it has said since each question was asked
          stage,    \* where each request stands
          reply     \* its answer, None before and for an error

serviceVars == <<facts, window, stage, reply>>

Init == /\ facts \subseteq Facts
        /\ window = [r \in Requests |-> {}]
        /\ stage = [r \in Requests |-> "idle"]
        /\ reply = [r \in Requests |-> None]

Honest(a, known) ==
  /\ a.shown \subseteq known
  /\ a.pinned \subseteq a.shown
  /\ a.quoted \subseteq a.shown
  /\ a.recommends => a.pinned # {}
  /\ a.recommends \/ a.degraded

Ask(r) == /\ stage[r] = "idle"
          /\ stage' = [stage EXCEPT ![r] = "asked"]
          /\ window' = [window EXCEPT ![r] = facts]
          /\ UNCHANGED <<facts, reply>>

Publish == /\ facts' \subseteq Facts
           /\ window' = [r \in Requests |-> IF stage[r] = "asked"
                                            THEN window[r] \union facts'
                                            ELSE window[r]]
           /\ UNCHANGED <<stage, reply>>

Answer(r) == /\ stage[r] = "asked"
             /\ stage' = [stage EXCEPT ![r] = "answered"]
             /\ reply' = [reply EXCEPT ![r] = reply'[r]]
             /\ reply'[r] # None => Honest(reply'[r], window[r])
             /\ window' = [window EXCEPT ![r] = {}]
             /\ UNCHANGED facts

Next == Publish \/ \E r \in Requests : Ask(r) \/ Answer(r)

Spec == Init /\ [][Next]_serviceVars
=============================================================================

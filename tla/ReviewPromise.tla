--------------------------- MODULE ReviewPromise ----------------------------
(***************************************************************************)
(* What the review workflow promises about the target database, without    *)
(* its requests, sagas, repairs and failures: a write takes effect at most *)
(* once, only after enough other people have consented, and never once the *)
(* review was closed or has failed.                                        *)
(***************************************************************************)
EXTENDS Naturals

CONSTANTS Reviews, Users, Submitter, TwoPerson, AuthEnabled

VARIABLES phase,   \* where the review stands
          votes,   \* who has consented to it
          effect   \* how often the write took effect on the target

Phases == {"none", "open", "closed", "running", "failed", "applied"}

\* Somebody consented; two different people when the review demands it.
Enough(r, voters) ==
  /\ voters # {}
  /\ AuthEnabled => /\ Submitter[r] \notin voters
                    /\ TwoPerson[r] => \E u, v \in voters : u # v

Init ==
  /\ phase = [r \in Reviews |-> "none"]
  /\ votes = [r \in Reviews |-> {}]
  /\ effect = [r \in Reviews |-> 0]

Move(r, from, to) == phase[r] = from /\ phase' = [phase EXCEPT ![r] = to]

Open(r)  == Move(r, "none", "open") /\ UNCHANGED <<votes, effect>>
Close(r) == Move(r, "open", "closed") /\ UNCHANGED <<votes, effect>>
Fail(r)  == Move(r, "running", "failed") /\ UNCHANGED <<votes, effect>>

Vote(r, u) ==
  /\ phase[r] = "open"
  /\ votes' = [votes EXCEPT ![r] = @ \cup {u}]
  /\ UNCHANGED <<phase, effect>>

Run(r, u) ==
  /\ Move(r, "open", "running")
  /\ votes' = [votes EXCEPT ![r] = @ \cup {u}]
  /\ Enough(r, votes'[r])
  /\ UNCHANGED effect

Apply(r) ==
  /\ Move(r, "running", "applied")
  /\ effect' = [effect EXCEPT ![r] = @ + 1]
  /\ UNCHANGED votes

Next == \E r \in Reviews :
  \/ Open(r) \/ Close(r) \/ Fail(r) \/ Apply(r)
  \/ \E u \in Users : Vote(r, u) \/ Run(r, u)

Spec == Init /\ [][Next]_<<phase, votes, effect>>
=============================================================================

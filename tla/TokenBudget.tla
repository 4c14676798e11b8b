---------------------------- MODULE TokenBudget -----------------------------
(***************************************************************************)
(* What response rate limiting promises: every bucket starts full, a       *)
(* response takes a cell of its bucket or is refused because that bucket   *)
(* is empty, and time gives cells back.  No bucket is ever forgotten.      *)
(***************************************************************************)
EXTENDS Integers

CONSTANTS Task, Response, Bucket, BURST,
          Own       \* response -> the bucket it is charged to

VARIABLES cells,    \* bucket -> cells left
          verdict,  \* task -> "pass" or "refuse", the last verdict
          withheld  \* task -> the response that was refused, or NoResponse

bvars == <<cells, verdict, withheld>>

NoResponse == <<>>

BInit == /\ cells = [b \in Bucket |-> BURST]
         /\ verdict = [t \in Task |-> "pass"]
         /\ withheld = [t \in Task |-> NoResponse]

Says(t, v, r) == /\ verdict' = [verdict EXCEPT ![t] = v]
                 /\ withheld' = [withheld EXCEPT ![t] = r]

Exempted(t) == Says(t, "pass", NoResponse) /\ UNCHANGED cells

Passed(t, r) == /\ cells[Own[r]] > 0
                /\ cells' = [cells EXCEPT ![Own[r]] = @ - 1]
                /\ Says(t, "pass", NoResponse)

Refused(t, r) == /\ cells[Own[r]] = 0
                 /\ Says(t, "refuse", r)
                 /\ UNCHANGED cells

Refilled == /\ cells' = [b \in Bucket |-> IF cells[b] < BURST THEN cells[b] + 1
                                                             ELSE cells[b]]
            /\ UNCHANGED <<verdict, withheld>>

BNext == \/ \E t \in Task : \/ Exempted(t)
                            \/ \E r \in Response : Passed(t, r) \/ Refused(t, r)
         \/ Refilled

BSpec == BInit /\ [][BNext]_bvars
=============================================================================

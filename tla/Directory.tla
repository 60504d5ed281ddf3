------------------------------ MODULE Directory ------------------------------
(***************************************************************************)
(* What registration, and the creation of a product, promise to a client: a  *)
(* name (an e-mail address, a SKU) is entered in one step or not at all, 201   *)
(* means that this request entered it, and 409 that it was there already.      *)
(* After a 500 the client knows nothing.                                       *)
(***************************************************************************)
CONSTANTS Requests, Names

VARIABLES
    members,  \* names in the directory
    claim     \* the claim of each request

NoClaim == [at |-> "none"]
Claim == {NoClaim} \cup [at : {"asking", "entered", "created", "refused", "failed"},
                         name : Names]

Init == members \in SUBSET Names /\ claim = [r \in Requests |-> NoClaim]

Becomes(r, at) == claim' = [claim EXCEPT ![r].at = at]

Ask(r, n) ==
    /\ claim[r] = NoClaim
    /\ claim' = [claim EXCEPT ![r] = [at |-> "asking", name |-> n]]
    /\ UNCHANGED members

Enter(r) ==
    /\ claim[r].at = "asking"
    /\ claim[r].name \notin members
    /\ members' = members \cup {claim[r].name}
    /\ Becomes(r, "entered")

Refuse(r) ==
    /\ claim[r].at = "asking"
    /\ claim[r].name \in members
    /\ Becomes(r, "refused")
    /\ UNCHANGED members

Confirm(r) ==
    /\ claim[r].at = "entered"
    /\ Becomes(r, "created")
    /\ UNCHANGED members

\* What failed while it was asking may have been entered unnoticed.
Fail(r) ==
    /\ claim[r].at \in {"asking", "entered"}
    /\ Becomes(r, "failed")
    /\ \/ UNCHANGED members
       \/ /\ claim[r].at = "asking"
          /\ claim[r].name \notin members
          /\ members' = members \cup {claim[r].name}

Leave(leaving) ==
    /\ claim' = [r \in Requests |-> IF r \in leaving THEN NoClaim ELSE claim[r]]
    /\ UNCHANGED members

\* Somebody else removes names.
Remove == members' \in SUBSET members /\ UNCHANGED claim

Next ==
    \/ \E r \in Requests : \/ \E n \in Names : Ask(r, n)
                           \/ Enter(r) \/ Refuse(r) \/ Confirm(r) \/ Fail(r)
    \/ \E leaving \in SUBSET Requests : Leave(leaving)
    \/ Remove

Spec == Init /\ [][Next]_<<members, claim>>
=============================================================================

----------------------------- MODULE MCAccounts -----------------------------
(* Accounts and LoginLimits share no variable, so a behaviour of the two    *)
(* is one of each: the run explores them one at a time.                     *)
EXTENDS Accounts, LoginLimits, TLC

VARIABLE part

MCInit == part \in {"accounts", "limits"} /\ Init /\ LimitsInit
          /\ (part = "limits" => Present = {}) /\ (part = "accounts" => row.st = "none")
MCNext ==
    \/ part = "accounts" /\ Next /\ UNCHANGED <<part, limitsVars>>
    \/ part = "limits" /\ LimitsNext /\ UNCHANGED <<part, vars>>
MCSpec == MCInit /\ [][MCNext]_<<part, vars, limitsVars>>

(* Requests, session ids, users, names and passwords are interchangeable.  *)
MCSymmetry == Permutations(Requests) \cup Permutations(Sessions) \cup Permutations(Ids)
              \cup Permutations(Names) \cup Permutations(Passwords)
=============================================================================

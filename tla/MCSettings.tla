----------------------------- MODULE MCSettings -----------------------------
(***************************************************************************)
(* What the server keeps for its users and for itself: the sealed          *)
(* credentials, the token of the GitHub App and the configuration file.    *)
(* The modules share no variable, so a behaviour of them all is one of     *)
(* each: the run explores them one at a time, with the others in one       *)
(* initial state.                                                          *)
(***************************************************************************)
EXTENDS Credentials, AppToken, ConfigFile, TLC

VARIABLE part

----------------------------------------------------------------------------
(* Patches that are each fine and together are not.                        *)
MCPatches ==
    {[section |-> "agent", set |-> [provider |-> "opencode"]],
     [section |-> "agent", set |-> [url |-> "blank"]]}

(* What an operator writes: a file that names a provider without its       *)
(* endpoint.                                                               *)
MCEdits == {[CfDefault EXCEPT !.provider = "opencode"]}

----------------------------------------------------------------------------
(* No property relates the requests in flight to the bundles in use or to  *)
(* the AI keys, so the credentials are explored once with requests on the  *)
(* GitHub and Jira tokens and once with AI keys and bundles.               *)
MCInit ==
    /\ part \in {"requests", "bundles", "token", "config"}
    /\ CredInit /\ (part \notin {"requests", "bundles"} => ~env /\ ~autoGen)
    /\ AppInit
    /\ CfInit /\ (part # "config" => ~cfBound)

MCNext ==
    \/ part = "requests" /\ CredNext /\ UNCHANGED <<part, appVars, cfVars, build>>
          /\ \A k \in AiKinds : stored'[k] = Absent
    \/ part = "bundles" /\ CredNext /\ UNCHANGED <<part, appVars, cfVars, post>>
    \/ part = "token" /\ AppNext /\ UNCHANGED <<part, credVars, cfVars>>
    \/ part = "config" /\ CfNext /\ UNCHANGED <<part, credVars, appVars>>
MCSpec == MCInit /\ [][MCNext]_<<part, credVars, appVars, cfVars>>

----------------------------------------------------------------------------
(* Requests, secrets, sites and callers are interchangeable.               *)
Swap(S, on) == CHOOSE f \in Permutations(S) : \A x \in S : (f[x] # x) <=> on
MCSymmetry ==
    {Swap(Secrets, a) @@ Swap(Sites, b) @@ Swap(Posts, c) @@ Swap(Callers, a)
       @@ Swap(CfReqs, a) : a \in BOOLEAN, b \in BOOLEAN, c \in BOOLEAN}
=============================================================================

------------------------------ MODULE MCIntake ------------------------------
(***************************************************************************)
(* Two boards that share nothing, explored one at a time: on the first     *)
(* tickets of one user are polled, asked for by two requests, settled and  *)
(* deleted; on the second two users also retry and resume, one request at  *)
(* a time, and rows without an owner are there from before.                *)
(***************************************************************************)
EXTENDS Intake, TLC

CONSTANT RetryKeys
VARIABLE part

(* Every repository has a cap of two items.                                *)
MCCaps == [r \in Repos |-> 2]

Board == INSTANCE Intake
         WITH Keys <- Keys \ RetryKeys, Users <- {Owner}, Ops <- {"settle", "delete"}
Retry == INSTANCE Intake WITH Keys <- RetryKeys

AtWork == {r \in Requests : req[r].pc # "idle"}

MCInit ==
    /\ Init /\ part \in {"board", "retry"}
    /\ \A k \in IF part = "board" THEN RetryKeys ELSE Keys \ RetryKeys : board[k] = NoRow
    /\ part = "board" => \A k \in Keys : board[k].user \in {Owner, NoUser}
MCNext ==
    \/ part = "board" /\ Board!Next /\ UNCHANGED part
    \/ part = "retry" /\ Retry!Next /\ UNCHANGED part /\ Cardinality(AtWork') <= 1
MCSpec == MCInit /\ [][MCNext]_<<vars, part>>

(* Keys of one board, and the handlers of requests, are interchangeable.   *)
MCSymmetry == Permutations(Keys \ RetryKeys) \cup Permutations(RetryKeys)
              \cup Permutations(Requests)
=============================================================================

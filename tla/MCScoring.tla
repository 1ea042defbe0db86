------------------------------ MODULE MCScoring -------------------------------
(***************************************************************************)
(* Three leads, from the weakest to the strongest a profile can be, and    *)
(* two concurrent calls that meet on them.                                 *)
(***************************************************************************)
EXTENDS Scoring, TLC

CONSTANTS weak, fair, strong

MCProfile ==
  (weak   :> [source |-> "other", size |-> 0, revenue |-> 0, notes |-> FALSE]) @@
  (fair   :> [source |-> "webinar", size |-> 250, revenue |-> 1000000, notes |-> FALSE]) @@
  (strong :> [source |-> "referral", size |-> 1000, revenue |-> 10000000, notes |-> TRUE])

\* The calls that meet: two score jobs, the embeddings route,
\* the similar route and /metrics.
MCRequests ==
  {[op |-> "score",   lead |-> weak,   in |-> "worker"],
   [op |-> "score",   lead |-> strong, in |-> "worker"],
   [op |-> "embed",   lead |-> weak,   in |-> "api"],
   [op |-> "similar", lead |-> weak,   in |-> "api"],
   [op |-> "metrics", lead |-> weak,   in |-> "api"]}

\* A neighbour that is equal and was won, or opposite and lost; below, within
\* and above the bounds of a probability.
MCMatches == {[status |-> "won", similarity |-> 10000],
              [status |-> "lost", similarity |-> -10000]}
MCReplies == {-10, 99996, 100010}

\* The processes agree on the model, or the worker was not redeployed yet.
CONSTANTS local, remote

MCDeployments ==
  {[api |-> remote, worker |-> remote], [api |-> remote, worker |-> local]}

MCSymmetry == Permutations(Calls)
===============================================================================

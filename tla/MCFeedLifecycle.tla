-------------------------- MODULE MCFeedLifecycle --------------------------
(* Small instances of FeedLifecycle.                                       *)
EXTENDS FeedLifecycle, TLC

\* Requests are interchangeable, and so are supervisors.
FeedSymmetry == Permutations(Handlers) \cup Permutations(Feeds)
=============================================================================

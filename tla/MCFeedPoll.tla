----------------------------- MODULE MCFeedPoll -----------------------------
(* Small instances of FeedPoll for TLC.                                    *)
EXTENDS FeedPoll, TLC

CONSTANTS h, r, q

(* Four posts of one paged listing; three posts of a group of two reddit   *)
(* sources, fetched together.                                              *)
PagedHome == (1 :> h) @@ (2 :> h) @@ (3 :> h) @@ (4 :> h)
PagedKind == (h :> "hackernews")

GroupHome == (1 :> r) @@ (2 :> q) @@ (3 :> r)
GroupKind == (r :> "reddit") @@ (q :> "reddit")

Interchangeable == Permutations(Poller)
=============================================================================

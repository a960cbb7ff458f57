----------------------------- MODULE MCLongPoll -----------------------------
(* LongPoll on small instances: who polls, and from which host. *)
EXTENDS LongPoll, TLC

CONSTANTS w1, w2, h1, p1, p2

\* One watcher; and one that shares its host, and its connection, with /polls.
OneWatcher == [w \in {w1} |-> h1]
SharedHost == [w \in {w1, w2} |-> h1]

\* For safety only.
PublisherSymmetry == Permutations({p1, p2})

=============================================================================

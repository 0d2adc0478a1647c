----------------------------- MODULE MCForumNet -----------------------------
(***************************************************************************)
(* ForumNet on small instances.  Threads, descriptors, and connections of  *)
(* one kind are interchangeable; the runs that check safety use that.      *)
(***************************************************************************)
EXTENDS ForumNet, TLC

SameKind(p) ==
  \A c \in Conns : /\ c \in Resets <=> p[c] \in Resets
                   /\ c \in Slow <=> p[c] \in Slow
                   /\ c \in Split <=> p[c] \in Split
                   /\ c \in Fatal <=> p[c] \in Fatal

Symmetry ==
  Permutations(Threads) \cup Permutations(Fds)
    \cup {p \in Permutations(Conns) : SameKind(p)}
==============================================================================

----------------------------- MODULE MCAllocator -----------------------------
(* Small instances of the allocator for TLC.                                *)
EXTENDS Allocator

MCJobName == [t \in Target |-> IF t \in {"t3", "t4"} THEN "j2" ELSE "j1"]

MCNameRank == [c \in Collector |-> CASE c = "c1" -> 1 [] c = "c2" -> 2 [] OTHER -> 3]

\* A ring that spreads the keys and moves some of them when a member joins.
MCLocateKey ==
    [M \in SUBSET Collector \ {{}} |->
        [u \in URL |->
            IF u = "u1"
            THEN CHOOSE c \in M : \A d \in M : NameRank[c] <= NameRank[d]
            ELSE CHOOSE c \in M : \A d \in M : NameRank[c] >= NameRank[d]]]

OneMeta == {[url |-> "u1", node |-> NoNode]}
UrlMeta == {[url |-> "u1", node |-> NoNode], [url |-> "u2", node |-> NoNode]}
NodeMeta == {[url |-> "u1", node |-> "n1"], [url |-> "u1", node |-> "n2"],
             [url |-> "u2", node |-> NoNode]}
=============================================================================

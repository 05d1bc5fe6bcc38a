----------------------------- MODULE MCPrefixCache -----------------------------
(* Instances of PrefixCache for TLC.                                       *)
EXTENDS PrefixCache

CONSTANTS r1, r2, r3, f1, f2, i1, g1

Nodes == {r1, r2, r3}
Flushers == {f1, f2}
OneFlusher == {f1}
Ingesters == {i1}
Readers == {g1}

\* Two capital letters, a caron that joins j but not J, a blank.
LowerLetters == [c \in {"I", "J"} |-> IF c = "I" THEN "i" ELSE "j"]
Composites == [p \in {<<"j", "caron">>} |-> "j with caron"]
Blanks == {" "}
Controls == {"NUL"}

\* Clients type " I" and "I%" and search for "ip" and "i%p"; the key of "ip" is only deleted.
RawTexts == {<<" ", "I">>, <<"I", "%">>}
Searched == {<<"I", "p">>, <<"I", "%", "p", " ">>}
RowTexts == {QueryOf(raw) : raw \in Searched}
RankOfRow == [q \in RowTexts |-> IF q = <<"i", "p">> THEN 1 ELSE 0]
CacheKeys == {suggestion_cache_key(PrefixOf(raw)) : raw \in RawTexts \cup {<<"i", "p">>}}
Deltas == {[q \in RowTexts |-> 1], [q \in RowTexts |-> IF q = <<"i", "p">> THEN 1 ELSE 0]}
\* Bound: requests are served on the ring without collisions.
ServesWithoutCollisions == serving => NoCollisions

Symmetry == Permutations(Flushers)

\* A client searches for a capital J with a caron, and types it again.
CaronTexts == {<<"J", "caron">>}
CaronRows == {QueryOf(raw) : raw \in CaronTexts}
RankOfCaronRow == [q \in CaronRows |-> 0]
CaronDeltas == {[q \in CaronRows |-> 1]}
CaronKeys == {suggestion_cache_key(PrefixOf(raw)) : raw \in CaronTexts}
CaronHash ==
    {[replica |-> [r \in Nodes \X {1} |-> IF r[1] = r1 THEN 1 ELSE IF r[1] = r2 THEN 2 ELSE 3],
      key |-> [k \in CaronKeys |-> 2]]}

\* Hash functions without collisions, and one where replicas of all nodes fall together.
HashWith(places, points) ==
    [replica |-> [r \in Nodes \X {1, 2} |->
                     places[(IF r[1] = r1 THEN 0 ELSE IF r[1] = r2 THEN 2 ELSE 4) + r[2]]],
     key |-> [k \in CacheKeys |-> points[Len(k[2]) + (IF k[2] = <<"i", "%">> THEN 1 ELSE 0)]]]
Hashes ==
    {HashWith(<<1, 8, 3, 5, 4, 9>>, <<2, 6, 10>>),
     HashWith(<<1, 4, 1, 2, 4, 2>>, <<2, 4, 9>>)}

=============================================================================

----------------------------- MODULE MCCrawlBFS -----------------------------
(* CrawlBFS on small sites: the URLs of the set Far are on a host other than *)
(* the seed's.                                                               *)
EXTENDS CrawlBFS

CONSTANTS Far, pa, pb, pc, pd, pe

\* Pages of the far host may be exchanged.
Symmetry == Permutations(Far)

TwoHosts == {"near", "far"}
SplitHosts == [u \in URLs |-> IF u \in Far THEN "far" ELSE "near"]

\* Every site of these pages; links back to the seed and to oneself are left
\* out, they are never fresh.
EverySite ==
  {f \in [URLs -> SUBSET (URLs \ {Seed})] : \A u \in URLs : u \notin f[u]}

\* The seed links to every page, and no other page to any.
Star == {[u \in URLs |-> IF u = Seed THEN URLs \ {Seed} ELSE {}]}

\* Two ways to pc: one link after pb, two after pa.
LongWayRound ==
  {[u \in URLs |-> CASE u = Seed -> {pa, pb}
                     [] u = pa -> {pd}
                     [] u = pd -> {pc}
                     [] u = pb -> {pc}
                     [] u = pc -> {pe}
                     [] OTHER -> {}]}
=============================================================================

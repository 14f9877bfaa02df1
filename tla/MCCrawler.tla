------------------------------ MODULE MCCrawler ------------------------------
(* Crawler for TLC: some URLs of the site share a path.                     *)
EXTENDS Crawler, TLC

CONSTANTS home, a, b, c, d, e, f, root, p, q, r

SharedPaths ==
  [u \in Url |-> IF u = home THEN root
                 ELSE IF u \in {a, b} THEN p
                 ELSE IF u = c THEN q ELSE r]

=============================================================================

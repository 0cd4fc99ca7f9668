--------------------------- MODULE MCFormVersions ---------------------------
(* One builder page alone, so that TLC shows what needs no second page.    *)
EXTENDS FormVersions

CONSTANTS e1, h1, h2, r1

OneEditor == {e1}
MCHashes == {h1, h2}
MCReplies == {r1}
=============================================================================

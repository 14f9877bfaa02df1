------------------------------- MODULE MCWebUi -------------------------------
(* WebUi for TLC: calls of other programs with one defect, or with a credential *)
(* and one defect.                                                             *)
EXTENDS WebUi

CONSTANTS here, there

Good == [PageRequest("scan", None) EXCEPT !.target = there, !.checks = "valid", !.header = 1]

Defects ==
  {[Good EXCEPT !.path = FALSE], [Good EXCEPT !.host = FALSE],
   [Good EXCEPT !.header = None, !.query = 1], [Good EXCEPT !.header = 2, !.cookie = 1],
   [Good EXCEPT !.length = "over"], [Good EXCEPT !.body = "list"],
   [Good EXCEPT !.checks = "shape"], [Good EXCEPT !.crawl = "other"]}

Extras == {<<"Authorized">>, <<"password">>, <<"chekcs", "access_token">>}

MCCalls ==
  {Good, [Good EXCEPT !.userinfo = TRUE]} \cup Defects
  \cup {[Good EXCEPT !.extra = e] : e \in Extras}
  \cup {[d EXCEPT !.extra = <<"chekcs", "access_token">>] : d \in Defects}
  \cup {[Good EXCEPT !.authorized = FALSE, !.extra = <<"token">>]}

=============================================================================

------------------------------ MODULE MCIntake ------------------------------
(* Instance of Intake for TLC.  The feeds have two candidates of one company
   (with different status and spellings), one that earlier runs excluded, one
   of a known company whose site is dead, and a malformed one. *)
EXTENDS Intake, TLC

CONSTANTS w1, w2, s1, s2, s3, s4, s5, s6, t1, t2, g1, g2

Name(letters, suffix) == [letters |-> letters, suffix |-> suffix, note |-> {}, legal |-> FALSE]

Alpha == Name({s1, s2, s3}, {t1, t2})
Beta  == Name({s4, s5, s6}, {})
Short == Name({s4}, {})
Number(v, digits) == [value |-> v, digits |-> digits]
Small == [doctors |-> 1, stores |-> None, branches |-> None]
Large == [doctors |-> 21, stores |-> None, branches |-> None]

Url(scheme, host, slash) == [scheme |-> scheme, www |-> FALSE, host |-> host, path |-> <<>>, slash |-> slash]
Own  == <<"a", "kr">>
Blog == <<"me", "tistory", "com">>

Base == [ source |-> "hira", externalId |-> 1, valid |-> TRUE, bizNo |-> None, corpNo |-> None,
          name |-> Alpha, industry |-> "derma", phone |-> Number("p1", 10), sido |-> None, sigungu |-> g1,
          address |-> "x", status |-> "active", size |-> Small, homepageUrl |-> None ]

(* Without a site; with one, twice, once on another protocol; closed. *)
Plain  == [Base EXCEPT !.bizNo = Number("b1", 10)]
Sited  == [Base EXCEPT !.bizNo = Number("b1", 10), !.externalId = 2, !.homepageUrl = Url("http", Own, TRUE)]
Https  == [Base EXCEPT !.bizNo = Number("b1", 10), !.externalId = 3, !.homepageUrl = Url("https", Own, FALSE)]
Closed == [Base EXCEPT !.bizNo = Number("b1", 10), !.externalId = 4, !.status = "closed"]
Other  == [Base EXCEPT !.externalId = 5, !.name = Beta, !.phone = None]
Third  == [Base EXCEPT !.externalId = 6, !.name = Short, !.phone = Number("p3", 8), !.sigungu = g2]
Wrong  == [Base EXCEPT !.externalId = 7, !.valid = FALSE]

MCFeeds == { <<Plain, Other, Third>>, <<Sited, Closed, Sited>>, <<Wrong, Sited, Https>> }

(* Companies of an earlier run: one that was excluded then, whose site could
   not be reached. *)
MCPast == << [NewRow(Third) EXCEPT !.track = None, !.excluded = "suspended"] >>
MCPastSites == { [company |-> 1, url |-> Url("http", <<"old", "kr">>, FALSE), seen |-> "unavailable", basis |-> None] }

MCLimits == [doctors |-> 20, stores |-> 100, branches |-> 10]
MCListed == [aggregator |-> {<<"map", "kr">>}, social |-> {<<"tistory", "com">>}, builder |-> {}, shortener |-> {}]
MCLegal  == {s6}

Hit(title, host, phone, regions) ==
  [title |-> title, link |-> Url("https", host, TRUE), phone |-> phone, regions |-> regions,
   text |-> normalizeCompanyName(title)]

(* By phone, behind a blog; by name and district; each is no evidence for the
   other companies. *)
MCLocal == { <<Hit(Alpha, Blog, "p1", {}), Hit(Beta, Own, "p1", {})>>,
             <<Hit(Beta, <<"b", "kr">>, None, {g1})>> }
MCWeb   == { <<Hit(Short, <<"c", "kr">>, None, {g1}), Hit(Beta, <<"b", "kr">>, None, {g1})>> }
=============================================================================

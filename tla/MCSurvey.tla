------------------------------ MODULE MCSurvey ------------------------------
(* Instance of Survey for TLC: two companies, each with a site; the sites may
   return one body. *)
EXTENDS Survey, TLC

CONSTANTS s1, s2, s3, s4, t1, t2, g1

Name(letters) == [letters |-> letters, suffix |-> {t1, t2}, note |-> {}, legal |-> FALSE]

District == [stem |-> {g1}, full |-> {g1, t1}]

MCCompany == << [name |-> Name({s1, s2, s3}), phone |-> "p1", sigungu |-> District],
                [name |-> Name({s4, s2, s3}), phone |-> "p2", sigungu |-> None] >>

Host(n) == <<n, "kr">>

MCSite == << [company |-> 1, host |-> Host("a"), label |-> {}],
             [company |-> 2, host |-> Host("b"), label |-> {}] >>

Page(host, hash, phone, title, links) ==
  [ finalHost |-> host, scheme |-> "https", hash |-> hash, links |-> links,
    scan |-> [title |-> title, digits |-> {phone}, regions |-> {District}, text |-> 100,
              linkCount |-> 5, forms |-> 1, redirect |-> None] ]

ContactLink(host) == [scheme |-> "https", url |-> 1, host |-> host, text |-> {"contact"}, path |-> {"terms"},
                      platform |-> None, account |-> None]

BlogLink(id) == [scheme |-> "https", url |-> 2, host |-> <<"blog", "naver", "com">>, text |-> {}, path |-> {},
                 platform |-> "naver_blog", account |-> <<id>>]

MailLink == [scheme |-> "mailto", url |-> 3, host |-> <<>>, text |-> {"contact"}, path |-> {},
             platform |-> None, account |-> None]

(* The company's own page; a parked one that names no company but may happen to
   show its number and title. *)
MCVisits ==
  << {Page(Host("a"), "h", "p1", {s1, s2, s3}, <<ContactLink(Host("a")), MailLink>>)},
     {None, Page(Host("b"), "h", "p2", {s4, s2, s3}, <<BlogLink("y")>>),
      Page(Host("b"), "i", "p2", {}, <<BlogLink("z")>>)} >>

Entry(age) == [age |-> age, title |-> {}]

MCFeeds == { <<Entry(3), Entry(None)>>, <<Entry(None)>> }

Result(site, path, age) == [site |-> site, path |-> path, text |-> {s1, s2, s3, t1, t2}, source |-> None, age |-> age]

MCAnswers == { [total |-> 9, hits |-> <<Result(Host("a"), <<>>, 1), Result(Host("a"), <<>>, 1),
                                        Result(<<"blog", "naver", "com">>, <<"y", 1>>, 61)>>] }

MCProviders == <<"blog", "webkr">>
MCTopics == <<"laser">>

MCListed == [aggregator |-> {<<"map", "kr">>}, social |-> {<<"naver", "com">>}, builder |-> {}, shortener |-> {}]
=============================================================================

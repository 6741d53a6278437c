----------------------------- MODULE MCRanking -----------------------------
(* Instance of Ranking for TLC: three companies to score in two industries, and
   three more they may be compared with. *)
EXTENDS Ranking

Row(industry, sido, sigungu, group) ==
  [industry |-> industry, sido |-> sido, sigungu |-> sigungu, dong |-> None, size |-> "small", group |-> group]

MCBase == << Row("derm", "seoul", "gangnam", None), Row("derm", "seoul", "gangnam", "g"), Row("dental", "busan", None, None),
             Row("derm", "seoul", "mapo", None), Row("dental", "busan", None, None), Row("dental", "seoul", None, None) >>

Channel(url, type, posts) ==
  [url |-> url, type |-> type, analyzable |-> posts # None,
   posts60 |-> posts, posts120 |-> posts, last |-> IF posts = 0 THEN None ELSE 5, mix |-> [all |-> 4, event |-> 2]]

Seen(status, kinds, channels) ==
  [status |-> status, kinds |-> kinds, channels |-> channels, ors |-> {}, fresh |-> 3,
   tech |-> [https |-> TRUE, noindex |-> None]]

Busy(n) == {Channel("b", "official_blog", n), Channel("y", "official_video", n)}

MCObservations ==
  << {Seen("confirmed", {"contact"}, {}), Seen("unavailable", {}, {Channel("b", "official_blog", None)})},
     {Seen("likely", {}, {Channel("b", "official_blog", 0)})},
     {Seen("confirmed", {"about"}, {Channel("b", "official_blog", 0)})},
     {Seen("confirmed", {}, Busy(40))}, {Seen("likely", {}, Busy(30))}, {Seen("confirmed", {}, Busy(20))} >>

MCSettings == [mode |-> "ors_disabled", problemMin |-> 1500, propensityMin |-> 800, confidenceMin |-> 700, totalMin |-> 4000]

MCTargetNumbers == [reviewMax |-> 2, finalMax |-> 1, share |-> <<1, 2>>]

MCReplacements == {<<1, 2, 6>>, <<3, 2, 5>>}

MCTicket == [derm |-> 4, dental |-> 3]
=============================================================================

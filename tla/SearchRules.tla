---------------------------- MODULE SearchRules ----------------------------
(***************************************************************************)
(* The rules about search results and feeds, as functions: what a company  *)
(* is searched for, which results are its own, how large its share is      *)
(* (ORS), and what a feed tells of a channel's activity                    *)
(* (packages/pipeline/src/keywords.ts, ors.ts, activity.ts).               *)
(***************************************************************************)
EXTENDS SiteRules

CONSTANTS
  Topics,        \* INDUSTRY_TOPICS: the sequence of topics searched for
  DENOMINATOR    \* ORS_DENOMINATOR_CAP: results of one channel that count

-----------------------------------------------------------------------------
(* Keywords. *)

Keyword(kind, words, priority) == [kind |-> kind, words |-> words, priority |-> priority]

(* A district without its administrative suffix, unless one letter remains. *)
searchRegion(sigungu) ==
  IF sigungu = None THEN None ELSE IF Cardinality(sigungu.stem) >= 2 THEN sigungu.stem ELSE sigungu.full

(* The name if it is long enough, the trade in the region, its topics; of the
   latter two at most `limit`.  Without a region only the trade. *)
generateKeywords(c, limit) ==
  LET brand    == IF Cardinality(normalizeCompanyName(c.name)) >= 3
                  THEN <<Keyword("brand", <<c.name>>, 0)>> ELSE <<>>
      region   == searchRegion(c.sigungu)
      core     == <<Keyword("nonbrand_core", <<region, "trade">>, 1)>>
      long     == [i \in 1 .. Len(Topics) |-> Keyword("nonbrand_long", <<region, Topics[i]>>, 1 + i)]
      nonbrand == IF region = None THEN core ELSE core \o long
  IN brand \o SubSeq(nonbrand, 1, IF limit < Len(nonbrand) THEN limit ELSE Len(nonbrand))

(* The one keyword competitors are compared by. *)
comparisonKeyword(c) ==
  LET cores == SelectSeq(generateKeywords(c, 1), LAMBDA k : k.kind = "nonbrand_core") IN
  IF cores = <<>> THEN None ELSE Head(cores)

-----------------------------------------------------------------------------
(* Results.  A hit is [site, mobile, www, path, tracking, text, source, age]:
   `path` a sequence, `source` the account the index names, or None. *)

(* "m.", "www.", a trailing slash and tracking parameters do not make another
   page; the scheme neither. *)
canonicalHitUrl(hit) == <<hit.site, hit.path>>

recencyOf(age) ==
  IF age = None \/ age < 0 THEN "unknown"
  ELSE IF age <= 60 THEN "d0_60" ELSE IF age <= 120 THEN "d61_120" ELSE "d120_plus"

hostMatches(host, domains) == \E d \in domains : Under(host, d)

(* A shared host is official only below the channel's own path. *)
channelMatches(place, channels) ==
  place # None /\ \E ch \in channels : ch[1] = place[1] /\ IsPrefix(ch[2], place[2])

IsOfficial(hit, ctx) ==
  \/ hostMatches(hit.site, ctx.domains)
  \/ channelMatches(canonicalHitUrl(hit), ctx.channels)
  \/ channelMatches(hit.source, ctx.channels)

(* The name somewhere in the text; what is official is related. *)
IsRelated(hit, ctx) ==
  \/ IsOfficial(hit, ctx)
  \/ Cardinality(ctx.name) >= 3 /\ ctx.name \subseteq hit.text

(* Official results by where they are, the others by the index they came from. *)
channelTypeFor(provider, official, kind) ==
  IF official
  THEN CASE kind = "video" -> "official_video" [] kind = "blog" -> "official_blog" [] OTHER -> "official_site"
  ELSE CASE provider = "blog" -> "thirdparty_blog" [] provider = "cafearticle" -> "cafe"
         [] provider = "news" -> "news" [] provider = "webkr" -> "webdoc"

(* The first of several hits with one address, in their order. *)
Distinct(hits) ==
  LET New(i) == \A j \in 1 .. i - 1 : canonicalHitUrl(hits[j]) # canonicalHitUrl(hits[i])
      first  == SelectSeq([i \in 1 .. Len(hits) |-> i], New)
  IN [n \in 1 .. Len(first) |-> hits[first[n]]]

(* A channel's numbers.  No result at all gives no share, not a share of 0;
   the share is in ten thousandths. *)
aggregateChannel(result, ctx) ==
  LET hits  == Distinct(result.hits)
      denom == Min({DENOMINATOR, result.total, Len(hits)})
      Count(P(_)) == Cardinality({i \in 1 .. denom : P(hits[i])})
      official == Count(LAMBDA h : IsOfficial(h, ctx))
  IN [ provider    |-> result.provider,
       denominator |-> denom,
       official    |-> official,
       related     |-> Count(LAMBDA h : IsRelated(h, ctx)),
       recent      |-> Count(LAMBDA h : recencyOf(h.age) = "d0_60"),
       ors         |-> IF denom = 0 THEN None ELSE (official * 20000 + denom) \div (2 * denom) ]

(* Every channel counts its own answer; a page two channels return is stored
   with the first. *)
aggregateAll(results, ctx) ==
  [ aggregates |-> {aggregateChannel(results[i], ctx) : i \in DOMAIN results},
    hits       |-> Distinct(FoldLeft(LAMBDA seq, r : seq \o r.hits, <<>>, results)) ]

-----------------------------------------------------------------------------
(* Activity.  A feed entry is [age, title]: its age in days, or None without a
   date that parses, and the kinds whose words its title contains. *)

classifyContent(title) ==
  LET fits == SelectSeq(<<"event", "notice", "review", "info">>, LAMBDA k : k \in title) IN
  IF fits = <<>> THEN "etc" ELSE Head(fits)

Unanalyzable == [analyzable |-> FALSE, posts60 |-> 0, posts120 |-> 0, last |-> None, saturated |-> FALSE]

(* An empty feed is a dormant channel; a feed more than half of whose entries
   have no date says nothing.  A saturated one does not reach back 120 days. *)
computeActivity(entries) ==
  LET dated == {i \in 1 .. Len(entries) : entries[i].age # None}
      Within(days) == Cardinality({i \in dated : entries[i].age <= days})
  IN IF entries = <<>> THEN [Unanalyzable EXCEPT !.analyzable = TRUE]
     ELSE IF 2 * (Len(entries) - Cardinality(dated)) > Len(entries) THEN Unanalyzable
     ELSE [ analyzable |-> TRUE,
            posts60    |-> Within(60),
            posts120   |-> Within(120),
            last       |-> Min({entries[i].age : i \in dated}),
            saturated  |-> \A i \in dated : entries[i].age < 120 ]

(* Unknown when the channel could not be analysed. *)
isActive(metrics) == IF ~metrics.analyzable THEN None ELSE metrics.posts60 > 0
=============================================================================

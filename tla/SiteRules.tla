----------------------------- MODULE SiteRules -----------------------------
(***************************************************************************)
(* The rules about web pages, as functions: whose a domain is, whether a   *)
(* site is a company's official one, which of its links are contact pages  *)
(* or channels, and which search result may be a company's homepage        *)
(* (packages/pipeline/src/aggregators.ts, official.ts, contactPages.ts,    *)
(* channels.ts, homepageDiscovery.ts, html.ts).                            *)
(*                                                                         *)
(* As in IntakeRules a text is the set of its syllables, so "contains" is  *)
(* inclusion and "three letters" a cardinality.  A name has besides its    *)
(* `letters` the syllables `suffix` of a medical title at its end ("...    *)
(* clinic"), and `note`, what stands in brackets.                          *)
(***************************************************************************)
EXTENDS IntakeRules, Sequences, SequencesExt

CONSTANTS
  Listed,         \* Listed[class]: the hosts of a table of aggregators.ts
  LegalSyllables, \* the syllables of the legal forms
  MaxCandidates,  \* MAX_CANDIDATES: contact pages kept of one page
  MaxChannels     \* MAX_CHANNELS: channels kept of one page

-----------------------------------------------------------------------------
(* Domains: a host is the sequence of its labels. *)

WithoutWww(host) == IF host # <<>> /\ Head(host) = "www" THEN Tail(host) ELSE host

(* The entry itself or a subdomain of it, never half a label. *)
Under(host, entry) == IsSuffix(entry, host)

classifyDomain(host) ==
  LET In(class) == \E entry \in Listed[class] : Under(WithoutWww(host), entry) IN
  IF In("aggregator")     THEN "aggregator"
  ELSE IF In("social")    THEN "social"
  ELSE IF In("builder")   THEN "builder"
  ELSE IF In("shortener") THEN "shortener"
  ELSE "own"

isDisqualifyingClass(class) == class \in {"aggregator", "social"}

(* Domains that this many companies share belong to none of them. *)
SHARED_DOMAIN_LIMIT == 5

-----------------------------------------------------------------------------
(* Contact pages.  A link is [scheme, url, host, text, path]: `text` and
   `path` are the kinds whose words its text, its path or query contain. *)

PageKinds == <<"partnership", "contact", "privacy", "terms", "footer", "about">>

KIND_CONFIDENCE ==
  [partnership |-> 85, contact |-> 80, privacy |-> 78, footer |-> 60, about |-> 55, terms |-> 35]

(* A subdomain is the same site, in either direction. *)
sameSite(a, b) ==
  Under(WithoutWww(a), WithoutWww(b)) \/ Under(WithoutWww(b), WithoutWww(a))

(* The first rule that fits decides, by text or by path. *)
PageKind(link) ==
  LET fits == SelectSeq(PageKinds, LAMBDA k : k \in link.text \cup link.path) IN
  IF fits = <<>> THEN None ELSE Head(fits)

(* mailto: is where an address would be collected: it ends there. *)
IsPage(link, base) == link.scheme \in {"http", "https"} /\ sameSite(link.host, base)

(* A URL is its place in alphabetical order.  Per URL the most confident kind,
   of all the most confident ones, ties by URL. *)
detectContactPages(links, base) ==
  LET pages  == {l \in links : IsPage(l, base) /\ PageKind(l) # None}
      Conf(l) == KIND_CONFIDENCE[PageKind(l)]
      best   == {l \in pages : \A o \in pages : o.url = l.url => Conf(o) <= Conf(l)}
      found  == {[url |-> l.url, pageKind |-> PageKind(l)] : l \in best}
      Before(a, b) == \/ KIND_CONFIDENCE[a.pageKind] > KIND_CONFIDENCE[b.pageKind]
                      \/ KIND_CONFIDENCE[a.pageKind] = KIND_CONFIDENCE[b.pageKind] /\ a.url < b.url
  IN {c \in found : Cardinality({o \in found : Before(o, c)}) < MaxCandidates}

-----------------------------------------------------------------------------
(* Channels.  A link to a platform has the account it names; None when it
   names no account (the platform's own homepage, a single post). *)

ChannelType(platform) ==
  CASE platform \in {"naver_blog", "tistory", "brunch"}            -> "official_blog"
    [] platform \in {"youtube", "youtube_handle"}                  -> "official_video"
    [] platform \in {"instagram", "facebook", "x", "kakao", "band"} -> "official_sns"
    [] platform = "naver_place"                                    -> "place"

(* Only these have a public feed of a known address. *)
HasFeed(platform) == platform \in {"naver_blog", "tistory", "youtube"}

describeChannel(link) ==
  IF link.platform = None \/ link.account = None THEN None
  ELSE [type |-> ChannelType(link.platform), platform |-> link.platform, url |-> <<link.host, link.account>>]

(* In the page's order, each once, until there are MaxChannels. *)
discoverChannels(links) ==
  LET Add(found, link) ==
        IF Cardinality(found) >= MaxChannels \/ describeChannel(link) = None
        THEN found ELSE found \cup {describeChannel(link)}
  IN FoldLeft(Add, {}, links)

-----------------------------------------------------------------------------
(* Is this site the company's own (official.ts)?  A scan is a page reduced to
   what is looked for in it: [title, digits, regions, text, linkCount, forms]. *)

WEIGHTS == [ phoneMatch |-> 35, nameInTitle |-> 30, nameInDomain |-> 15, regionMatch |-> 10,
             ownDomain |-> 10, contactRoute |-> 5, https |-> 3, builder |-> -10, shell |-> -20 ]

CONFIRMED_MIN == 65

LIKELY_MIN == 40

(* A page of hardly any text and links. *)
IsShell(scan) == scan.text < 80 /\ scan.linkCount < 5

(* The name, and without its medical title if three letters remain. *)
titleNeedles(name) ==
  LET full == normalizeCompanyName(name) IN
  {full} \cup (IF name.suffix # {} /\ Cardinality(full \ name.suffix) >= 3
               THEN {full \ name.suffix} ELSE {})

(* The number as it is or with the country code; numbers of less than nine
   digits are none. *)
phoneAppears(scan, phone) == phone # None /\ phone \in scan.digits

Signals(c, site, scan, pages) ==
  LET full  == normalizeCompanyName(c.name)
      class == classifyDomain(site.finalHost)
  IN {k \in DOMAIN WEIGHTS :
        CASE k = "phoneMatch"   -> phoneAppears(scan, c.phone)
          [] k = "nameInTitle"  -> Cardinality(full) >= 3 /\ \E n \in titleNeedles(c.name) : n \subseteq scan.title
          [] k = "nameInDomain" -> Cardinality(site.label) >= 4 /\ (site.label \subseteq full \/ full \subseteq site.label)
          [] k = "regionMatch"  -> c.sigungu # None /\ c.sigungu \in scan.regions
          [] k = "ownDomain"    -> class = "own"
          [] k = "contactRoute" -> \E p \in pages : p.pageKind # "terms"
          [] k = "https"        -> site.scheme = "https"
          [] k = "builder"      -> class = "builder"
          [] k = "shell"        -> IsShell(scan)}

Points(signals) == FoldSet(LAMBDA k, sum : WEIGHTS[k] + sum, 0, signals)

(* `shared`: how many other companies have the domain. *)
judgeOfficial(c, site, scan, pages, shared) ==
  IF isDisqualifyingClass(classifyDomain(site.finalHost)) \/ shared >= SHARED_DOMAIN_LIMIT
  THEN "not_official"
  ELSE LET score == Points(Signals(c, site, scan, pages)) IN
       IF score >= CONFIRMED_MIN THEN "confirmed" ELSE IF score >= LIKELY_MIN THEN "likely" ELSE "uncertain"

hasContactFormOnly(scan, pages) == scan.forms > 0 /\ \A p \in pages : p.pageKind = "terms"

Official(status) == status \in {"confirmed", "likely"}

(* Where a page that only redirects by script or meta tag leads: to the same
   origin and not to itself, or it is judged as it is. *)
shellRedirectDestination(scan, site) ==
  IF scan.redirect # None /\ IsShell(scan) /\ scan.redirect.host = site.finalHost
     /\ scan.redirect.scheme = site.scheme /\ scan.redirect.path # site.path
  THEN scan.redirect ELSE None

-----------------------------------------------------------------------------
(* Which search result may be the company's homepage (homepageDiscovery.ts).
   The result's order is no evidence: a phone number wins over a name. *)

(* Brackets go with what is in them; and since the pattern for legal forms is
   a character class, so does every one of their syllables, anywhere. *)
normalizeName(name) == (name.letters \cup name.suffix) \ LegalSyllables

evidenceFor(c, hit) ==
  LET ours == normalizeName(c.name)  theirs == normalizeName(hit.title) IN
  IF c.phone # None /\ hit.phone = c.phone THEN "phone_match"
  ELSE IF /\ Cardinality(ours) >= 3 /\ Cardinality(theirs) >= 3
          /\ ours \subseteq theirs \/ theirs \subseteq ours
          /\ c.sigungu # None /\ c.sigungu \in hit.regions
  THEN "name_and_region_match" ELSE None

(* A link that could be a homepage at all; otherwise why not. *)
LinkFault(hit) ==
  IF hit.link = None THEN "no_link"
  ELSE IF hit.link.host = None THEN "invalid_url"
  ELSE IF isDisqualifyingClass(classifyDomain(hit.link.host)) THEN "disqualifying_domain"
  ELSE None

Adopted(hit, basis) == [url |-> hit.link, basis |-> basis]

discoverHomepage(c, hits) ==
  LET Fits(basis) == SelectSeq(hits, LAMBDA h : LinkFault(h) = None /\ evidenceFor(c, h) = basis) IN
  IF Fits("phone_match") # <<>> THEN Adopted(Head(Fits("phone_match")), "phone_match")
  ELSE IF Fits("name_and_region_match") # <<>>
  THEN Adopted(Head(Fits("name_and_region_match")), "name_and_region_match")
  ELSE None

(* Without a district or three letters no text can be evidence: not asked. *)
canHaveTextEvidence(c) == c.sigungu # None /\ Cardinality(normalizeCompanyName(c.name)) >= 3

discoverHomepageFromWebSearch(c, hits) ==
  LET Fits(h) == /\ LinkFault(h) = None
                 /\ \E n \in titleNeedles(c.name) : n \subseteq h.text
                 /\ c.sigungu \in h.regions
      fit == SelectSeq(hits, Fits)
  IN IF ~canHaveTextEvidence(c) \/ fit = <<>> THEN None ELSE Adopted(Head(fit), "name_region_text")
=============================================================================

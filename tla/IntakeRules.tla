---------------------------- MODULE IntakeRules ----------------------------
(***************************************************************************)
(* The rules of the first three stages, as functions of one candidate:     *)
(* when two candidates are one company, which companies are left out, what *)
(* counts as a change (packages/pipeline/src/normalize.ts, exclude.ts,     *)
(* collection.ts, stages/normalize.ts).                                    *)
(*                                                                         *)
(* Text is abstracted to what the rules tell apart.  A name is a record:   *)
(* `letters`, its syllables, `suffix`, those of a medical title at its     *)
(* end, `note`, those in brackets (a branch is another company), `legal`,  *)
(* whether it carries a legal form, which normalizeCompanyName drops.  A   *)
(* number is its value and how many digits it has, the country code being  *)
(* one leading zero.  A province is `written` as the source has it and     *)
(* `canonical` by the table.  A URL is a record [scheme, www, host, path,  *)
(* slash]: with "www.", with a trailing slash.                             *)
(***************************************************************************)
EXTENDS Integers, FiniteSets

CONSTANT None          \* undefined, null or a value that does not parse

-----------------------------------------------------------------------------
(* Normal forms. *)

normalizeCompanyName(name) == name.letters \cup name.suffix \cup name.note

(* Nothing but a legal form normalizes to nothing and yet is not blank. *)
IsBlank(name) == normalizeCompanyName(name) = {} /\ ~name.legal

normalizeBizNo(n)  == IF n # None /\ n.digits = 10 THEN n.value ELSE None

normalizeCorpNo(n) == IF n # None /\ n.digits = 13 THEN n.value ELSE None

(* The country code becomes the leading zero: both writings are one number. *)
normalizePhone(n)  == IF n # None /\ n.digits \in 9 .. 11 THEN n.value ELSE None

(* "Seoul" and "Seoul Special City" are one province; a province the table does
   not know stays as it is. *)
canonicalSido(sido) == IF sido = None THEN None ELSE sido.canonical

(* Scheme and path stay, "www." and the trailing slash go. *)
canonicalizeUrl(u) ==
  IF u = None \/ u.host = None THEN None ELSE [u EXCEPT !.www = FALSE, !.slash = FALSE]

-----------------------------------------------------------------------------
(* Which candidates are one company (normalize.ts). *)

(* The district, for want of it the province, as the source writes it and not by
   its canonical name: two spellings make two keys. *)
Region(c) == IF c.sigungu # None THEN c.sigungu ELSE IF c.sido # None THEN c.sido.written ELSE None

buildDedupeKey(c) ==
  LET name == normalizeCompanyName(c.name) IN
  IF normalizeBizNo(c.bizNo) # None       THEN <<"biz", normalizeBizNo(c.bizNo)>>
  ELSE IF normalizeCorpNo(c.corpNo) # None THEN <<"corp", normalizeCorpNo(c.corpNo)>>
  ELSE IF name = {}                        THEN <<"src", c.source, c.externalId>>
  ELSE IF normalizePhone(c.phone) # None   THEN <<"nrp", name, Region(c), normalizePhone(c.phone)>>
  ELSE <<"nr", name, Region(c)>>

(* A network is a corporation or a franchise brand, never a shared name. *)
buildGroupKey(c) ==
  IF normalizeCorpNo(c.corpNo) # None THEN <<"corp", normalizeCorpNo(c.corpNo)>>
  ELSE IF c.industry = "franchise"    THEN <<"brand", c.source, c.externalId>>
  ELSE None

(* What must differ for a company to count as changed: not its status, nor its
   place or the time of collection. *)
contentFingerprint(c) ==
  <<normalizeCompanyName(c.name), c.address, normalizePhone(c.phone), c.homepageUrl, c.size>>

-----------------------------------------------------------------------------
(* Which companies are left out (exclude.ts). *)

OrZero(n) == IF n = None THEN 0 ELSE n

classifySize(size, limits) ==
  IF \/ OrZero(size.doctors) > limits.doctors
     \/ OrZero(size.stores) > limits.stores
     \/ OrZero(size.branches) > limits.branches
  THEN "large"
  ELSE IF OrZero(size.doctors) >= 5 \/ OrZero(size.stores) >= 20 \/ OrZero(size.branches) >= 3
  THEN "mid" ELSE "small"

(* The first reason that applies; None when the company stays.  A franchise
   leaves at its limit, everyone else above it. *)
decideExclusion(c, limits) ==
  IF IsBlank(c.name)                                 THEN "missing_name"
  ELSE IF c.status \in {"closed", "suspended"}       THEN c.status
  ELSE IF /\ c.industry = "franchise" /\ c.size.stores # None
          /\ c.size.stores >= limits.stores          THEN "franchise_too_large"
  ELSE IF OrZero(c.size.doctors) > limits.doctors    THEN "too_many_doctors"
  ELSE IF OrZero(c.size.branches) > limits.branches  THEN "too_many_branches"
  ELSE None

(* Limits are positive or the stage throws; so is a missing collection scope. *)
ValidLimits(limits) == \A k \in {"doctors", "stores", "branches"} : limits[k] \in Nat \ {0}

ValidScope(scope) == scope \in {"name", "specialty"}
=============================================================================

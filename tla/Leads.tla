------------------------------- MODULE Leads -------------------------------
(***************************************************************************)
(* What happens to a company between its review and the last export of its *)
(* lead: a reviewer enters a contact address (enter_contact_email,         *)
(* verify_contact_email), the item is decided, an administrator sets the   *)
(* contact basis and exports, and meanwhile a privacy request is made,     *)
(* advanced or executed.                                                   *)
(*                                                                         *)
(* A step is what one transaction does between two points where it can     *)
(* wait or be seen: a statement that takes a row or advisory lock, or the  *)
(* rest up to the commit.  Whoever loses its connection leaves no trace of *)
(* an open transaction.  The locks of an approval on counters and scores   *)
(* are in Approval; here an approval is the look at the address, and later *)
(* the insertion of the lead.  One item per company: what matters here is  *)
(* its address, not its attempt.                                           *)
(***************************************************************************)
EXTENDS Naturals, FiniteSets

CONSTANTS
  Companies,      \* companies with a review item
  Addresses,      \* e-mail addresses
  Users,          \* reviewers
  Nonces,         \* values of review_view_nonces.nonce
  Entries,        \* POST /contact-email requests of the reviewers' browsers
  Exports,        \* sessions that call export_leads
  Requests,       \* rows of privacy_requests
  Nobody,         \* null
  RateLimit,      \* settings review.manual_email_per_minute
  Minute,         \* a minute, in ticks of the model's clock
  Ttl,            \* settings review.nonce_ttl_minutes, in ticks
  MaxPerLead,     \* settings export.max_per_lead
  MaxTime         \* bound on the clock

ASSUME RateAssumption == RateLimit \in Nat \ {0}     \* configuration_error otherwise
ASSUME TtlAssumption == Ttl \in Nat \ {0}            \* configuration_error otherwise
ASSUME CapAssumption == MaxPerLead \in Nat \ {0}     \* configuration_error otherwise
ASSUME TimeAssumption == Minute \in Nat \ {0} /\ MaxTime \in Nat
ASSUME SetsAssumption ==
  /\ IsFiniteSet(Nonces) /\ IsFiniteSet(Entries)
  /\ Nobody \notin Companies \cup Addresses \cup Users \cup Nonces

VARIABLES
  now,        \* the database's clock
  nonce,      \* nonce[n]: the row of review_view_nonces
  entry,      \* entry[q]: where a contact-email request stands
  events,     \* manual_entry_events, append-only
  email,      \* email[c][a]: the row of emails, by its mx_ok
  item,       \* item[c]: status of the review item
  looked,     \* looked[c]: the address an open approval has found verified
  lead,       \* lead[c]: the row of leads
  suspended,  \* companies.do_not_contact and opt_out_at
  request,    \* request[p]: the row of privacy_requests
  export      \* export[x]: a call of export_leads

entryVars  == <<nonce, entry, events>>
reviewVars == <<item, looked>>
vars == <<now, nonce, entry, events, email, item, looked, lead, suspended, request, export>>

-----------------------------------------------------------------------------
(* Rows and processes. *)

(* cleanup_old_data deletes expired rows, which are of no use already. *)
NonceRow == [ at      : {"unused", "live", "used"},
              company : Companies \cup {Nobody},
              user    : Users \cup {Nobody},
              expires : Nat ]

(* waiting: nonce row updated, waits for the advisory lock; counting: has it;
   stored: committed, verify_contact_email not yet called. *)
EntryState == [ at      : {"idle", "looked", "waiting", "counting", "stored", "over"},
                company : Companies \cup {Nobody},
                address : Addresses \cup {Nobody},
                user    : Users \cup {Nobody},
                nonce   : Nonces \cup {Nobody},
                mx      : BOOLEAN,
                began   : Nat ]

EventRow == [user : Users, at : Nat, by : Entries]

(* none: no row; unknown: mx_ok is null. *)
EmailStates == {"none", "unknown", "ok", "failed"}

(* The three accepted bases are one here, and so are the refused ones. *)
Bases == {"pending_legal_review", "explicit_consent"}

LeadRow == [ address : Addresses \cup {Nobody},   \* Nobody: no lead
             basis   : Bases,
             exports : 0 .. MaxPerLead,           \* export_count
             kept    : BOOLEAN ]                  \* retention_until >= current_date

OpenStatuses   == {"received", "in_progress", "on_hold"}
ClosedStatuses == {"completed", "rejected"}

(* Access stands for correct as well: neither is executed. *)
Kinds == {"access", "delete", "suspend"}

RequestRow == [ status  : {"none"} \cup OpenStatuses \cup ClosedStatuses,
                kind    : Kinds,
                company : Companies \cup {Nobody},
                hold    : BOOLEAN,                \* legal_hold
                failed  : BOOLEAN ]               \* an execution was rolled back

ExportState == [ at   : {"idle", "open"},
                 rows : SUBSET Companies,         \* still to come in the cursor
                 held : SUBSET Companies ]        \* updated, not committed

TypeOK ==
  /\ now \in 0 .. MaxTime
  /\ nonce \in [Nonces -> NonceRow]
  /\ entry \in [Entries -> EntryState]
  /\ events \subseteq EventRow
  /\ email \in [Companies -> [Addresses -> EmailStates]]
  /\ item \in [Companies -> {"pending", "approved", "rejected"}]
  /\ looked \in [Companies -> Addresses \cup {Nobody}]
  /\ lead \in [Companies -> LeadRow]
  /\ suspended \in [Companies -> BOOLEAN]
  /\ request \in [Requests -> RequestRow]
  /\ export \in [Exports -> ExportState]

(* A request that was answered, or whose process died. *)
Over == [at |-> "over", company |-> Nobody, address |-> Nobody, user |-> Nobody,
         nonce |-> Nobody, mx |-> FALSE, began |-> 0]

NoLead == [address |-> Nobody, basis |-> "pending_legal_review", exports |-> 0, kept |-> TRUE]

Init ==
  /\ now = 0
  /\ nonce = [n \in Nonces |-> [at |-> "unused", company |-> Nobody, user |-> Nobody, expires |-> 0]]
  /\ entry = [q \in Entries |-> [Over EXCEPT !.at = "idle"]]
  /\ events = {}
  /\ email = [c \in Companies |-> [a \in Addresses |-> "none"]]
  /\ item = [c \in Companies |-> "pending"]
  /\ looked = [c \in Companies |-> Nobody]
  /\ lead = [c \in Companies |-> NoLead]
  /\ suspended = [c \in Companies |-> FALSE]
  /\ request = [p \in Requests |-> [status |-> "none", kind |-> "access", company |-> Nobody,
                                    hold |-> FALSE, failed |-> FALSE]]
  /\ export = [x \in Exports |-> [at |-> "idle", rows |-> {}, held |-> {}]]

-----------------------------------------------------------------------------
(* Entering an address. *)

(* GET /api/review/:id: the detail of a pending item comes with a nonce. *)
issue_review_nonce(n, u, c) ==
  /\ nonce[n].at = "unused"
  /\ item[c] = "pending"
  /\ nonce' = [nonce EXCEPT ![n] = [at |-> "live", company |-> c, user |-> u, expires |-> now + Ttl]]
  /\ UNCHANGED <<now, entry, events, email, reviewVars, lead, suspended, request, export>>

(* What DNS says of a domain, and what is made of it: mail is deliverable to a
   host named by MX, or by A/AAAA.  A null MX is filtered out of the list and
   so counts as no MX at all, although it declares that there is no mail. *)
DnsAnswers == [mx : SUBSET {"host", "null"}, a : BOOLEAN, aaaa : BOOLEAN]

verifyEmailAddress(dns) == (dns.mx \ {"null"}) # {} \/ dns.a \/ dns.aaaa

(* POST /contact-email: DNS is asked first; the reviewer may submit one form
   twice, or one nonce with two addresses. *)
contact_email(q, u, c, a, n, mx) ==
  /\ entry[q].at = "idle"
  /\ nonce[n].user = u
  /\ entry' = [entry EXCEPT ![q] = [at |-> "looked", company |-> c, address |-> a, user |-> u,
                                    nonce |-> n, mx |-> mx, began |-> 0]]
  /\ UNCHANGED <<now, nonce, events, email, reviewVars, lead, suspended, request, export>>

NonceLocked(n) == \E q \in Entries : entry[q].nonce = n /\ entry[q].at \in {"waiting", "counting"}

NonceValid(q) ==
  LET row == nonce[entry[q].nonce] IN
  /\ row.at = "live"
  /\ row.company = entry[q].company
  /\ row.user = entry[q].user
  /\ row.expires > now

(* A faulty variant: the nonce is spent in a transaction of its own. *)
begin_entrySpent(q) ==
  /\ entry[q].at = "looked"
  /\ entry' = [entry EXCEPT ![q] =
       IF NonceValid(q) THEN [@ EXCEPT !.at = "waiting", !.began = now] ELSE Over]
  /\ nonce' = IF NonceValid(q) THEN [nonce EXCEPT ![entry[q].nonce].at = "used"] ELSE nonce
  /\ UNCHANGED <<now, events, email, reviewVars, lead, suspended, request, export>>

(* enter_contact_email begins: one statement finds the nonce valid and marks
   it used, or waits for a transaction that has done so. *)
begin_entry(q) ==
  /\ entry[q].at = "looked"
  /\ ~NonceLocked(entry[q].nonce)
  /\ entry' = [entry EXCEPT ![q] =
       IF NonceValid(q) THEN [@ EXCEPT !.at = "waiting", !.began = now] ELSE Over]
  /\ UNCHANGED <<now, nonce, events, email, reviewVars, lead, suspended, request, export>>

Recent(u, t) == {e \in events : e.user = u /\ e.at + Minute > t}

(* A faulty variant: without the advisory lock. *)
UserBusyNever(u) == FALSE

(* pg_advisory_xact_lock('manual_email:' || user) is taken until the commit. *)
UserBusy(u) == \E q \in Entries : entry[q].user = u /\ entry[q].at = "counting"

(* The lock, and the count of the entries of the minute before this
   transaction began; rate_limited rolls the nonce back. *)
count_entries(q) ==
  /\ entry[q].at = "waiting"
  /\ ~UserBusy(entry[q].user)
  /\ entry' = [entry EXCEPT ![q] =
       IF Cardinality(Recent(@.user, @.began)) < RateLimit THEN [@ EXCEPT !.at = "counting"] ELSE Over]
  /\ UNCHANGED <<now, nonce, events, email, reviewVars, lead, suspended, request, export>>

(* The rest of enter_contact_email: the page may be another company's or the
   syntax refused (all is rolled back); else the address is stored.  A row
   that exists keeps its mx_ok. *)
store_entry(q) ==
  LET e == entry[q] IN
  /\ e.at = "counting"
  /\ \/ /\ events' = events \cup {[user |-> e.user, at |-> e.began, by |-> q]}
        /\ nonce' = [nonce EXCEPT ![e.nonce].at = "used"]
        /\ email' = [email EXCEPT ![e.company][e.address] = IF @ = "none" THEN "unknown" ELSE @]
        /\ entry' = [entry EXCEPT ![q].at = "stored"]
     \/ /\ entry' = [entry EXCEPT ![q] = Over]
        /\ UNCHANGED <<nonce, events, email>>
  /\ UNCHANGED <<now, reviewVars, lead, suspended, request, export>>

(* verify_contact_email, in a transaction of its own, writes what DNS said
   before the entry; a row deleted since makes it fail. *)
verify_contact_email(q) ==
  LET e == entry[q] IN
  /\ e.at = "stored"
  /\ email' = [email EXCEPT ![e.company][e.address] =
                 IF @ = "none" THEN @ ELSE IF e.mx THEN "ok" ELSE "failed"]
  /\ entry' = [entry EXCEPT ![q] = Over]
  /\ UNCHANGED <<now, nonce, events, reviewVars, lead, suspended, request, export>>

(* The API process dies, or its connection breaks. *)
entry_lost(q) ==
  /\ entry[q].at \in {"waiting", "counting", "stored"}
  /\ entry' = [entry EXCEPT ![q] = Over]
  /\ UNCHANGED <<now, nonce, events, email, reviewVars, lead, suspended, request, export>>

-----------------------------------------------------------------------------
(* The decision. *)

(* decide_review_item(approved): the item is locked, the address looked at
   without a lock. *)
begin_approve(c, a) ==
  /\ item[c] = "pending" /\ looked[c] = Nobody
  /\ email[c][a] = "ok"
  /\ looked' = [looked EXCEPT ![c] = a]
  /\ UNCHANGED <<now, entryVars, email, item, lead, suspended, request, export>>

(* The counters are free: the lead is inserted.  Its foreign key refuses an
   address deleted since, and the transaction is rolled back; it may be for
   other reasons too (caps, scores). *)
commit_approve(c) ==
  /\ looked[c] # Nobody
  /\ \/ /\ email[c][looked[c]] # "none"
        /\ lead' = [lead EXCEPT ![c] = [NoLead EXCEPT !.address = looked[c]]]
        /\ item' = [item EXCEPT ![c] = "approved"]
     \/ UNCHANGED <<lead, item>>
  /\ looked' = [looked EXCEPT ![c] = Nobody]
  /\ UNCHANGED <<now, entryVars, email, suspended, request, export>>

(* decide_review_item(rejected); the cooldown it writes is read by nobody. *)
reject(c) ==
  /\ item[c] = "pending" /\ looked[c] = Nobody
  /\ item' = [item EXCEPT ![c] = "rejected"]
  /\ UNCHANGED <<now, entryVars, email, looked, lead, suspended, request, export>>

LeadLocked(c) == \E x \in Exports : c \in export[x].held

(* revoke_approval deletes the lead. *)
revoke_approval(c) ==
  /\ item[c] = "approved"
  /\ ~LeadLocked(c)
  /\ lead' = [lead EXCEPT ![c] = NoLead]
  /\ item' = [item EXCEPT ![c] = "rejected"]
  /\ UNCHANGED <<now, entryVars, email, looked, suspended, request, export>>

(* set_contact_basis: an update that waits for an export of the lead. *)
set_contact_basis(c, basis) ==
  /\ lead[c].address # Nobody /\ lead[c].basis # basis
  /\ ~LeadLocked(c)
  /\ lead' = [lead EXCEPT ![c].basis = basis]
  /\ UNCHANGED <<now, entryVars, email, reviewVars, suspended, request, export>>

-----------------------------------------------------------------------------
(* export_leads. *)

OpenRequest(c) == \E p \in Requests : request[p].company = c /\ request[p].status \in OpenStatuses

(* A faulty variant: only the requests are asked for. *)
ExportableUnlessRequested(c) ==
  /\ lead[c].address # Nobody
  /\ lead[c].exports < MaxPerLead
  /\ lead[c].basis = "explicit_consent"
  /\ lead[c].kept
  /\ email[c][lead[c].address] = "ok"
  /\ ~OpenRequest(c)

(* The gates, all on the snapshot of the cursor. *)
Exportable(c) ==
  /\ lead[c].address # Nobody
  /\ lead[c].exports < MaxPerLead
  /\ lead[c].basis = "explicit_consent"   \* for the three accepted ones
  /\ ~suspended[c]
  /\ lead[c].kept
  /\ email[c][lead[c].address] = "ok"
  /\ ~OpenRequest(c)

begin_export(x) ==
  /\ export[x].at = "idle"
  /\ export' = [export EXCEPT ![x] = [at |-> "open", rows |-> {c \in Companies : Exportable(c)}, held |-> {}]]
  /\ UNCHANGED <<now, entryVars, email, reviewVars, lead, suspended, request>>

(* A faulty variant: the update does not look at export_count again. *)
export_rowUnchecked(x, c) ==
  /\ c \in export[x].rows
  /\ ~LeadLocked(c)
  /\ export' = [export EXCEPT ![x].rows = @ \ {c},
                              ![x].held = IF lead[c].address # Nobody THEN @ \cup {c} ELSE @]
  /\ UNCHANGED <<now, entryVars, email, reviewVars, lead, suspended, request>>

(* One row of the loop: the conditional update takes the row's lock, and finds
   nothing when the cap was reached or the lead deleted meanwhile. *)
export_row(x, c) ==
  /\ c \in export[x].rows
  /\ ~LeadLocked(c)
  /\ export' = [export EXCEPT ![x].rows = @ \ {c},
       ![x].held = IF lead[c].address # Nobody /\ lead[c].exports < MaxPerLead THEN @ \cup {c} ELSE @]
  /\ UNCHANGED <<now, entryVars, email, reviewVars, lead, suspended, request>>

commit_export(x) ==
  /\ export[x].at = "open" /\ export[x].rows = {}
  /\ lead' = [c \in Companies |->
                IF c \in export[x].held THEN [lead[c] EXCEPT !.exports = @ + 1] ELSE lead[c]]
  /\ export' = [export EXCEPT ![x] = [at |-> "idle", rows |-> {}, held |-> {}]]
  /\ UNCHANGED <<now, entryVars, email, reviewVars, suspended, request>>

export_lost(x) ==
  /\ export[x].at = "open"
  /\ export' = [export EXCEPT ![x] = [at |-> "idle", rows |-> {}, held |-> {}]]
  /\ UNCHANGED <<now, entryVars, email, reviewVars, lead, suspended, request>>

-----------------------------------------------------------------------------
(* Privacy requests. *)

(* The company of an address, if any company has it. *)
Subject(a) == {c \in Companies : email[c][a] # "none"}

(* create_privacy_request links the company whose address was named.  The
   legal hold is set by hand, outside the program. *)
create_privacy_request(p, kind, a, hold) ==
  /\ request[p].status = "none"
  /\ \E c \in (IF Subject(a) = {} THEN {Nobody} ELSE Subject(a)) :
       request' = [request EXCEPT ![p] =
         [status |-> "received", kind |-> kind, company |-> c, hold |-> hold, failed |-> FALSE]]
  /\ UNCHANGED <<now, entryVars, email, reviewVars, lead, suspended, export>>

(* advance_privacy_request: any status but received, until it is closed. *)
advance_privacy_request(p, status) ==
  /\ request[p].status \in OpenStatuses
  /\ status \in {"in_progress", "on_hold"} \cup ClosedStatuses
  /\ request' = [request EXCEPT ![p].status = status]
  /\ UNCHANGED <<now, entryVars, email, reviewVars, lead, suspended, export>>

(* leads.email_id references emails without on delete. *)
Referenced(c, a) == lead[c].address = a

(* execute_privacy_request, one transaction: the company is suspended, and on a
   deletion its addresses go, save those under a legal hold, which is set by
   hand; a lead that references one makes the deletion fail, and with it
   everything. *)
execute_privacy_request(p, held) ==
  LET r     == request[p]
      gone  == IF r.kind = "delete" THEN Addresses \ held ELSE {}
      fails == \E a \in gone : Referenced(r.company, a)
  IN
  /\ r.status \in OpenStatuses /\ r.kind \in {"delete", "suspend"}
  /\ ~r.hold /\ r.company # Nobody
  /\ \/ /\ fails
        /\ request' = [request EXCEPT ![p].failed = TRUE]
        /\ UNCHANGED <<suspended, email>>
     \/ /\ ~fails
        /\ suspended' = [suspended EXCEPT ![r.company] = TRUE]
        /\ email' = [email EXCEPT ![r.company] = [a \in Addresses |-> IF a \in gone THEN "none" ELSE @[a]]]
        /\ request' = [request EXCEPT ![p].status = "completed"]
  /\ UNCHANGED <<now, entryVars, reviewVars, lead, export>>

(* Time passes; a lead's retention may run out with it. *)
tick ==
  /\ now < MaxTime
  /\ now' = now + 1
  /\ \E lapsed \in SUBSET {c \in Companies : lead[c].address # Nobody} :
       lead' = [c \in Companies |-> IF c \in lapsed THEN [lead[c] EXCEPT !.kept = FALSE] ELSE lead[c]]
  /\ UNCHANGED <<entryVars, email, reviewVars, suspended, request, export>>

Next ==
  \/ \E n \in Nonces, u \in Users, c \in Companies : issue_review_nonce(n, u, c)
  \/ \E q \in Entries, u \in Users, c \in Companies, a \in Addresses, n \in Nonces,
        mx \in {verifyEmailAddress(dns) : dns \in DnsAnswers} : contact_email(q, u, c, a, n, mx)
  \/ \E q \in Entries : begin_entry(q) \/ count_entries(q) \/ store_entry(q)
                        \/ verify_contact_email(q) \/ entry_lost(q)
  \/ \E c \in Companies, a \in Addresses : begin_approve(c, a)
  \/ \E c \in Companies : commit_approve(c) \/ reject(c) \/ revoke_approval(c)
  \/ \E c \in Companies, basis \in Bases : set_contact_basis(c, basis)
  \/ \E x \in Exports : begin_export(x) \/ commit_export(x) \/ export_lost(x)
  \/ \E x \in Exports, c \in Companies : export_row(x, c)
  \/ \E p \in Requests, kind \in Kinds, a \in Addresses, hold \in BOOLEAN :
       create_privacy_request(p, kind, a, hold)
  \/ \E p \in Requests, status \in {"in_progress", "on_hold"} \cup ClosedStatuses :
       advance_privacy_request(p, status)
  \/ \E p \in Requests, held \in SUBSET Addresses : execute_privacy_request(p, held)
  \/ tick

Spec == Init /\ [][Next]_vars

-----------------------------------------------------------------------------
(* Properties. *)

(* However many exports overlap, what they have updated and not committed
   included, no lead leaves more often than max_per_lead (export_leads; its
   candidates were read before another export committed). *)
ExportCapHolds ==
  \A c \in Companies :
    lead[c].exports + Cardinality({x \in Exports : c \in export[x].held}) <= MaxPerLead

(* Once a company is suspended and the exports that had read it before are
   over, it stays suspended and none of its leads is exported again: an export
   in progress is the only one that may still carry it (execute_privacy_request
   against export_leads, set_contact_basis, revoke_approval and new entries). *)
SuspendedNeverLeaves ==
  [][\A c \in Companies :
       suspended[c] =>
         /\ suspended'[c]
         /\ \A x \in Exports : c \in export'[x].rows => c \in export[x].rows
         /\ lead'[c].exports > lead[c].exports => \E x \in Exports : c \in export[x].held]_vars

(* In no minute does one reviewer enter more addresses than the limit, by the
   times the transactions began, although they count at different moments
   (enter_contact_email; manual_entry_events). *)
EntriesAreRated ==
  \A u \in Users, t \in 0 .. MaxTime :
    Cardinality({e \in events : e.user = u /\ t <= e.at /\ e.at < t + Minute}) <= RateLimit

(* Every stored entry has used up a nonce of its own that was issued to its
   user for its company, and no rolled-back one has: two requests with one
   nonce store one address (enter_contact_email against itself). *)
EntriesSpendNonces ==
  \A u \in Users :
    Cardinality({e \in events : e.user = u})
      = Cardinality({n \in Nonces : nonce[n].at = "used" /\ nonce[n].user = u})

(* 0012_ops_privacy_capacity.sql:177 says of the order of statements that when
   the destruction fails on the way, contact must already be blocked. *)
BlockedEvenIfDeletionFails ==
  \A p \in Requests : request[p].failed => suspended[request[p].company]
=============================================================================

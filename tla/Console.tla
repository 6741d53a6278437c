------------------------------ MODULE Console ------------------------------
(***************************************************************************)
(* The review console: one browser tab (taimen/src/lib/data/store.tsx, the *)
(* page app/today, its drawer, table and dialogs), the gateway and client  *)
(* its requests pass, and the routes that answer them                      *)
(* (apps/api/src/routes/review.ts, leads.ts).                              *)
(*                                                                         *)
(* Every asynchronous function of the store is a call: what it does up to  *)
(* its first await is one action, what the server does with the request    *)
(* another (or several), and what it does with the answer a third.  The    *)
(* reviewer goes on meanwhile, several calls are out at once, answers come *)
(* in any order or not at all, and a request given up by the tab may still *)
(* be carried out.                                                         *)
(*                                                                         *)
(* The transactions of the server are single steps here; how they          *)
(* interleave is the matter of Approval and Leads.  Scores, filters, the   *)
(* cursor's place and the cost header are data no property is about.       *)
(***************************************************************************)
EXTENDS Integers, FiniteSets

CONSTANTS
  Items,      \* review items; all the open ones fit in one page of the list
  Addresses,  \* what a reviewer may type
  Entered,    \* Entered[i]: the address entered for i in an earlier session, or Nothing
  Shortlisted, \* the items that are pending at the start; others may come
  Nothing,
  MaxCalls,   \* bound: calls of the store
  MaxNonces   \* bound: details answered for pending items

ASSUME ConsoleAssumption ==
  /\ IsFiniteSet(Items) /\ MaxCalls \in Nat \ {0} /\ MaxNonces \in Nat
  /\ Nothing \notin Items \cup Addresses
  /\ Entered \in [Items -> Addresses \cup {Nothing}] /\ Shortlisted \subseteq Items

Calls  == 1 .. MaxCalls
Nonces == 1 .. MaxNonces

VARIABLES
  \* the database
  status,     \* status[i]: review_items.status; none: not on a shortlist yet
  mail,       \* mail[i][a]: the row of emails, and what verification made of it
  latest,     \* latest[i]: the address entered last
  nonce,      \* nonce[n]: the item it was issued for, and whether it is used
  \* the tab
  items,      \* state.items, as a function: what is not in the list is Nothing
  leads,      \* state.leads
  openId, selected, loading, notice,
  busy,       \* state.busy # null
  dialog,     \* the ids the reject dialog was opened for; {}: closed
  \* the calls, and what the properties remember
  call,
  doubt,      \* the list comes from a refresh that overlapped another, or the last one failed
  certified,  \* addresses that have passed MX in the database
  promoted    \* items that have been approved in the database

server  == <<status, mail, latest, nonce, certified, promoted>>
screen  == <<items, leads, loading, doubt>>
pointer == <<openId, selected, dialog>>
consoleVars == <<status, mail, latest, nonce, items, leads, openId, selected, loading, notice, busy,
                 dialog, call, doubt, certified, promoted>>

Statuses == {"none", "pending", "approved", "rejected"}

(* An item on the screen. row: the id of an email; nonce 0: undefined. *)
ReviewItem == [ status : Statuses,
                email  : [row : Items \X Addresses, mxOk : BOOLEAN] \cup {Nothing},
                nonce  : Nonces \cup {0},
                detailLoaded : BOOLEAN ]

Lists == [Items -> ReviewItem \cup {Nothing}]

(* at: awaiting the answer, or in refresh(); server: what has become of the
   request; to: the ids it names, left: those not handled yet, ok: those handled
   with success; told: the tab has seen the answer. *)
Call == [ op      : {"none", "refresh", "open", "email", "decide", "bulk"},
          at      : {"unused", "waiting", "reading", "done", "failed"},
          server  : {"todo", "entered", "done"},
          to      : SUBSET Items,  left : SUBSET Items,  ok : SUBSET Items,
          verdict : {"none", "approved", "rejected"},
          row     : Items \X Addresses \cup {Nothing},
          nonce   : Nonces \cup {0},
          mxOk    : BOOLEAN,
          detail  : ReviewItem \cup {Nothing},
          list    : Lists \cup {Nothing},
          leads   : (SUBSET Items) \cup {Nothing},
          told    : BOOLEAN,
          alone   : BOOLEAN ]

Unused == [op |-> "none", at |-> "unused", server |-> "done", to |-> {}, left |-> {}, ok |-> {},
           verdict |-> "none", row |-> Nothing, nonce |-> 0, mxOk |-> FALSE, detail |-> Nothing,
           list |-> Nothing, leads |-> Nothing, told |-> FALSE, alone |-> TRUE]

(* Everything but the calls. *)
RestTypeOK ==
  /\ status \in [Items -> Statuses]
  /\ mail \in [Items -> [Addresses -> {"none", "unknown", "ok", "failed"}]]
  /\ latest \in [Items -> Addresses \cup {Nothing}]
  /\ nonce \in [Nonces -> [item : Items \cup {Nothing}, used : BOOLEAN]]
  /\ items \in Lists
  /\ leads \subseteq Items
  /\ openId \in Items \cup {Nothing}
  /\ selected \subseteq Items /\ dialog \subseteq Items
  /\ loading \in BOOLEAN /\ busy \in BOOLEAN /\ doubt \in BOOLEAN
  /\ notice \in {"none", "error", "bulk_partial"}
  /\ certified \subseteq Items \X Addresses
  /\ promoted \subseteq Items

ConsoleTypeOK == RestTypeOK /\ call \in [Calls -> Call]

(* The page mounts: nothing is loaded, a first refresh is out, and a link may
   name an item to open. *)
ConsoleInit ==
  /\ status = [i \in Items |-> IF i \in Shortlisted THEN "pending" ELSE "none"]
  /\ latest = Entered
  /\ mail = [i \in Items |-> [a \in Addresses |-> IF a = latest[i] THEN "ok" ELSE "none"]]
  /\ certified = {x \in Items \X Addresses : latest[x[1]] = x[2]}
  /\ nonce = [n \in Nonces |-> [item |-> Nothing, used |-> FALSE]]
  /\ items = [i \in Items |-> Nothing]
  /\ leads = {} /\ selected = {} /\ dialog = {}
  /\ openId \in Items \cup {Nothing}
  /\ loading = TRUE /\ busy = FALSE /\ notice = "none"
  /\ call = [c \in Calls |->
       IF c = 1 THEN [Unused EXCEPT !.op = "refresh", !.at = "reading"] ELSE Unused]
  /\ doubt = FALSE
  /\ promoted = {}

-----------------------------------------------------------------------------
(* Pieces of the screen. *)

Visible(i)   == items[i] # Nothing /\ items[i].status = "pending"
DrawerShown  == openId # Nothing /\ items[openId] # Nothing
MxOk(i)      == items[i].email # Nothing /\ items[i].email.mxOk
TableInReach == dialog = {} /\ ~loading /\ ~DrawerShown

(* The approve button of a table row, and that of the drawer: both ask for MX,
   only the drawer for busy. *)
ApproveInTable(i)  == TableInReach /\ Visible(i) /\ MxOk(i)
ApproveInDrawer(i) == dialog = {} /\ DrawerShown /\ openId = i /\ MxOk(i) /\ ~busy

(* reducer, patchItem: only an item that is in the list, whichever is open. *)
patchItem(i, it) == IF items[i] = Nothing THEN items ELSE [items EXCEPT ![i] = it]

Fresh(c) == call[c] = Unused /\ \A d \in Calls : d < c => call[d] # Unused

(* Bound: a selection or a dialog no call is left for is not opened. *)
CallLeft == call[MaxCalls] = Unused

Reading(d) == call[d].at = "reading"

(* refresh() up to its await, for the call c (as r); refreshes that are out
   together no longer run alone. *)
StartReading(c, r) ==
  /\ call' = [d \in Calls |->
       IF d = c THEN [r EXCEPT !.at = "reading", !.list = Nothing, !.leads = Nothing,
                               !.alone = \A e \in Calls \ {c} : ~Reading(e)]
       ELSE IF Reading(d) THEN [call[d] EXCEPT !.alone = FALSE] ELSE call[d]]
  /\ loading' = TRUE

(* What is left of a call that is over for the tab: what the server may still
   do, and the ids it handled. *)
Over(r, at) ==
  IF r.server = "done"
  THEN [Unused EXCEPT !.at = at, !.verdict = r.verdict, !.ok = r.ok, !.told = r.told]
  ELSE [r EXCEPT !.at = at]

Heard(r) == [r EXCEPT !.told = TRUE]

-----------------------------------------------------------------------------
(* What the reviewer does. *)

(* The button of a notice, or an export on the leads page. *)
refresh(c) ==
  /\ Fresh(c)
  /\ StartReading(c, [Unused EXCEPT !.op = "refresh"])
  /\ UNCHANGED <<server, pointer, items, leads, notice, busy, doubt>>

(* Enter while no drawer is open, or a click on a row of the table. *)
openItem(c, i) ==
  /\ Fresh(c) /\ Visible(i) /\ dialog = {}
  /\ openId = Nothing \/ TableInReach
  /\ openId' = i
  /\ call' = [call EXCEPT ![c] = [Unused EXCEPT !.op = "open", !.at = "waiting", !.server = "todo",
                                                !.to = {i}]]
  /\ UNCHANGED <<server, screen, selected, dialog, notice, busy>>

(* Keys e, and j and k with a drawer open: the drawer moves, no detail is asked. *)
move(i) ==
  /\ dialog = {} /\ Visible(i) /\ openId # i
  /\ openId' = i
  /\ UNCHANGED <<server, screen, selected, dialog, notice, busy, call>>

close_drawer ==
  /\ DrawerShown
  /\ openId' = Nothing
  /\ UNCHANGED <<server, screen, selected, dialog, notice, busy, call>>

toggleSelect(i) ==
  /\ CallLeft /\ dialog = {} /\ Visible(i)
  /\ selected' = IF i \in selected THEN selected \ {i} ELSE selected \cup {i}
  /\ UNCHANGED <<server, screen, openId, dialog, notice, busy, call>>

(* Key x and the table do not ask whether the tab is busy, the drawer does; the
   filter bar offers whatever is selected, decided since or not. *)
openReject(ids) ==
  /\ CallLeft /\ dialog = {} /\ ids # {}
  /\ \/ \E i \in Items : ids = {i} /\ (Visible(i) \/ (DrawerShown /\ openId = i /\ ~busy))
     \/ ids = selected /\ ~DrawerShown
  /\ dialog' = ids
  /\ UNCHANGED <<server, screen, openId, selected, notice, busy, call>>

close_dialog ==
  /\ dialog # {}
  /\ dialog' = {}
  /\ UNCHANGED <<server, screen, openId, selected, notice, busy, call>>

dismissNotice ==
  /\ notice # "none"
  /\ notice' = "none"
  /\ UNCHANGED <<server, screen, pointer, busy, call>>

(* A faulty variant: the missing nonce is found before the try. *)
submitEmailUnguarded(c, i, a) ==
  /\ Fresh(c) /\ dialog = {} /\ DrawerShown /\ openId = i
  /\ items[i].detailLoaded /\ ~busy
  /\ IF items[i].nonce = 0
     THEN /\ notice' = "error" /\ busy' = TRUE
          /\ call' = [call EXCEPT ![c] = [Unused EXCEPT !.at = "failed"]]
     ELSE /\ busy' = TRUE
          /\ call' = [call EXCEPT ![c] = [Unused EXCEPT !.op = "email", !.at = "waiting",
                 !.server = "todo", !.to = {i}, !.row = <<i, a>>, !.nonce = items[i].nonce]]
          /\ UNCHANGED notice
  /\ UNCHANGED <<server, screen, pointer>>

(* The form asks for a contact page, so it is shut until the detail has come;
   without a nonce nothing is sent, and finally clears busy at once. *)
submitEmail(c, i, a) ==
  /\ Fresh(c) /\ dialog = {} /\ DrawerShown /\ openId = i
  /\ items[i].detailLoaded /\ ~busy
  /\ IF items[i].nonce = 0
     THEN /\ notice' = "error" /\ busy' = FALSE
          /\ call' = [call EXCEPT ![c] = [Unused EXCEPT !.at = "failed"]]
     ELSE /\ busy' = TRUE
          /\ call' = [call EXCEPT ![c] = [Unused EXCEPT !.op = "email", !.at = "waiting",
                 !.server = "todo", !.to = {i}, !.row = <<i, a>>, !.nonce = items[i].nonce]]
          /\ UNCHANGED notice
  /\ UNCHANGED <<server, screen, pointer>>

(* decide() up to its await. *)
Decide(c, op, verdict, ids, row) ==
  /\ Fresh(c)
  /\ busy' = TRUE
  /\ call' = [call EXCEPT ![c] = [Unused EXCEPT !.op = op, !.at = "waiting", !.server = "todo",
                !.to = ids, !.left = ids, !.verdict = verdict, !.row = row]]

(* A faulty variant: the screen shows the decision before the server took it. *)
approveOptimistic(c, i) ==
  /\ ApproveInTable(i) \/ ApproveInDrawer(i)
  /\ Decide(c, "decide", "approved", {i}, items[i].email.row)
  /\ items' = [items EXCEPT ![i].status = "approved"]
  /\ UNCHANGED <<server, pointer, leads, loading, doubt, notice>>

(* The address sent is the one the screen shows. *)
approve(c, i) ==
  /\ ApproveInTable(i) \/ ApproveInDrawer(i)
  /\ Decide(c, "decide", "approved", {i}, items[i].email.row)
  /\ UNCHANGED <<server, screen, pointer, notice>>

(* The dialog is confirmed: one id is rejected, more are rejected in bulk. *)
confirm_reject(c) ==
  /\ dialog # {}
  /\ Decide(c, IF Cardinality(dialog) = 1 THEN "decide" ELSE "bulk", "rejected", dialog, Nothing)
  /\ dialog' = {}
  /\ UNCHANGED <<server, screen, openId, selected, notice>>

-----------------------------------------------------------------------------
(* What the server does with a request, whether or not the tab still waits. *)

(* GET /api/review?status=pending, as mapListItem shows it: no nonce, no
   contact pages, and of the email only whether MX is true. *)
mapListItem(i) ==
  [status |-> "pending", nonce |-> 0, detailLoaded |-> FALSE,
   email |-> IF latest[i] = Nothing THEN Nothing
             ELSE [row |-> <<i, latest[i]>>, mxOk |-> mail[i][latest[i]] = "ok"]]

read_list(c) ==
  /\ Reading(c) /\ call[c].list = Nothing
  /\ call' = [call EXCEPT ![c].list =
       [i \in Items |-> IF status[i] = "pending" THEN mapListItem(i) ELSE Nothing]]
  /\ UNCHANGED <<server, screen, pointer, notice, busy>>

(* GET /api/leads, in parallel with the list: another snapshot. *)
read_leads(c) ==
  /\ Reading(c) /\ call[c].leads = Nothing
  /\ call' = [call EXCEPT ![c].leads = {i \in Items : status[i] = "approved"}]
  /\ UNCHANGED <<server, screen, pointer, notice, busy>>

(* mapDetail: an email or a nonce that is null is not in the patch. *)
mapDetail(i, n) ==
  [status |-> status[i], nonce |-> n, detailLoaded |-> TRUE,
   email |-> IF latest[i] = Nothing THEN Nothing
             ELSE [row |-> <<i, latest[i]>>, mxOk |-> mail[i][latest[i]] = "ok"]]

(* GET /api/review/:id: a pending item comes with a nonce of its own. *)
read_detail(c, i) ==
  /\ call[c].op = "open" /\ call[c].server = "todo" /\ i \in call[c].to
  /\ IF status[i] = "pending"
     THEN \E n \in Nonces :
            /\ nonce[n].item = Nothing /\ \A m \in Nonces : m < n => nonce[m].item # Nothing
            /\ nonce' = [nonce EXCEPT ![n].item = i]
            /\ call' = [call EXCEPT ![c].server = "done", ![c].detail = mapDetail(i, n)]
     ELSE /\ call' = [call EXCEPT ![c].server = "done", ![c].detail = mapDetail(i, 0)]
          /\ UNCHANGED nonce
  /\ UNCHANGED <<status, mail, latest, certified, promoted, screen, pointer, notice, busy>>

(* POST /contact-email, its first transaction: the nonce is spent and the row
   stored, unless the nonce is no good (or expired, or the reviewer too fast).
   A row that exists keeps its verification.  The item need not be pending. *)
enter_contact_email(c) ==
  LET r == call[c]  i == r.row[1]  a == r.row[2] IN
  /\ r.op = "email" /\ r.server = "todo"
  /\ \/ /\ nonce[r.nonce] = [item |-> i, used |-> FALSE]
        /\ nonce' = [nonce EXCEPT ![r.nonce].used = TRUE]
        /\ mail' = [mail EXCEPT ![i][a] = IF @ = "none" THEN "unknown" ELSE @]
        /\ latest' = [latest EXCEPT ![i] = a]
        /\ call' = [call EXCEPT ![c].server = "entered"]
     \/ /\ call' = [call EXCEPT ![c].server = "done"]
        /\ UNCHANGED <<nonce, mail, latest>>
  /\ UNCHANGED <<status, certified, promoted, screen, pointer, notice, busy>>

(* ... and its second, with what DNS had said before. *)
verify_contact_email(c, mxOk) ==
  LET r == call[c] IN
  /\ r.op = "email" /\ r.server = "entered"
  /\ mail' = [mail EXCEPT ![r.row[1]][r.row[2]] = IF mxOk THEN "ok" ELSE "failed"]
  /\ certified' = IF mxOk THEN certified \cup {r.row} ELSE certified
  /\ call' = [call EXCEPT ![c].server = "done", ![c].ok = r.to, ![c].mxOk = mxOk]
  /\ UNCHANGED <<status, latest, nonce, promoted, screen, pointer, notice, busy>>

(* What decide_review_item asks for, its limits and the score apart. *)
Acceptable(r, i) ==
  /\ status[i] = "pending"
  /\ r.verdict = "approved" => r.row[1] = i /\ mail[i][r.row[2]] = "ok"

(* POST /decision, and one round of the loop of POST /bulk-decision: a refused
   item is passed over, the next ones are tried. *)
decide_review_item(c, i) ==
  LET r == call[c] IN
  /\ r.op \in {"decide", "bulk"} /\ r.server = "todo" /\ i \in r.left
  /\ \/ /\ Acceptable(r, i)
        /\ status' = [status EXCEPT ![i] = r.verdict]
        /\ promoted' = IF r.verdict = "approved" THEN promoted \cup {i} ELSE promoted
        /\ call' = [call EXCEPT ![c].left = @ \ {i}, ![c].ok = @ \cup {i},
                                ![c].server = IF r.left = {i} THEN "done" ELSE @]
     \/ /\ call' = [call EXCEPT ![c].left = @ \ {i},
                                ![c].server = IF r.left = {i} THEN "done" ELSE @]
        /\ UNCHANGED <<status, promoted>>
  /\ UNCHANGED <<mail, latest, nonce, certified, screen, pointer, notice, busy>>

(* Meanwhile: a shortlist publishes an item, another reviewer rejects one, an
   administrator revokes an approval. *)
elsewhere(i) ==
  /\ \/ status[i] = "none" /\ status' = [status EXCEPT ![i] = "pending"]
     \/ status[i] \in {"pending", "approved"} /\ status' = [status EXCEPT ![i] = "rejected"]
  /\ UNCHANGED <<mail, latest, nonce, certified, promoted, screen, pointer, notice, busy, call>>

-----------------------------------------------------------------------------
(* What the tab does with an answer. *)

Waiting(c) == call[c].at = "waiting"

(* openItem after its await. *)
detail_arrives(c) ==
  LET r == call[c] IN
  /\ r.op = "open" /\ Waiting(c) /\ r.server = "done"
  /\ \E i \in r.to :
       items' = IF items[i] = Nothing THEN patchItem(i, r.detail)
                ELSE patchItem(i, [r.detail EXCEPT
                       !.email = IF @ = Nothing THEN items[i].email ELSE @,
                       !.nonce = IF @ = 0 THEN items[i].nonce ELSE @])
  /\ call' = [call EXCEPT ![c] = Over(Heard(@), "done")]
  /\ UNCHANGED <<server, pointer, leads, loading, doubt, notice, busy>>

(* submitEmail after its await: the nonce is taken off the item. *)
email_arrives(c) ==
  LET r == call[c]  i == r.row[1] IN
  /\ r.op = "email" /\ Waiting(c) /\ r.server = "done" /\ r.ok # {}
  /\ items' = IF items[i] = Nothing THEN patchItem(i, Nothing)
              ELSE patchItem(i, [items[i] EXCEPT !.email = [row |-> r.row, mxOk |-> r.mxOk], !.nonce = 0])
  /\ notice' = IF r.mxOk THEN notice ELSE "error"
  /\ busy' = FALSE
  /\ call' = [call EXCEPT ![c] = Over(Heard(@), "done")]
  /\ UNCHANGED <<server, pointer, leads, loading, doubt>>

(* A faulty variant: the list that is out already will do. *)
decidedLazily(c) ==
  LET r == call[c] IN
  /\ r.op \in {"decide", "bulk"} /\ Waiting(c) /\ r.server = "done"
  /\ r.op = "decide" => r.ok # {}
  /\ openId' = IF r.op = "decide" THEN Nothing ELSE openId
  /\ selected' = IF r.op = "bulk" THEN {} ELSE selected
  /\ IF \E d \in Calls : Reading(d)
     THEN /\ call' = [call EXCEPT ![c] = Over(Heard(r), "done")]
          /\ UNCHANGED loading
     ELSE StartReading(c, Heard(r))
  /\ UNCHANGED <<server, dialog, items, leads, doubt, notice, busy>>

(* decide or bulkReject after its first await: the drawer is closed, or the
   selection cleared, and everything is read again. *)
decided(c) ==
  LET r == call[c] IN
  /\ r.op \in {"decide", "bulk"} /\ Waiting(c) /\ r.server = "done"
  /\ r.op = "decide" => r.ok # {}
  /\ openId' = IF r.op = "decide" THEN Nothing ELSE openId
  /\ selected' = IF r.op = "bulk" THEN {} ELSE selected
  /\ StartReading(c, Heard(r))
  /\ UNCHANGED <<server, dialog, items, leads, doubt, notice, busy>>

(* The promise of a request is rejected; busy is cleared whoever set it. *)
Rejected(c) ==
  /\ notice' = "error"
  /\ busy' = (busy /\ call[c].op = "open")
  /\ call' = [call EXCEPT ![c] = Over(@, "failed")]
  /\ UNCHANGED <<server, screen, pointer>>

(* The server answers that it did not do it. *)
refused(c) ==
  /\ Waiting(c)
  /\ call[c].op \in {"email", "decide"} /\ call[c].server = "done" /\ call[c].ok = {}
  /\ Rejected(c)

(* There is no answer, or none that can be read: the network, the gateway or the
   API's process is down.  What the server did, or will do, is not known. *)
unreachable(c) ==
  /\ Waiting(c)
  /\ Rejected(c)

(* The end of decide and of bulkReject, and of a refresh that was not theirs. *)
Partial(r)      == r.op = "bulk" /\ r.ok # r.to
Released(r)     == busy' = (busy /\ r.op = "refresh")

(* Both lists are there, and so are the four readings of loadOps, which may fail
   and are null then.  The list of pending items is replaced as a whole. *)
loaded(c) ==
  LET r == call[c] IN
  /\ Reading(c) /\ r.list # Nothing /\ r.leads # Nothing
  /\ items' = r.list /\ leads' = r.leads /\ loading' = FALSE
  /\ notice' = IF Partial(r) THEN "bulk_partial" ELSE "none"
  /\ Released(r)
  /\ doubt' = ~r.alone
  /\ call' = [call EXCEPT ![c] = Over(@, "done")]
  /\ UNCHANGED <<server, pointer>>

refresh_fails(c) ==
  /\ Reading(c)
  /\ loading' = FALSE
  /\ notice' = IF Partial(call[c]) THEN "bulk_partial" ELSE "error"
  /\ Released(call[c])
  /\ doubt' = TRUE
  /\ call' = [call EXCEPT ![c] = Over(@, "failed")]
  /\ UNCHANGED <<server, pointer, items, leads>>

-----------------------------------------------------------------------------
Reviewer ==
  \/ \E c \in Calls : refresh(c) \/ confirm_reject(c)
  \/ \E c \in Calls, i \in Items : openItem(c, i) \/ approve(c, i)
  \/ \E c \in Calls, i \in Items, a \in Addresses : submitEmail(c, i, a)
  \/ \E i \in Items : move(i) \/ toggleSelect(i)
  \/ \E ids \in SUBSET Items : openReject(ids)
  \/ close_drawer \/ close_dialog \/ dismissNotice

Server ==
  \/ \E c \in Calls : read_list(c) \/ read_leads(c) \/ enter_contact_email(c)
  \/ \E c \in Calls, i \in Items : read_detail(c, i) \/ decide_review_item(c, i)
  \/ \E c \in Calls, mxOk \in BOOLEAN : verify_contact_email(c, mxOk)
  \/ \E i \in Items : elsewhere(i)

Settles(c) == \/ detail_arrives(c) \/ email_arrives(c) \/ decided(c) \/ refused(c) \/ unreachable(c)
              \/ loaded(c) \/ refresh_fails(c)

ConsoleNext == Reviewer \/ Server \/ \E c \in Calls : Settles(c)

ConsoleSpec == ConsoleInit /\ [][ConsoleNext]_consoleVars
-----------------------------------------------------------------------------
(* The console is never ahead of the database: an item shown as decided, an
   address shown as having passed MX and a lead shown have been that in the
   database, whatever failed and whoever undid it since (store.tsx:14-16).  And
   a nonce and an address stand with the item they belong to, however the drawer
   moved while the detail was on its way. *)
ScreenNeverAhead ==
  /\ leads \subseteq promoted
  /\ \A i \in Items : items[i] # Nothing =>
       /\ items[i].status = "approved" => i \in promoted
       /\ items[i].status = "rejected" => status[i] = "rejected"
       /\ MxOk(i) => items[i].email.row \in certified
       /\ items[i].nonce # 0 => nonce[items[i].nonce].item = i
       /\ items[i].email # Nothing => items[i].email.row[1] = i

(* When no call is out the buttons are unlocked and the table is there, however
   the calls overlapped and ended: busy is one slot that all of them share. *)
QuietMeansUnlocked ==
  (\A c \in Calls : call[c].at \notin {"waiting", "reading"}) => ~busy /\ ~loading

(* What the tab was told is decided. *)
Acknowledged(verdict) ==
  UNION { call[c].ok : c \in {d \in Calls : call[d].told /\ call[d].verdict = verdict} }

Current(i) ==
  /\ ~Visible(i)
  /\ i \in Acknowledged("approved") /\ status[i] = "approved" => i \in leads

(* Once refreshes do not overlap and the last one came through, what this
   reviewer approved or rejected has left the queue, and what is approved
   is among the leads. *)
UnracedScreenIsCurrent ==
  ~doubt /\ (\A c \in Calls : ~Reading(c)) =>
    \A i \in Acknowledged("approved") \cup Acknowledged("rejected") : Current(i)
=============================================================================

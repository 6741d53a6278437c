---------------------------- MODULE LeadsProofs ----------------------------
(***************************************************************************)
(* Proofs about entries, exports and suspension, for any companies,        *)
(* addresses, reviewers, requests and sessions and any limits.             *)
(***************************************************************************)
EXTENDS Leads, FiniteSetTheorems, TLAPS

(* A request under way knows what it was made for. *)
BusyEntries ==
  \A q \in Entries : entry[q].at \in {"looked", "waiting", "counting", "stored"} =>
    /\ entry[q].company \in Companies
    /\ entry[q].address \in Addresses
    /\ entry[q].user \in Users
    /\ entry[q].nonce \in Nonces

InTransaction(q) == entry[q].at \in {"waiting", "counting"}

(* A transaction that has marked a nonce used has found it live, and nobody
   else has it. *)
NoncesAreHeld ==
  /\ \A q \in Entries : InTransaction(q) =>
       nonce[entry[q].nonce].at = "live" /\ nonce[entry[q].nonce].user = entry[q].user
  /\ \A p, q \in Entries : InTransaction(p) /\ InTransaction(q) /\ entry[p].nonce = entry[q].nonce => p = q

(* An event is of a request that has committed. *)
EventsAreCommitted ==
  /\ IsFiniteSet(events)
  /\ \A e \in events : entry[e.by].at \in {"stored", "over"}

(* Under the advisory lock there is room for one more entry, and one request
   has it. *)
RoomIsHeld ==
  /\ \A q \in Entries : entry[q].at = "counting" =>
       Cardinality(Recent(entry[q].user, entry[q].began)) < RateLimit
  /\ \A p, q \in Entries :
       entry[p].at = "counting" /\ entry[q].at = "counting" /\ entry[p].user = entry[q].user => p = q

EntryInv ==
  BusyEntries /\ NoncesAreHeld /\ EventsAreCommitted /\ RoomIsHeld /\ EntriesSpendNonces /\ EntriesAreRated

(* An updated lead is locked by one export, and was below the cap. *)
HeldBelowCap ==
  /\ \A x, y \in Exports, c \in Companies : c \in export[x].held /\ c \in export[y].held => x = y
  /\ \A x \in Exports, c \in Companies : c \in export[x].held => lead[c].exports < MaxPerLead

IInv == TypeOK /\ EntryInv /\ HeldBelowCap

-----------------------------------------------------------------------------
(* Before anything happened nothing is held, spent or entered. *)
LEMMA InitIInv == Init => IInv
<1> SUFFICES ASSUME Init PROVE IInv  OBVIOUS
<1>1. TypeOK
  <2>1. now \in 0 .. MaxTime /\ events \subseteq EventRow  BY TimeAssumption DEF Init
  <2>2. nonce \in [Nonces -> NonceRow]  BY DEF Init, NonceRow
  <2>3. entry \in [Entries -> EntryState]
    <3>1. [Over EXCEPT !.at = "idle"] \in EntryState  BY DEF Over, EntryState
    <3>2. QED  BY <3>1 DEF Init
  <2>4. email \in [Companies -> [Addresses -> EmailStates]]  BY DEF Init, EmailStates
  <2>5. item \in [Companies -> {"pending", "approved", "rejected"}]  BY DEF Init
  <2>6. looked \in [Companies -> Addresses \cup {Nobody}]  BY DEF Init
  <2>7. lead \in [Companies -> LeadRow]
    <3>1. NoLead \in LeadRow  BY CapAssumption DEF NoLead, LeadRow, Bases
    <3>2. QED  BY <3>1 DEF Init
  <2>8. suspended \in [Companies -> BOOLEAN]  BY DEF Init
  <2>9. request \in [Requests -> RequestRow]  BY DEF Init, RequestRow, Kinds
  <2>10. export \in [Exports -> ExportState]  BY DEF Init, ExportState
  <2>11. QED  BY <2>1, <2>2, <2>3, <2>4, <2>5, <2>6, <2>7, <2>8, <2>9, <2>10 DEF TypeOK
<1>2. \A q \in Entries : entry[q].at = "idle"  BY DEF Init, Over
<1>3. BusyEntries /\ NoncesAreHeld  BY <1>2 DEF BusyEntries, NoncesAreHeld, InTransaction
<1>4. EventsAreCommitted  BY FS_EmptySet DEF Init, EventsAreCommitted
<1>5. RoomIsHeld  BY <1>2 DEF RoomIsHeld
<1>6. EntriesSpendNonces
  <2> SUFFICES ASSUME NEW u \in Users
               PROVE Cardinality({e \in events : e.user = u})
                       = Cardinality({n \in Nonces : nonce[n].at = "used" /\ nonce[n].user = u})
    BY DEF EntriesSpendNonces
  <2>1. {e \in events : e.user = u} = {}  BY DEF Init
  <2>2. {n \in Nonces : nonce[n].at = "used" /\ nonce[n].user = u} = {}  BY DEF Init
  <2>3. QED  BY <2>1, <2>2
<1>7. EntriesAreRated
  <2> SUFFICES ASSUME NEW u \in Users, NEW t \in 0 .. MaxTime
               PROVE Cardinality({e \in events : e.user = u /\ t <= e.at /\ e.at < t + Minute}) <= RateLimit
    BY DEF EntriesAreRated
  <2>1. {e \in events : e.user = u /\ t <= e.at /\ e.at < t + Minute} = {}  BY DEF Init
  <2>2. QED  BY <2>1, FS_EmptySet, RateAssumption
<1>8. HeldBelowCap  BY DEF Init, HeldBelowCap
<1>9. QED  BY <1>1, <1>3, <1>4, <1>5, <1>6, <1>7, <1>8 DEF IInv, EntryInv

-----------------------------------------------------------------------------
(* Steps that leave a part of the state alone keep what is said of it. *)
LEMMA EntryFrame ==
  ASSUME EntryInv, UNCHANGED entryVars
  PROVE  EntryInv'
BY DEF EntryInv, entryVars, BusyEntries, NoncesAreHeld, InTransaction, EventsAreCommitted, RoomIsHeld, Recent,
       EntriesSpendNonces, EntriesAreRated

(* The same for what exports hold. *)
LEMMA ExportFrame ==
  ASSUME HeldBelowCap, UNCHANGED <<lead, export>>
  PROVE  HeldBelowCap'
BY DEF HeldBelowCap

(* What of a state is of its type. *)
LEMMA Types ==
  ASSUME TypeOK
  PROVE  /\ \A n \in Nonces : nonce[n] \in NonceRow
         /\ \A q \in Entries : entry[q] \in EntryState
         /\ \A c \in Companies : lead[c] \in LeadRow
         /\ Over \in EntryState /\ NoLead \in LeadRow
BY CapAssumption DEF TypeOK, Over, EntryState, NoLead, LeadRow, Bases

(* A new nonce is nobody's: none that a transaction uses changes. *)
LEMMA StepIssue ==
  ASSUME IInv, NEW n \in Nonces, NEW u \in Users, NEW c \in Companies, issue_review_nonce(n, u, c)
  PROVE  IInv'
<1> USE DEF issue_review_nonce
<1>1. TypeOK'
  <2>1. now + Ttl \in Nat  BY TtlAssumption, TimeAssumption DEF IInv, TypeOK
  <2>2. nonce' \in [Nonces -> NonceRow]  BY <2>1 DEF IInv, TypeOK, NonceRow
  <2>3. QED  BY <2>2 DEF IInv, TypeOK, reviewVars
<1>2. BusyEntries'  BY DEF IInv, EntryInv, BusyEntries
<1>3. NoncesAreHeld'
  <2>1. \A q \in Entries : InTransaction(q) => entry[q].nonce # n
    BY DEF IInv, EntryInv, NoncesAreHeld, InTransaction
  <2>2. \A q \in Entries : InTransaction(q) => entry[q].nonce \in Nonces
    BY DEF IInv, EntryInv, BusyEntries, InTransaction
  <2>3. \A q \in Entries : InTransaction(q) => nonce'[entry[q].nonce] = nonce[entry[q].nonce]
    BY <2>1, <2>2 DEF IInv, TypeOK
  <2>4. \A q \in Entries : InTransaction(q)' <=> InTransaction(q)  BY DEF InTransaction
  <2>5. QED  BY <2>3, <2>4 DEF IInv, EntryInv, NoncesAreHeld
<1>4. EventsAreCommitted' /\ RoomIsHeld' /\ EntriesAreRated'
  BY DEF IInv, EntryInv, EventsAreCommitted, RoomIsHeld, Recent, EntriesAreRated
<1>5. EntriesSpendNonces'
  <2> SUFFICES ASSUME NEW v \in Users
               PROVE Cardinality({e \in events : e.user = v})'
                       = Cardinality({m \in Nonces : nonce[m].at = "used" /\ nonce[m].user = v})'
    BY DEF EntriesSpendNonces
  <2>1. \A m \in Nonces : (nonce[m].at = "used" /\ nonce[m].user = v)' <=> nonce[m].at = "used" /\ nonce[m].user = v
    BY DEF IInv, TypeOK
  <2>2. {m \in Nonces : nonce[m].at = "used" /\ nonce[m].user = v}'
          = {m \in Nonces : nonce[m].at = "used" /\ nonce[m].user = v}  BY <2>1
  <2>3. QED  BY <2>2 DEF IInv, EntryInv, EntriesSpendNonces
<1>6. HeldBelowCap'  BY ExportFrame DEF IInv
<1>7. QED  BY <1>1, <1>2, <1>3, <1>4, <1>5, <1>6 DEF IInv, EntryInv

(* A request that comes, waits or goes, but stores nothing: it takes no nonce
   another has, and the room only if nobody else is counting. *)
LEMMA EntryMoves ==
  ASSUME IInv, NEW q \in Entries, NEW r \in EntryState,
         entry' = [entry EXCEPT ![q] = r], UNCHANGED <<now, nonce, events>>,
         UNCHANGED <<reviewVars, lead, suspended, request, export>>, email' \in [Companies -> [Addresses -> EmailStates]],
         r.at \in {"looked", "waiting", "counting", "stored"} =>
           r.company \in Companies /\ r.address \in Addresses /\ r.user \in Users /\ r.nonce \in Nonces,
         r.at \in {"waiting", "counting"} =>
           /\ nonce[r.nonce].at = "live" /\ nonce[r.nonce].user = r.user
           /\ \A p \in Entries \ {q} : InTransaction(p) => entry[p].nonce # r.nonce,
         r.at = "counting" =>
           /\ Cardinality(Recent(r.user, r.began)) < RateLimit
           /\ \A p \in Entries \ {q} : entry[p].at = "counting" => entry[p].user # r.user,
         entry[q].at \in {"stored", "over"} => r.at \in {"stored", "over"}
  PROVE  IInv'
<1>1. entry \in [Entries -> EntryState]  BY DEF IInv, TypeOK
<1>2. entry'[q] = r /\ \A p \in Entries \ {q} : entry'[p] = entry[p]  BY <1>1
<1>3. TypeOK'  BY <1>1 DEF IInv, TypeOK, reviewVars
<1>4. BusyEntries'  BY <1>2 DEF IInv, EntryInv, BusyEntries
<1>5. NoncesAreHeld'
  <2>1. \A p \in Entries \ {q} : InTransaction(p)' <=> InTransaction(p)  BY <1>2 DEF InTransaction
  <2>2. InTransaction(q)' <=> r.at \in {"waiting", "counting"}  BY <1>2 DEF InTransaction
  <2>3. QED  BY <1>2, <2>1, <2>2 DEF IInv, EntryInv, NoncesAreHeld
<1>6. EventsAreCommitted'
  <2>1. events \subseteq EventRow  BY DEF IInv, TypeOK
  <2>2. \A e \in events : e.by \in Entries  BY <2>1 DEF EventRow
  <2>3. QED  BY <1>2, <2>2 DEF IInv, EntryInv, EventsAreCommitted
<1>7. RoomIsHeld'
  <2>1. \A u, t : Recent(u, t)' = Recent(u, t)  BY DEF Recent
  <2>2. QED  BY <1>2, <2>1 DEF IInv, EntryInv, RoomIsHeld
<1>8. EntriesSpendNonces' /\ EntriesAreRated'
  BY DEF IInv, EntryInv, EntriesSpendNonces, EntriesAreRated
<1>9. HeldBelowCap'  BY ExportFrame DEF IInv
<1>10. QED  BY <1>3, <1>4, <1>5, <1>6, <1>7, <1>8, <1>9 DEF IInv, EntryInv

(* A request that comes has taken nothing yet. *)
LEMMA StepContact ==
  ASSUME IInv, NEW q \in Entries, NEW u \in Users, NEW c \in Companies, NEW a \in Addresses, NEW n \in Nonces,
         NEW mx \in BOOLEAN, contact_email(q, u, c, a, n, mx)
  PROVE  IInv'
<1> DEFINE r == [at |-> "looked", company |-> c, address |-> a, user |-> u, nonce |-> n, mx |-> mx, began |-> 0]
<1>1. r \in EntryState /\ r.at = "looked"  BY DEF EntryState
<1>2. r.company \in Companies /\ r.address \in Addresses /\ r.user \in Users /\ r.nonce \in Nonces  OBVIOUS
<1>3. entry[q].at \notin {"stored", "over"} /\ entry' = [entry EXCEPT ![q] = r]  BY DEF contact_email
<1>4. UNCHANGED <<now, nonce, events>> /\ UNCHANGED <<reviewVars, lead, suspended, request, export>>
      /\ email' \in [Companies -> [Addresses -> EmailStates]]  BY DEF contact_email, IInv, TypeOK
<1> HIDE DEF r
<1>5. QED  BY <1>1, <1>2, <1>3, <1>4, EntryMoves

(* A request that ends gives back what it had. *)
LEMMA StepOver ==
  ASSUME IInv, NEW q \in Entries, entry' = [entry EXCEPT ![q] = Over], UNCHANGED <<now, nonce, events>>,
         UNCHANGED <<reviewVars, lead, suspended, request, export>>,
         email' \in [Companies -> [Addresses -> EmailStates]]
  PROVE  IInv'
<1>1. Over \in EntryState  BY Types DEF IInv
<1>2. Over.at = "over"  BY DEF Over
<1>3. QED  BY <1>1, <1>2, EntryMoves

(* A transaction begins with a valid nonce that no other holds, or ends. *)
LEMMA StepBegin ==
  ASSUME IInv, NEW q \in Entries, begin_entry(q)
  PROVE  IInv'
<1>1. UNCHANGED <<now, nonce, events>> /\ UNCHANGED <<reviewVars, lead, suspended, request, export>>
      /\ email' \in [Companies -> [Addresses -> EmailStates]]  BY DEF begin_entry, IInv, TypeOK
<1>2. CASE ~NonceValid(q)
  <2>1. entry' = [entry EXCEPT ![q] = Over]  BY <1>2 DEF begin_entry
  <2>2. QED  BY <1>1, <2>1, StepOver
<1>3. CASE NonceValid(q)
  <2> DEFINE r == [entry[q] EXCEPT !.at = "waiting", !.began = now]
  <2>1. entry[q] \in EntryState /\ entry[q].at = "looked"  BY Types DEF IInv, begin_entry
  <2>2. now \in Nat  BY TimeAssumption DEF IInv, TypeOK
  <2>3. /\ r \in EntryState /\ r.at = "waiting" /\ r.user = entry[q].user /\ r.nonce = entry[q].nonce
        /\ r.company = entry[q].company /\ r.address = entry[q].address
    BY <2>1, <2>2 DEF EntryState
  <2>4. entry' = [entry EXCEPT ![q] = r]  BY <1>3 DEF begin_entry
  <2>5. r.company \in Companies /\ r.address \in Addresses /\ r.user \in Users /\ r.nonce \in Nonces
    BY <2>1, <2>3 DEF IInv, EntryInv, BusyEntries
  <2>6. nonce[r.nonce].at = "live" /\ nonce[r.nonce].user = r.user  BY <1>3, <2>3 DEF NonceValid
  <2>7. \A p \in Entries \ {q} : InTransaction(p) => entry[p].nonce # r.nonce
    BY <2>3 DEF begin_entry, NonceLocked, InTransaction
  <2> HIDE DEF r
  <2>8. QED  BY <1>1, <2>1, <2>3, <2>4, <2>5, <2>6, <2>7, EntryMoves
<1>4. QED  BY <1>2, <1>3

(* Under the advisory lock there is room, or the request ends. *)
LEMMA StepCount ==
  ASSUME IInv, NEW q \in Entries, count_entries(q)
  PROVE  IInv'
<1>1. UNCHANGED <<now, nonce, events>> /\ UNCHANGED <<reviewVars, lead, suspended, request, export>>
      /\ email' \in [Companies -> [Addresses -> EmailStates]]  BY DEF count_entries, IInv, TypeOK
<1> DEFINE Room == Cardinality(Recent(entry[q].user, entry[q].began)) < RateLimit
<1>2. CASE ~Room
  <2>1. entry' = [entry EXCEPT ![q] = Over]  BY <1>2 DEF count_entries
  <2>2. QED  BY <1>1, <2>1, StepOver
<1>3. CASE Room
  <2> DEFINE r == [entry[q] EXCEPT !.at = "counting"]
  <2>1. entry[q] \in EntryState /\ entry[q].at = "waiting"  BY Types DEF IInv, count_entries
  <2>2. /\ r \in EntryState /\ r.at = "counting" /\ r.user = entry[q].user /\ r.nonce = entry[q].nonce
        /\ r.company = entry[q].company /\ r.address = entry[q].address /\ r.began = entry[q].began
    BY <2>1 DEF EntryState
  <2>3. entry' = [entry EXCEPT ![q] = r]  BY <1>3 DEF count_entries
  <2>4. r.company \in Companies /\ r.address \in Addresses /\ r.user \in Users /\ r.nonce \in Nonces
    BY <2>1, <2>2 DEF IInv, EntryInv, BusyEntries
  <2>5. /\ nonce[r.nonce].at = "live" /\ nonce[r.nonce].user = r.user
        /\ \A p \in Entries \ {q} : InTransaction(p) => entry[p].nonce # r.nonce
    BY <2>1, <2>2 DEF IInv, EntryInv, NoncesAreHeld, InTransaction
  <2>6. Cardinality(Recent(r.user, r.began)) < RateLimit  BY <1>3, <2>2
  <2>7. \A p \in Entries \ {q} : entry[p].at = "counting" => entry[p].user # r.user
    BY <2>2 DEF count_entries, UserBusy
  <2> HIDE DEF r
  <2>8. QED  BY <1>1, <2>1, <2>2, <2>3, <2>4, <2>5, <2>6, <2>7, EntryMoves
<1>4. QED  BY <1>2, <1>3

(* What DNS said is written to a row that exists. *)
LEMMA StepVerify ==
  ASSUME IInv, NEW q \in Entries, verify_contact_email(q)
  PROVE  IInv'
<1>1. entry' = [entry EXCEPT ![q] = Over] /\ UNCHANGED <<now, nonce, events>>
      /\ UNCHANGED <<reviewVars, lead, suspended, request, export>>  BY DEF verify_contact_email
<1>2. email' \in [Companies -> [Addresses -> EmailStates]]
  <2>1. email \in [Companies -> [Addresses -> EmailStates]]  BY DEF IInv, TypeOK
  <2>2. PICK x \in EmailStates : email' = [email EXCEPT ![entry[q].company][entry[q].address] = x]
    <3>1. entry[q].company \in Companies /\ entry[q].address \in Addresses
      BY DEF IInv, EntryInv, BusyEntries, verify_contact_email
    <3>2. email[entry[q].company][entry[q].address] \in EmailStates  BY <2>1, <3>1
    <3>3. QED  BY <3>2 DEF verify_contact_email, EmailStates
  <2>3. QED  BY <2>1, <2>2
<1>3. QED  BY <1>1, <1>2, StepOver

(* A lost connection ends a request. *)
LEMMA StepLost ==
  ASSUME IInv, NEW q \in Entries, entry_lost(q)
  PROVE  IInv'
<1>1. email' \in [Companies -> [Addresses -> EmailStates]]  BY DEF IInv, TypeOK, entry_lost
<1>2. QED  BY <1>1, StepOver DEF entry_lost

(* What a request stores fits: it is one more event, one more spent nonce, and
   the minute has room for it. *)
LEMMA StepStored ==
  ASSUME IInv, NEW q \in Entries, NEW u \in Users, NEW n \in Nonces, NEW t \in Nat,
         entry[q].at = "counting", entry[q].user = u, entry[q].nonce = n, entry[q].began = t,
         events' = events \cup {[user |-> u, at |-> t, by |-> q]},
         nonce' = [nonce EXCEPT ![n].at = "used"],
         email' \in [Companies -> [Addresses -> EmailStates]],
         entry' = [entry EXCEPT ![q].at = "stored"],
         UNCHANGED <<now, reviewVars, lead, suspended, request, export>>
  PROVE  IInv'
<1> DEFINE ev == [user |-> u, at |-> t, by |-> q]
<1>1. ev \in EventRow /\ ev.user = u /\ ev.at = t /\ ev.by = q  BY DEF EventRow
<1>2. events' = events \cup {ev}  OBVIOUS
<1>3. ev \notin events  BY <1>1 DEF IInv, EntryInv, EventsAreCommitted
<1>4. /\ entry \in [Entries -> EntryState] /\ nonce \in [Nonces -> NonceRow] /\ events \subseteq EventRow
      /\ IsFiniteSet(events)
  BY DEF IInv, TypeOK, EntryInv, EventsAreCommitted
<1>5. /\ entry'[q] = [entry[q] EXCEPT !.at = "stored"] /\ entry[q] \in EntryState
      /\ \A p \in Entries \ {q} : entry'[p] = entry[p]  BY <1>4
<1>6. /\ entry'[q].at = "stored" /\ entry'[q].company = entry[q].company /\ entry'[q].address = entry[q].address
      /\ entry'[q].user = u /\ entry'[q].nonce = n /\ entry'[q] \in EntryState
  BY <1>5 DEF EntryState
<1>7. /\ nonce'[n] = [nonce[n] EXCEPT !.at = "used"] /\ nonce[n] \in NonceRow
      /\ \A m \in Nonces \ {n} : nonce'[m] = nonce[m]  BY <1>4
<1>8. nonce'[n].at = "used" /\ nonce'[n].user = nonce[n].user /\ nonce'[n] \in NonceRow  BY <1>7 DEF NonceRow
<1>9. nonce[n].at = "live" /\ nonce[n].user = u
  BY DEF IInv, EntryInv, NoncesAreHeld, InTransaction
<1> HIDE DEF ev
<1>10. TypeOK'
  <2>1. nonce' \in [Nonces -> NonceRow]  BY <1>4, <1>7, <1>8
  <2>2. entry' \in [Entries -> EntryState]  BY <1>4, <1>5, <1>6
  <2>3. events' \subseteq EventRow  BY <1>1, <1>2, <1>4
  <2>4. QED  BY <2>1, <2>2, <2>3 DEF IInv, TypeOK, reviewVars
<1>11. BusyEntries'  BY <1>5, <1>6 DEF IInv, EntryInv, BusyEntries
<1>12. NoncesAreHeld'
  <2>1. ~InTransaction(q)' /\ InTransaction(q)  BY <1>6 DEF InTransaction
  <2>2. \A p \in Entries \ {q} : InTransaction(p)' <=> InTransaction(p)  BY <1>5 DEF InTransaction
  <2>3. \A p \in Entries \ {q} : InTransaction(p) => entry[p].nonce \in Nonces \ {n}
    BY <2>1 DEF IInv, EntryInv, NoncesAreHeld, BusyEntries, InTransaction
  <2>4. \A p \in Entries : InTransaction(p)' =>
          /\ p # q /\ InTransaction(p) /\ entry'[p] = entry[p] /\ nonce'[entry[p].nonce] = nonce[entry[p].nonce]
    BY <1>5, <1>7, <2>1, <2>2, <2>3
  <2>5. \A p \in Entries : InTransaction(p)' =>
          (nonce[entry[p].nonce].at = "live" /\ nonce[entry[p].nonce].user = entry[p].user)'
    <3> SUFFICES ASSUME NEW p \in Entries, InTransaction(p)'
                 PROVE (nonce[entry[p].nonce].at = "live" /\ nonce[entry[p].nonce].user = entry[p].user)'
      OBVIOUS
    <3>1. InTransaction(p) /\ entry'[p] = entry[p] /\ nonce'[entry[p].nonce] = nonce[entry[p].nonce]  BY <2>4
    <3>2. nonce[entry[p].nonce].at = "live" /\ nonce[entry[p].nonce].user = entry[p].user
      BY <3>1 DEF IInv, EntryInv, NoncesAreHeld
    <3>3. QED  BY <3>1, <3>2
  <2>6. \A p, r \in Entries :
          InTransaction(p)' /\ InTransaction(r)' /\ entry'[p].nonce = entry'[r].nonce => p = r
    BY <2>4 DEF IInv, EntryInv, NoncesAreHeld
  <2>7. QED  BY <2>5, <2>6 DEF NoncesAreHeld
<1>13. EventsAreCommitted'
  <2>1. IsFiniteSet(events')  BY <1>2, <1>4, FS_AddElement
  <2>2. \A e \in events : e.by \in Entries  BY <1>4 DEF EventRow
  <2>3. \A e \in events' : entry'[e.by].at \in {"stored", "over"}
    BY <1>1, <1>2, <1>5, <1>6, <2>2 DEF IInv, EntryInv, EventsAreCommitted
  <2>4. QED  BY <2>1, <2>3 DEF EventsAreCommitted
<1>14. RoomIsHeld'
  <2>1. \A p \in Entries : entry'[p].at = "counting" => p # q /\ entry'[p] = entry[p] /\ entry[p].user # u
    BY <1>5, <1>6 DEF IInv, EntryInv, RoomIsHeld
  <2>2. \A v, s : v # u => Recent(v, s)' = Recent(v, s)  BY <1>1, <1>2 DEF Recent
  <2>3. QED  BY <2>1, <2>2 DEF IInv, EntryInv, RoomIsHeld
<1>15. EntriesSpendNonces'
  <2> SUFFICES ASSUME NEW v \in Users
               PROVE Cardinality({e \in events : e.user = v})'
                       = Cardinality({m \in Nonces : nonce[m].at = "used" /\ nonce[m].user = v})'
    BY DEF EntriesSpendNonces
  <2> DEFINE E == {e \in events : e.user = v}
             N == {m \in Nonces : nonce[m].at = "used" /\ nonce[m].user = v}
  <2>1. Cardinality(E) = Cardinality(N)  BY DEF IInv, EntryInv, EntriesSpendNonces
  <2>2. IsFiniteSet(E) /\ IsFiniteSet(N)  BY <1>4, FS_Subset, SetsAssumption
  <2>3. CASE v = u
    <3>1. E' = E \cup {ev}  BY <1>1, <1>2, <2>3
    <3>2. N' = N \cup {n}  BY <1>7, <1>8, <1>9, <2>3
    <3>3. ev \notin E /\ n \notin N  BY <1>3, <1>9
    <3> HIDE DEF E, N
    <3>4. Cardinality(E \cup {ev}) = Cardinality(E) + 1 /\ Cardinality(N \cup {n}) = Cardinality(N) + 1
      BY <2>2, <3>3, FS_AddElement
    <3>5. Cardinality(E') = Cardinality(N')  BY <2>1, <3>1, <3>2, <3>4
    <3>6. QED  BY <3>5 DEF E, N
  <2>4. CASE v # u
    <3>1. E' = E  BY <1>1, <1>2, <2>4
    <3>2. N' = N  BY <1>7, <1>8, <1>9, <2>4
    <3>3. QED  BY <2>1, <3>1, <3>2
  <2>5. QED  BY <2>3, <2>4
<1>16. EntriesAreRated'
  <2> SUFFICES ASSUME NEW v \in Users, NEW s \in 0 .. MaxTime
               PROVE Cardinality({e \in events : e.user = v /\ s <= e.at /\ e.at < s + Minute})' <= RateLimit
    BY DEF EntriesAreRated
  <2> DEFINE W == {e \in events : e.user = v /\ s <= e.at /\ e.at < s + Minute}
             R == Recent(u, t)
  <2>1. Cardinality(W) <= RateLimit  BY DEF IInv, EntryInv, EntriesAreRated
  <2>2. IsFiniteSet(W) /\ IsFiniteSet(R)  BY <1>4, FS_Subset DEF Recent
  <2>3. CASE v = u /\ s <= t /\ t < s + Minute
    <3>1. W' = W \cup {ev}  BY <1>1, <1>2, <2>3
    <3>2. W \subseteq R
      <4>1. \A e \in events : e.at \in Nat  BY <1>4 DEF EventRow
      <4>2. s \in Nat /\ Minute \in Nat  BY TimeAssumption
      <4>3. QED  BY <2>3, <4>1, <4>2 DEF Recent
    <3>3. Cardinality(R) < RateLimit  BY DEF IInv, EntryInv, RoomIsHeld
    <3>4. ev \notin W  BY <1>3
    <3> HIDE DEF W, R
    <3>5. Cardinality(W) <= Cardinality(R) /\ Cardinality(W) \in Nat /\ Cardinality(R) \in Nat
      BY <2>2, <3>2, FS_Subset, FS_CardinalityType
    <3>6. Cardinality(W \cup {ev}) = Cardinality(W) + 1  BY <2>2, <3>4, FS_AddElement
    <3>7. Cardinality(W') <= RateLimit  BY <3>1, <3>3, <3>5, <3>6, RateAssumption
    <3>8. QED  BY <3>7 DEF W
  <2>4. CASE ~(v = u /\ s <= t /\ t < s + Minute)
    <3>1. W' = W  BY <1>1, <1>2, <2>4
    <3>2. QED  BY <2>1, <3>1
  <2>5. QED  BY <2>3, <2>4
<1>17. HeldBelowCap'  BY ExportFrame DEF IInv
<1>18. QED  BY <1>10, <1>11, <1>12, <1>13, <1>14, <1>15, <1>16, <1>17 DEF IInv, EntryInv

(* The last step of an entry stores it, or rolls it back. *)
LEMMA StepStore ==
  ASSUME IInv, NEW q \in Entries, store_entry(q)
  PROVE  IInv'
<1>1. UNCHANGED <<now, reviewVars, lead, suspended, request, export>> /\ entry[q].at = "counting"
  BY DEF store_entry
<1>2. email \in [Companies -> [Addresses -> EmailStates]]  BY DEF IInv, TypeOK
<1>3. CASE entry' = [entry EXCEPT ![q] = Over] /\ UNCHANGED <<nonce, events, email>>
  BY <1>1, <1>2, <1>3, StepOver
<1>4. CASE /\ events' = events \cup {[user |-> entry[q].user, at |-> entry[q].began, by |-> q]}
           /\ nonce' = [nonce EXCEPT ![entry[q].nonce].at = "used"]
           /\ email' = [email EXCEPT ![entry[q].company][entry[q].address] = IF @ = "none" THEN "unknown" ELSE @]
           /\ entry' = [entry EXCEPT ![q].at = "stored"]
  <2>1. /\ entry[q].company \in Companies /\ entry[q].address \in Addresses
        /\ entry[q].user \in Users /\ entry[q].nonce \in Nonces
    BY <1>1 DEF IInv, EntryInv, BusyEntries
  <2>2. entry[q].began \in Nat  BY Types DEF IInv, EntryState
  <2>3. email' \in [Companies -> [Addresses -> EmailStates]]
    <3>1. email[entry[q].company][entry[q].address] \in EmailStates  BY <1>2, <2>1
    <3>2. PICK x \in EmailStates : email' = [email EXCEPT ![entry[q].company][entry[q].address] = x]
      BY <1>4, <3>1 DEF EmailStates
    <3>3. QED  BY <1>2, <3>2
  <2>4. QED  BY <1>1, <1>4, <2>1, <2>2, <2>3, StepStored
<1>5. QED  BY <1>3, <1>4 DEF store_entry

-----------------------------------------------------------------------------
(* The steps of the other transactions. *)

(* The look at the address touches neither entries nor exports. *)
LEMMA StepBeginApprove ==
  ASSUME IInv, NEW c \in Companies, NEW a \in Addresses, begin_approve(c, a)
  PROVE  IInv'
<1>1. TypeOK'  BY DEF begin_approve, IInv, TypeOK, entryVars
<1>2. UNCHANGED entryVars /\ UNCHANGED <<lead, export>>  BY DEF begin_approve
<1>3. QED  BY <1>1, <1>2, EntryFrame, ExportFrame DEF IInv

(* Nor does a rejection. *)
LEMMA StepReject ==
  ASSUME IInv, NEW c \in Companies, reject(c)
  PROVE  IInv'
<1>1. TypeOK'  BY DEF reject, IInv, TypeOK, entryVars
<1>2. UNCHANGED entryVars /\ UNCHANGED <<lead, export>>  BY DEF reject
<1>3. QED  BY <1>1, <1>2, EntryFrame, ExportFrame DEF IInv

(* A lead that changes is not held by an export, or stays below the cap. *)
LEMMA LeadMoves ==
  ASSUME IInv, NEW c \in Companies, NEW l \in LeadRow, lead' = [lead EXCEPT ![c] = l],
         UNCHANGED <<now, entryVars, suspended, request, export>>,
         email' \in [Companies -> [Addresses -> EmailStates]],
         item' \in [Companies -> {"pending", "approved", "rejected"}],
         looked' \in [Companies -> Addresses \cup {Nobody}],
         l.exports < MaxPerLead \/ ~LeadLocked(c)
  PROVE  IInv'
<1>1. lead \in [Companies -> LeadRow]  BY DEF IInv, TypeOK
<1>2. lead'[c] = l /\ \A d \in Companies \ {c} : lead'[d] = lead[d]  BY <1>1
<1>3. TypeOK'  BY <1>1 DEF IInv, TypeOK, entryVars
<1>4. HeldBelowCap'  BY <1>2 DEF IInv, HeldBelowCap, LeadLocked
<1>5. QED  BY <1>3, <1>4, EntryFrame DEF IInv

(* A lead that is inserted has not been exported. *)
LEMMA StepApprove ==
  ASSUME IInv, NEW c \in Companies, commit_approve(c)
  PROVE  IInv'
<1>1. /\ email \in [Companies -> [Addresses -> EmailStates]]
      /\ item \in [Companies -> {"pending", "approved", "rejected"}]
      /\ looked \in [Companies -> Addresses \cup {Nobody}] /\ lead \in [Companies -> LeadRow]
  BY DEF IInv, TypeOK
<1>2. /\ email' \in [Companies -> [Addresses -> EmailStates]]
      /\ item' \in [Companies -> {"pending", "approved", "rejected"}]
      /\ looked' \in [Companies -> Addresses \cup {Nobody}]
      /\ UNCHANGED <<now, entryVars, suspended, request, export>>
  BY <1>1 DEF commit_approve
<1>3. CASE lead' = [lead EXCEPT ![c] = [NoLead EXCEPT !.address = looked[c]]]
  <2> DEFINE l == [NoLead EXCEPT !.address = looked[c]]
  <2>1. looked[c] \in Addresses \cup {Nobody}  BY <1>1
  <2>2. l \in LeadRow /\ l.exports = 0
    <3>1. NoLead \in LeadRow /\ NoLead.exports = 0  BY Types DEF IInv, NoLead
    <3>2. QED  BY <2>1, <3>1 DEF LeadRow
  <2>3. l.exports < MaxPerLead  BY <2>2, CapAssumption
  <2> HIDE DEF l
  <2>4. lead' = [lead EXCEPT ![c] = l]  BY <1>3 DEF l
  <2>5. QED  BY <1>2, <2>2, <2>3, <2>4, LeadMoves
<1>4. CASE UNCHANGED lead
  <2>1. TypeOK'  BY <1>2, <1>4 DEF IInv, TypeOK, entryVars
  <2>2. QED  BY <1>2, <1>4, <2>1, EntryFrame, ExportFrame DEF IInv
<1>5. QED  BY <1>3, <1>4 DEF commit_approve

(* A lead that an export has updated cannot be deleted until it commits. *)
LEMMA StepRevoke ==
  ASSUME IInv, NEW c \in Companies, revoke_approval(c)
  PROVE  IInv'
<1>1. /\ email' \in [Companies -> [Addresses -> EmailStates]]
      /\ item' \in [Companies -> {"pending", "approved", "rejected"}]
      /\ looked' \in [Companies -> Addresses \cup {Nobody}]
      /\ UNCHANGED <<now, entryVars, suspended, request, export>>
      /\ lead' = [lead EXCEPT ![c] = NoLead] /\ ~LeadLocked(c)
  BY DEF revoke_approval, IInv, TypeOK
<1>2. NoLead \in LeadRow  BY Types DEF IInv
<1>3. QED  BY <1>1, <1>2, LeadMoves

(* Nor can its basis change. *)
LEMMA StepBasis ==
  ASSUME IInv, NEW c \in Companies, NEW basis \in Bases, set_contact_basis(c, basis)
  PROVE  IInv'
<1> DEFINE l == [lead[c] EXCEPT !.basis = basis]
<1>1. /\ email' \in [Companies -> [Addresses -> EmailStates]]
      /\ item' \in [Companies -> {"pending", "approved", "rejected"}]
      /\ looked' \in [Companies -> Addresses \cup {Nobody}]
      /\ UNCHANGED <<now, entryVars, suspended, request, export>>
      /\ lead' = [lead EXCEPT ![c] = l] /\ ~LeadLocked(c)
  BY DEF set_contact_basis, IInv, TypeOK, reviewVars
<1>2. l \in LeadRow
  <2>1. lead[c] \in LeadRow  BY Types DEF IInv
  <2>2. QED  BY <2>1 DEF LeadRow
<1> HIDE DEF l
<1>3. QED  BY <1>1, <1>2, LeadMoves

(* An export that holds less, or one lead more that nobody holds and that is
   below the cap. *)
LEMMA ExportMoves ==
  ASSUME IInv, NEW x \in Exports, NEW r \in ExportState, export' = [export EXCEPT ![x] = r],
         UNCHANGED <<now, entryVars, email, reviewVars, lead, suspended, request>>,
         \A c \in r.held : c \in export[x].held \/ (~LeadLocked(c) /\ lead[c].exports < MaxPerLead)
  PROVE  IInv'
<1>1. export \in [Exports -> ExportState]  BY DEF IInv, TypeOK
<1>2. export'[x] = r /\ \A y \in Exports \ {x} : export'[y] = export[y]  BY <1>1
<1>3. TypeOK'  BY <1>1 DEF IInv, TypeOK, entryVars, reviewVars
<1>4. \A y \in Exports, c \in Companies :
        c \in export'[y].held => c \in export[y].held \/ (y = x /\ ~LeadLocked(c) /\ lead[c].exports < MaxPerLead)
  BY <1>2
<1>5. HeldBelowCap'  BY <1>4 DEF IInv, HeldBelowCap, LeadLocked
<1>6. QED  BY <1>3, <1>5, EntryFrame DEF IInv

(* An export that begins holds nothing. *)
LEMMA StepBeginExport ==
  ASSUME IInv, NEW x \in Exports, begin_export(x)
  PROVE  IInv'
<1> DEFINE r == [at |-> "open", rows |-> {c \in Companies : Exportable(c)}, held |-> {}]
<1>1. r \in ExportState /\ r.held = {}  BY DEF ExportState
<1>2. export' = [export EXCEPT ![x] = r] /\ UNCHANGED <<now, entryVars, email, reviewVars, lead, suspended, request>>
  BY DEF begin_export
<1> HIDE DEF r
<1>3. QED  BY <1>1, <1>2, ExportMoves

(* One that is lost holds nothing either. *)
LEMMA StepExportLost ==
  ASSUME IInv, NEW x \in Exports, export_lost(x)
  PROVE  IInv'
<1> DEFINE r == [at |-> "idle", rows |-> {}, held |-> {}]
<1>1. r \in ExportState /\ r.held = {}  BY DEF ExportState
<1>2. export' = [export EXCEPT ![x] = r] /\ UNCHANGED <<now, entryVars, email, reviewVars, lead, suspended, request>>
  BY DEF export_lost
<1> HIDE DEF r
<1>3. QED  BY <1>1, <1>2, ExportMoves

(* A row is taken only if it is free and below the cap. *)
LEMMA StepExportRow ==
  ASSUME IInv, NEW x \in Exports, NEW c \in Companies, export_row(x, c)
  PROVE  IInv'
<1> DEFINE h == IF lead[c].address # Nobody /\ lead[c].exports < MaxPerLead
                  THEN export[x].held \cup {c} ELSE export[x].held
           r == [export[x] EXCEPT !.rows = @ \ {c}, !.held = h]
<1>1. export[x] \in ExportState  BY DEF IInv, TypeOK
<1>2. h \in SUBSET Companies /\ export[x].rows \ {c} \in SUBSET Companies  BY <1>1 DEF ExportState
<1>3. \A d \in h : d \in export[x].held \/ (d = c /\ lead[c].exports < MaxPerLead)  OBVIOUS
<1>4. r \in ExportState /\ r.held = h  BY <1>1, <1>2 DEF ExportState
<1>5. export' = [export EXCEPT ![x] = r]  BY DEF export_row
<1>6. ~LeadLocked(c) /\ UNCHANGED <<now, entryVars, email, reviewVars, lead, suspended, request>>  BY DEF export_row
<1> HIDE DEF r, h
<1>7. QED  BY <1>3, <1>4, <1>5, <1>6, ExportMoves

(* What the commit counts was held by this export alone. *)
LEMMA StepExportCommit ==
  ASSUME IInv, NEW x \in Exports, commit_export(x)
  PROVE  IInv'
<1>1. lead \in [Companies -> LeadRow] /\ export \in [Exports -> ExportState]  BY DEF IInv, TypeOK
<1>2. /\ \A c \in Companies : c \in export[x].held => lead'[c] = [lead[c] EXCEPT !.exports = @ + 1]
      /\ \A c \in Companies : c \notin export[x].held => lead'[c] = lead[c]
      /\ DOMAIN lead' = Companies
  BY DEF commit_export
<1>3. lead' \in [Companies -> LeadRow]
  <2>1. \A c \in Companies : lead'[c] \in LeadRow
    <3> SUFFICES ASSUME NEW c \in Companies, c \in export[x].held PROVE [lead[c] EXCEPT !.exports = @ + 1] \in LeadRow
      BY <1>1, <1>2
    <3>1. lead[c] \in LeadRow /\ lead[c].exports < MaxPerLead  BY <1>1 DEF IInv, HeldBelowCap
    <3>2. lead[c].exports + 1 \in 0 .. MaxPerLead  BY <3>1, CapAssumption DEF LeadRow
    <3>3. QED  BY <3>1, <3>2 DEF LeadRow
  <2>2. QED  BY <2>1 DEF commit_export
<1> DEFINE r == [at |-> "idle", rows |-> {}, held |-> {}]
<1>4. r \in ExportState /\ r.held = {}  BY DEF ExportState
<1>5. export' = [export EXCEPT ![x] = r] /\ UNCHANGED <<now, entryVars, email, reviewVars, suspended, request>>
  BY DEF commit_export
<1> HIDE DEF r
<1>6. export'[x] = r /\ \A y \in Exports \ {x} : export'[y] = export[y]  BY <1>1, <1>5
<1>7. TypeOK'
  <2>1. export' \in [Exports -> ExportState]  BY <1>1, <1>4, <1>5
  <2>2. QED  BY <1>3, <1>5, <2>1 DEF IInv, TypeOK, entryVars, reviewVars
<1>8. HeldBelowCap'
  <2>1. \A y \in Exports, c \in Companies : c \in export'[y].held => y # x /\ c \in export[y].held  BY <1>4, <1>6
  <2>2. \A y \in Exports, c \in Companies : c \in export'[y].held => lead'[c] = lead[c]
    BY <1>2, <2>1 DEF IInv, HeldBelowCap
  <2>3. QED  BY <2>1, <2>2 DEF IInv, HeldBelowCap
<1>9. QED  BY <1>5, <1>7, <1>8, EntryFrame DEF IInv

(* Requests and what they do leave entries and exports alone. *)
LEMMA StepRequest ==
  ASSUME IInv, NEW p \in Requests, NEW kind \in Kinds, NEW a \in Addresses, NEW hold \in BOOLEAN,
         create_privacy_request(p, kind, a, hold)
  PROVE  IInv'
<1>1. request' \in [Requests -> RequestRow]
  <2>1. request \in [Requests -> RequestRow]  BY DEF IInv, TypeOK
  <2>2. PICK c \in Companies \cup {Nobody} :
          request' = [request EXCEPT ![p] =
            [status |-> "received", kind |-> kind, company |-> c, hold |-> hold, failed |-> FALSE]]
    BY DEF create_privacy_request, Subject
  <2>3. [status |-> "received", kind |-> kind, company |-> c, hold |-> hold, failed |-> FALSE] \in RequestRow
    BY DEF RequestRow, OpenStatuses
  <2>4. QED  BY <2>1, <2>2, <2>3
<1>2. TypeOK'  BY <1>1 DEF create_privacy_request, IInv, TypeOK, entryVars, reviewVars
<1>3. QED  BY <1>2, EntryFrame, ExportFrame DEF IInv, create_privacy_request

(* So does a change of a request's status. *)
LEMMA StepAdvance ==
  ASSUME IInv, NEW p \in Requests, NEW status \in {"in_progress", "on_hold"} \cup ClosedStatuses,
         advance_privacy_request(p, status)
  PROVE  IInv'
<1>1. request' \in [Requests -> RequestRow]
  <2>1. request \in [Requests -> RequestRow] /\ request[p] \in RequestRow  BY DEF IInv, TypeOK
  <2>2. [request[p] EXCEPT !.status = status] \in RequestRow
    BY <2>1 DEF RequestRow, OpenStatuses, ClosedStatuses
  <2>3. QED  BY <2>1, <2>2 DEF advance_privacy_request
<1>2. TypeOK'  BY <1>1 DEF advance_privacy_request, IInv, TypeOK, entryVars, reviewVars
<1>3. QED  BY <1>2, EntryFrame, ExportFrame DEF IInv, advance_privacy_request

(* So does its execution. *)
LEMMA StepExecute ==
  ASSUME IInv, NEW p \in Requests, NEW held \in SUBSET Addresses, execute_privacy_request(p, held)
  PROVE  IInv'
<1>1. /\ request \in [Requests -> RequestRow] /\ request[p] \in RequestRow
      /\ suspended \in [Companies -> BOOLEAN] /\ email \in [Companies -> [Addresses -> EmailStates]]
  BY DEF IInv, TypeOK
<1>2. request' \in [Requests -> RequestRow]
  <2>1. [request[p] EXCEPT !.failed = TRUE] \in RequestRow /\ [request[p] EXCEPT !.status = "completed"] \in RequestRow
    BY <1>1 DEF RequestRow, OpenStatuses, ClosedStatuses
  <2>2. request' = [request EXCEPT ![p].failed = TRUE] \/ request' = [request EXCEPT ![p].status = "completed"]
    BY DEF execute_privacy_request
  <2>3. QED  BY <1>1, <2>1, <2>2
<1>3. suspended' \in [Companies -> BOOLEAN]  BY <1>1 DEF execute_privacy_request
<1>4. email' \in [Companies -> [Addresses -> EmailStates]]
  <2> DEFINE c == request[p].company
             left(gone) == [a \in Addresses |-> IF a \in gone THEN "none" ELSE email[c][a]]
  <2>1. \/ email' = email
        \/ c \in Companies /\ \E gone \in SUBSET Addresses : email' = [email EXCEPT ![c] = left(gone)]
    <3> DEFINE gone == IF request[p].kind = "delete" THEN Addresses \ held ELSE {}
    <3>1. \/ email' = email
          \/ c # Nobody /\ email' = [email EXCEPT ![c] = [a \in Addresses |-> IF a \in gone THEN "none" ELSE @[a]]]
      BY DEF execute_privacy_request
    <3>2. c # Nobody => c \in Companies  BY <1>1 DEF RequestRow
    <3>3. gone \in SUBSET Addresses  OBVIOUS
    <3> HIDE DEF gone
    <3>4. c \in Companies =>
            [email EXCEPT ![c] = [a \in Addresses |-> IF a \in gone THEN "none" ELSE @[a]]]
              = [email EXCEPT ![c] = left(gone)]
      BY <1>1
    <3>5. QED  BY <3>1, <3>2, <3>3, <3>4
  <2>2. ASSUME NEW gone \in SUBSET Addresses, c \in Companies PROVE left(gone) \in [Addresses -> EmailStates]
    BY <1>1, <2>2 DEF EmailStates
  <2>3. QED  BY <1>1, <2>1, <2>2
<1>5. UNCHANGED <<now, entryVars, reviewVars, lead, export>>  BY DEF execute_privacy_request
<1>6. TypeOK'  BY <1>2, <1>3, <1>4, <1>5 DEF IInv, TypeOK, entryVars, reviewVars
<1>7. QED  BY <1>5, <1>6, EntryFrame, ExportFrame DEF IInv

(* Time changes no export count. *)
LEMMA StepTick ==
  ASSUME IInv, tick
  PROVE  IInv'
<1>1. lead \in [Companies -> LeadRow]  BY DEF IInv, TypeOK
<1>2. PICK lapsed \in SUBSET Companies :
        lead' = [c \in Companies |-> IF c \in lapsed THEN [lead[c] EXCEPT !.kept = FALSE] ELSE lead[c]]
  BY DEF tick
<1>3. \A c \in Companies : [lead[c] EXCEPT !.kept = FALSE] \in LeadRow /\ [lead[c] EXCEPT !.kept = FALSE].exports = lead[c].exports
  BY <1>1 DEF LeadRow
<1>4. lead' \in [Companies -> LeadRow] /\ \A c \in Companies : lead'[c].exports = lead[c].exports
  BY <1>1, <1>2, <1>3
<1>5. now' \in 0 .. MaxTime  BY TimeAssumption DEF tick, IInv, TypeOK
<1>6. UNCHANGED <<entryVars, email, reviewVars, suspended, request, export>>  BY DEF tick
<1>7. TypeOK'  BY <1>4, <1>5, <1>6 DEF IInv, TypeOK, entryVars, reviewVars
<1>8. HeldBelowCap'  BY <1>4, <1>6 DEF IInv, HeldBelowCap
<1>9. QED  BY <1>6, <1>7, <1>8, EntryFrame DEF IInv

(* Nothing changes in a stuttering step. *)
LEMMA StepStutter ==
  ASSUME IInv, UNCHANGED vars
  PROVE  IInv'
<1>1. TypeOK'  BY DEF vars, IInv, TypeOK, entryVars, reviewVars
<1>2. QED  BY <1>1, EntryFrame, ExportFrame DEF vars, IInv, entryVars

(* Every step keeps the invariant. *)
LEMMA Step == IInv /\ [Next]_vars => IInv'
<1> SUFFICES ASSUME IInv, [Next]_vars PROVE IInv'  OBVIOUS
<1>1. CASE UNCHANGED vars  BY <1>1, StepStutter
<1>2. CASE \E n \in Nonces, u \in Users, c \in Companies : issue_review_nonce(n, u, c)  BY <1>2, StepIssue
<1>3. CASE \E q \in Entries, u \in Users, c \in Companies, a \in Addresses, n \in Nonces,
              mx \in {verifyEmailAddress(dns) : dns \in DnsAnswers} : contact_email(q, u, c, a, n, mx)
  <2>1. \A dns \in DnsAnswers : verifyEmailAddress(dns) \in BOOLEAN  BY DEF DnsAnswers, verifyEmailAddress
  <2>2. PICK q \in Entries, u \in Users, c \in Companies, a \in Addresses, n \in Nonces, mx \in BOOLEAN :
          contact_email(q, u, c, a, n, mx)
    BY <1>3, <2>1
  <2>3. QED  BY <2>2, StepContact
<1>4. CASE \E q \in Entries : begin_entry(q) \/ count_entries(q) \/ store_entry(q)
                              \/ verify_contact_email(q) \/ entry_lost(q)
  BY <1>4, StepBegin, StepCount, StepStore, StepVerify, StepLost
<1>5. CASE \E c \in Companies, a \in Addresses : begin_approve(c, a)  BY <1>5, StepBeginApprove
<1>6. CASE \E c \in Companies : commit_approve(c) \/ reject(c) \/ revoke_approval(c)
  BY <1>6, StepApprove, StepReject, StepRevoke
<1>7. CASE \E c \in Companies, basis \in Bases : set_contact_basis(c, basis)  BY <1>7, StepBasis
<1>8. CASE \E x \in Exports : begin_export(x) \/ commit_export(x) \/ export_lost(x)
  BY <1>8, StepBeginExport, StepExportCommit, StepExportLost
<1>9. CASE \E x \in Exports, c \in Companies : export_row(x, c)  BY <1>9, StepExportRow
<1>10. CASE \E p \in Requests, kind \in Kinds, a \in Addresses, hold \in BOOLEAN :
              create_privacy_request(p, kind, a, hold)
  BY <1>10, StepRequest
<1>11. CASE \E p \in Requests, status \in {"in_progress", "on_hold"} \cup ClosedStatuses :
              advance_privacy_request(p, status)
  BY <1>11, StepAdvance
<1>12. CASE \E p \in Requests, held \in SUBSET Addresses : execute_privacy_request(p, held)
  BY <1>12, StepExecute
<1>13. CASE tick  BY <1>13, StepTick
<1>14. QED
  BY <1>1, <1>2, <1>3, <1>4, <1>5, <1>6, <1>7, <1>8, <1>9, <1>10, <1>11, <1>12, <1>13 DEF Next

(* The inductive invariant of the transactions. *)
LEMMA Invariant == Spec => []IInv
BY InitIInv, Step, PTL DEF Spec

-----------------------------------------------------------------------------
(* Theorems. *)

(* Every variable keeps its type in every behaviour of the transactions. *)
THEOREM LeadsTypes == Spec => []TypeOK
<1>1. IInv => TypeOK  BY DEF IInv
<1>2. QED  BY <1>1, Invariant, PTL

(* However many export_leads calls overlap, no lead leaves more often than
   max_per_lead: whoever has updated a lead holds its row alone, and it was
   below the cap when it was updated. *)
THEOREM CapIsKept == Spec => []ExportCapHolds
<1>1. IInv => ExportCapHolds
  <2> SUFFICES ASSUME IInv, NEW c \in Companies
               PROVE lead[c].exports + Cardinality({x \in Exports : c \in export[x].held}) <= MaxPerLead
    BY DEF ExportCapHolds
  <2>1. lead[c].exports \in Nat /\ lead[c].exports <= MaxPerLead
    BY CapAssumption DEF IInv, TypeOK, LeadRow
  <2>2. CASE {x \in Exports : c \in export[x].held} = {}
    <3>1. Cardinality({x \in Exports : c \in export[x].held}) = 0  BY <2>2, FS_EmptySet
    <3>2. QED  BY <2>1, <3>1
  <2>3. CASE {x \in Exports : c \in export[x].held} # {}
    <3>1. PICK x \in Exports : c \in export[x].held  BY <2>3
    <3>2. {y \in Exports : c \in export[y].held} = {x}  BY <3>1 DEF IInv, HeldBelowCap
    <3>3. lead[c].exports < MaxPerLead  BY <3>1 DEF IInv, HeldBelowCap
    <3>4. Cardinality({y \in Exports : c \in export[y].held}) = 1  BY <3>2, FS_Singleton
    <3>5. QED  BY <2>1, <3>3, <3>4, CapAssumption
  <2>4. QED  BY <2>2, <2>3
<1>2. QED  BY <1>1, Invariant, PTL

(* Every stored entry has used up one nonce that was issued to its user, and
   no rolled-back entry has (enter_contact_email). *)
THEOREM NoncesAreSpentOnce == Spec => []EntriesSpendNonces
<1>1. IInv => EntriesSpendNonces  BY DEF IInv, EntryInv
<1>2. QED  BY <1>1, Invariant, PTL

(* No minute has more entries of one reviewer than the limit, however many
   requests run at once: the advisory lock is held from the count to the
   commit (enter_contact_email). *)
THEOREM RateIsKept == Spec => []EntriesAreRated
<1>1. IInv => EntriesAreRated  BY DEF IInv, EntryInv
<1>2. QED  BY <1>1, Invariant, PTL

(* A suspension is for good, no export that begins afterwards lists the
   company, and only one that held its lead already still counts it
   (execute_privacy_request against export_leads). *)
THEOREM SuspensionIsForGood == Spec => SuspendedNeverLeaves
<1> DEFINE Kept(c) == suspended[c] =>
         /\ suspended'[c]
         /\ \A x \in Exports : c \in export'[x].rows => c \in export[x].rows
         /\ lead'[c].exports > lead[c].exports => \E x \in Exports : c \in export[x].held
<1>1. TypeOK /\ [Next]_vars => [\A c \in Companies : Kept(c)]_vars
  <2> SUFFICES ASSUME TypeOK, Next, NEW c \in Companies PROVE Kept(c)  OBVIOUS
  <2>0. /\ suspended \in [Companies -> BOOLEAN] /\ lead \in [Companies -> LeadRow]
        /\ export \in [Exports -> ExportState] /\ lead[c] \in LeadRow /\ lead[c].exports \in Nat
    BY CapAssumption DEF TypeOK, LeadRow
  <2>1. CASE UNCHANGED <<suspended, export>> /\ lead'[c].exports = lead[c].exports
    BY <2>0, <2>1
  <2>2. CASE \E q \in Entries : begin_entry(q) \/ count_entries(q) \/ store_entry(q)
                              \/ verify_contact_email(q) \/ entry_lost(q)
    BY <2>1, <2>2 DEF begin_entry, count_entries, store_entry, verify_contact_email, entry_lost
  <2>3. CASE \E d \in Companies : commit_approve(d) \/ reject(d) \/ revoke_approval(d)
    <3> PICK d \in Companies : commit_approve(d) \/ reject(d) \/ revoke_approval(d)  BY <2>3
    <3>1. CASE UNCHANGED lead  BY <2>1, <3>1 DEF commit_approve, reject, revoke_approval
    <3>2. CASE lead' = [lead EXCEPT ![d] = [NoLead EXCEPT !.address = looked[d]]] \/ lead' = [lead EXCEPT ![d] = NoLead]
      <4>1. NoLead.exports = 0 /\ [NoLead EXCEPT !.address = looked[d]].exports = 0  BY DEF NoLead
      <4>2. lead'[c].exports = lead[c].exports \/ lead'[c].exports = 0  BY <2>0, <3>2, <4>1
      <4>3. UNCHANGED <<suspended, export>>  BY DEF commit_approve, reject, revoke_approval
      <4>4. QED  BY <2>0, <4>2, <4>3
    <3>3. QED  BY <3>1, <3>2 DEF commit_approve, reject, revoke_approval
  <2>4. CASE \E d \in Companies, basis \in Bases : set_contact_basis(d, basis)
    <3> PICK d \in Companies, basis \in Bases : set_contact_basis(d, basis)  BY <2>4
    <3>1. lead'[c].exports = lead[c].exports  BY <2>0 DEF set_contact_basis, LeadRow
    <3>2. QED  BY <2>1, <3>1 DEF set_contact_basis
  <2>5. CASE \E x \in Exports : begin_export(x) \/ export_lost(x)
    <3> PICK x \in Exports : begin_export(x) \/ export_lost(x)  BY <2>5
    <3>1. UNCHANGED <<suspended, lead>>  BY DEF begin_export, export_lost
    <3>2. \A y \in Exports \ {x} : export'[y] = export[y]  BY <2>0 DEF begin_export, export_lost
    <3>3. suspended[c] => c \notin export'[x].rows  BY <2>0 DEF begin_export, export_lost, Exportable
    <3>4. QED  BY <2>0, <3>1, <3>2, <3>3
  <2>6. CASE \E x \in Exports : commit_export(x)
    <3> PICK x \in Exports : commit_export(x)  BY <2>6
    <3>1. UNCHANGED suspended  BY DEF commit_export
    <3>2. c \notin export[x].held => lead'[c] = lead[c]  BY DEF commit_export
    <3>3. \A y \in Exports : export'[y] = export[y] \/ export'[y].rows = {}  BY <2>0 DEF commit_export
    <3>4. QED  BY <2>0, <3>1, <3>2, <3>3
  <2>7. CASE \E x \in Exports, d \in Companies : export_row(x, d)
    <3> PICK x \in Exports, d \in Companies : export_row(x, d)  BY <2>7
    <3>1. UNCHANGED <<suspended, lead>>  BY DEF export_row
    <3>2. export'[x].rows \subseteq export[x].rows  BY <2>0 DEF export_row, ExportState
    <3>3. \A y \in Exports \ {x} : export'[y] = export[y]  BY <2>0 DEF export_row
    <3>4. QED  BY <2>0, <3>1, <3>2, <3>3
  <2>8. CASE \E p \in Requests, held \in SUBSET Addresses : execute_privacy_request(p, held)
    <3>1. UNCHANGED <<lead, export>>  BY <2>8 DEF execute_privacy_request
    <3>2. suspended[c] => suspended'[c]  BY <2>0, <2>8 DEF execute_privacy_request
    <3>3. QED  BY <2>0, <3>1, <3>2
  <2>9. CASE tick
    <3>1. lead'[c].exports = lead[c].exports  BY <2>0, <2>9 DEF tick, LeadRow
    <3>2. QED  BY <2>1, <2>9, <3>1 DEF tick
  <2>10. CASE \E n \in Nonces, u \in Users, d \in Companies : issue_review_nonce(n, u, d)
    BY <2>1, <2>10 DEF issue_review_nonce
  <2>11. CASE \E q \in Entries, u \in Users, d \in Companies, a \in Addresses, n \in Nonces,
              mx \in {verifyEmailAddress(dns) : dns \in DnsAnswers} : contact_email(q, u, d, a, n, mx)
    BY <2>1, <2>11 DEF contact_email
  <2>12. CASE \E d \in Companies, a \in Addresses : begin_approve(d, a)  BY <2>1, <2>12 DEF begin_approve
  <2>13. CASE \/ \E p \in Requests, kind \in Kinds, a \in Addresses, hold \in BOOLEAN :
                   create_privacy_request(p, kind, a, hold)
              \/ \E p \in Requests, status \in {"in_progress", "on_hold"} \cup ClosedStatuses :
                   advance_privacy_request(p, status)
    BY <2>1, <2>13 DEF create_privacy_request, advance_privacy_request
  <2> HIDE DEF Kept
  <2>14. QED
    BY <2>2, <2>3, <2>4, <2>5, <2>6, <2>7, <2>8, <2>9, <2>10, <2>11, <2>12, <2>13 DEF Next
<1>2. QED  BY <1>1, LeadsTypes, PTL DEF Spec, SuspendedNeverLeaves
=============================================================================

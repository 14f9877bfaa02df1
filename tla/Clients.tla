------------------------------- MODULE Clients -------------------------------
(***************************************************************************)
(* The clients of the agencies, their audit log and their pages (db.py,    *)
(* the /v1/clients handlers of api.py).  A request is authenticated        *)
(* already, for an agency (module ApiKeys).                                *)
(*                                                                         *)
(* A new client has its id before its transaction waits for the write      *)
(* lock, so a younger id may be committed first, and a caller may read the *)
(* list page by page while clients come and go.                            *)
(***************************************************************************)
EXTENDS Naturals, Sequences, FiniteSets, FiniteSetsExt, Tenants

CONSTANTS
  Ref,           \* values of external_ref
  PageSize,      \* limit of a page
  MaxClients     \* bound: clients ever created

ASSUME ClientsAssumption ==
  /\ PageSize \in Nat \ {0} /\ MaxClients \in Nat
  /\ None \notin Agency \cup Ref \cup {"create", "update", "delete"}
  /\ None \notin [agency : Agency, ref : Ref \cup {None}, status : {"active", "deleted"}]
  /\ None \notin [action : {"client.create", "client.update", "client.delete"},
                  subject : 1 .. MaxClients, by : Agency]

VARIABLES
  clients,     \* the table, by id, None: no such client
  audit,       \* the entry the last step added to audit_log, or None
  request,     \* the requests in progress
  walk         \* a caller that reads its list page by page

clientVars == <<clients, audit, request, walk>>

\* An id sorts by the millisecond it was made in and is random below that.
Id == 1 .. MaxClients

Quiet == [agency |-> None, op |-> None, id |-> None, ref |-> None]
NoWalk == [agency |-> None, cursor |-> 0, seen |-> <<>>, first |-> {}, done |-> FALSE]
Entry(action, subject, by) == [action |-> action, subject |-> subject, by |-> by]

ClientsInit ==
  /\ clients = [i \in Id |-> None]
  /\ audit = None
  /\ request = [r \in Request |-> Quiet]
  /\ walk = NoWalk

\* _audit: in the transaction of the change it is about.
Audit(action, subject, by) == audit' = Entry(action, subject, by)
NoAudit == audit' = None

Active(a) == {i \in Id : clients[i] # None /\ clients[i].agency = a /\ clients[i].status = "active"}

\* own_client_id has let the id through: one that is no client id is answered 404
\* before anything is read, and changes nothing.
Receive(r, a, op, id, ref) ==
  /\ request[r] = Quiet
  /\ request' = [request EXCEPT ![r] = [agency |-> a, op |-> op, id |-> id, ref |-> ref]]

Leave(r) == request' = [request EXCEPT ![r] = Quiet]

\* create_client up to its transaction: the id is a new one, any that is unused.
NewClient(r, a, i, ref) ==
  /\ clients[i] = None /\ \A q \in Request : request[q].op = "create" => request[q].id # i
  /\ Receive(r, a, "create", i, ref)
  /\ NoAudit /\ UNCHANGED <<clients, walk>>

\* A request for a client by its id, which may be another agency's or nobody's.
Ask(r, a, op, i) ==
  /\ Receive(r, a, op, i, None)
  /\ NoAudit /\ UNCHANGED <<clients, walk>>

\* The unique index on external_ref, of the active clients of an agency.
Taken(a, ref) == ref # None /\ \E i \in Active(a) : clients[i].ref = ref

\* The insert, refused by the index or not (409).
CreateClient(r) ==
  LET a == request[r].agency  i == request[r].id
  IN  /\ request[r].op = "create"
      /\ IF Taken(a, request[r].ref) THEN NoAudit /\ UNCHANGED clients
         ELSE /\ clients' = [clients EXCEPT ![i] =
                               [agency |-> a, ref |-> request[r].ref, status |-> "active"]]
              /\ Audit("client.create", i, a)
      /\ Leave(r)
      /\ UNCHANGED walk

\* The client is looked up and changed in one transaction, or is not found (404);
\* its name and its labels are not told apart here.
UpdateClient(r) ==
  /\ request[r].op = "update"
  /\ IF request[r].id \in Active(request[r].agency)
     THEN Audit("client.update", request[r].id, request[r].agency) ELSE NoAudit
  /\ Leave(r)
  /\ UNCHANGED <<clients, walk>>

\* MUTANT of Deletable: a client that is deleted already is deleted again.
DeletableAgain(a, i) == clients[i] # None /\ clients[i].agency = a

\* WHERE agency_id, client_id and status = 'active'.
Deletable(a, i) == i \in Active(a)

DeleteClient(r) ==
  LET a == request[r].agency  i == request[r].id
  IN  /\ request[r].op = "delete"
      /\ IF Deletable(a, i)
         THEN clients' = [clients EXCEPT ![i].status = "deleted"] /\ Audit("client.delete", i, a)
         ELSE NoAudit /\ UNCHANGED clients
      /\ Leave(r)
      /\ UNCHANGED walk

\* The transaction does not get the write lock in time, or the service stops.
Breaks(r) ==
  /\ request[r] # Quiet
  /\ Leave(r)
  /\ NoAudit /\ UNCHANGED <<clients, walk>>

(* Pages *)

\* ORDER BY client_id LIMIT: the least n of them.
Least(ids, n) == {i \in ids : Cardinality({j \in ids : j < i}) < n}

\* A caller begins to read its list: what is there now should be in it.
BeginWalk(a) ==
  /\ walk = NoWalk
  /\ walk' = [NoWalk EXCEPT !.agency = a, !.first = Active(a)]
  /\ NoAudit /\ UNCHANGED <<clients, request>>

\* MUTANT of NextCursor: the row that says there is more.
NextCursorOfRows(page, rows) == Max(rows)

\* next_cursor: the last client of the page, not the extra row after it.
NextCursor(page, rows) == Max(page)

\* The next page, with the cursor of the one before.  One more row than the page
\* has says whether there is another.
ListClients ==
  LET rows == Least({i \in Active(walk.agency) : i > walk.cursor}, PageSize + 1)
      page == Least(rows, PageSize)
      more == rows # page
  IN  /\ walk # NoWalk /\ ~walk.done
      /\ walk' = [walk EXCEPT !.seen = Append(@, page), !.done = ~more,
                              !.cursor = IF more THEN NextCursor(page, rows) ELSE @]
      /\ NoAudit /\ UNCHANGED <<clients, request>>

\* The caller has its list, or gives up.
EndWalk ==
  /\ walk # NoWalk
  /\ walk' = NoWalk
  /\ NoAudit /\ UNCHANGED <<clients, request>>

ClientsNext ==
  \/ ListClients \/ EndWalk \/ \E a \in Agency : BeginWalk(a)
  \/ \E r \in Request :
       \/ \E a \in Agency, i \in Id :
            \/ \E ref \in Ref \cup {None} : NewClient(r, a, i, ref)
            \/ \E op \in {"update", "delete"} : Ask(r, a, op, i)
       \/ CreateClient(r) \/ UpdateClient(r) \/ DeleteClient(r) \/ Breaks(r)

ClientsSpec == ClientsInit /\ [][ClientsNext]_clientVars

(* Properties *)

\* The audit log tells exactly what happened to the clients: a client appears or
\* is deleted in a step that adds the entry that says so, of its own agency, and
\* every entry that says so is such a step.
AuditTellsAll ==
  [][\A i \in Id :
       LET entry(action) == \E a \in Agency : audit' = Entry(action, i, a)
       IN  /\ entry("client.create") <=> clients[i] = None /\ clients'[i] # None
           /\ entry("client.delete") <=> clients[i] # clients'[i] /\ clients[i] # None
           /\ clients'[i] # clients[i] => audit'.by = clients'[i].agency]_clientVars

\* Pages follow one another without gaps or repeats while clients come and go: a
\* complete walk has every client of the agency that was there from its first
\* request to its end, each once, in the order of their ids, and none of another
\* agency.
PagesComplete ==
  LET pages == DOMAIN walk.seen
      all == UNION {walk.seen[p] : p \in pages}
  IN  /\ \A p, q \in pages : p < q => \A i \in walk.seen[p], j \in walk.seen[q] : i < j
      /\ \A i \in all : clients[i].agency = walk.agency
      /\ walk.done => walk.first \cap Active(walk.agency) \subseteq all

=============================================================================

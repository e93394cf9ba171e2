----------------------------- MODULE RouteStore -----------------------------
(***************************************************************************)
(* The route tables and the HTTP handlers that edit them                   *)
(* (internal/storage/templates.go, internal/web/route.go).                 *)
(*                                                                         *)
(* The database runs one transaction at a time (SetMaxOpenConns(1)), so a  *)
(* transaction is one step.  A handler is several: it first reads the      *)
(* active template and only then runs the edit it was asked for, and other *)
(* handlers commit in between.  Within a transaction every UPDATE is       *)
(* checked against UNIQUE (template_id, seq) as soon as it has touched a   *)
(* row; a collision rolls the whole transaction back.                      *)
(***************************************************************************)
EXTENDS Integers, FiniteSets, Sequences

CONSTANTS
  Places,       \* what a waypoint can be set to
  Backups,      \* the routes a CSV backup can hold
  TemplateIds,  \* identities a created template can get
  NoTemplate,   \* "no template read yet"
  Handlers,     \* requests that can be in progress at once
  MaxEdits      \* bound on the identities given out and on the version

ASSUME RouteStoreAssumptions ==
  /\ Backups \subseteq Seq(Places)
  /\ NoTemplate \notin TemplateIds
  /\ MaxEdits \in Nat

VARIABLES
  templates,  \* route_templates: id -> [active, version]
  rows,       \* waypoints: id -> [template, seq, place]
  nextId,     \* identities below this one have been given out
  handler     \* per request: where it is, what it was asked, what it has read

vars == <<templates, rows, nextId, handler>>

Request ==
  [kind : {"add"}, place : Places]
    \cup [kind : {"update"}, wp : Nat, place : Places]
    \cup [kind : {"delete"}, wp : Nat]
    \cup [kind : {"move"}, wp : Nat, delta : {-1, 1}]

Idle == [pc |-> "idle"]
At(pc, req, tmpl) == [pc |-> pc, req |-> req, tmpl |-> tmpl]

TypeOK ==
  /\ DOMAIN templates \subseteq TemplateIds
  /\ \A t \in DOMAIN templates :
       templates[t] \in [active : BOOLEAN, version : Nat \ {0}]
  /\ DOMAIN rows \subseteq 0 .. nextId - 1
  /\ \A w \in DOMAIN rows :
       rows[w] \in [template : DOMAIN templates, seq : Nat, place : Places]
  /\ nextId \in Nat
  /\ \A h \in Handlers :
       \/ handler[h] = Idle
       \/ handler[h] \in [pc : {"ensure", "create", "reread", "read", "apply"},
                          req : Request, tmpl : DOMAIN templates \cup {NoTemplate}]

Init ==
  /\ templates = <<>>
  /\ rows = <<>>
  /\ nextId = 0
  /\ handler = [h \in Handlers |-> Idle]

-----------------------------------------------------------------------------
(* Tables *)

Insert(table, key, row) ==
  [k \in DOMAIN table \cup {key} |-> IF k = key THEN row ELSE table[k]]
InsertRows(table, new) ==
  [k \in DOMAIN table \cup DOMAIN new |-> IF k \in DOMAIN new THEN new[k] ELSE table[k]]
DeleteRows(table, keys) == [k \in DOMAIN table \ keys |-> table[k]]
SetSeq(table, w, seq) == [table EXCEPT ![w].seq = seq]

Active == {t \in DOMAIN templates : templates[t].active}

(* Fault: the index is missing. *)
NoActiveIndex == TRUE

(* The index route_templates_single_active of migration 0002. *)
ActiveIndexAdmits == Active = {}

(* UNIQUE (template_id, seq). *)
UniqueSeqs(table) ==
  \A a, b \in DOMAIN table :
    a # b => ~ (table[a].template = table[b].template /\ table[a].seq = table[b].seq)

RowsOf(t) == {w \in DOMAIN rows : rows[w].template = t}

Bump(t) == templates' = [templates EXCEPT ![t].version = @ + 1]

(* SELECT MAX(seq), where no row at all means the route starts at 0. *)
NextSeq(t) ==
  IF RowsOf(t) = {} THEN 0
  ELSE 1 + CHOOSE s \in {rows[w].seq : w \in RowsOf(t)} :
             \A w \in RowsOf(t) : rows[w].seq <= s

(***************************************************************************)
(* UPDATE waypoints SET seq = seq - 1 WHERE seq > gap.  SQLite walks the   *)
(* (template_id, seq) index, so the rows are visited in ascending order:   *)
(* when the row v has just been updated, so have those below it.           *)
(***************************************************************************)
Later(t, gap) == {w \in RowsOf(t) : rows[w].seq > gap}

VisitedUpTo(later, v) == {w \in later : rows[w].seq <= rows[v].seq}

(* Fault: the gap is left open. *)
NotShifted(table, visited) == table

Shifted(table, visited) ==
  [w \in DOMAIN table |->
     IF w \in visited THEN [table[w] EXCEPT !.seq = @ - 1] ELSE table[w]]

(* Faults: the moved row is never taken out of its parking place, and it *)
(* is not parked at all.                                                  *)
LeftParked(w, other, seq, delta) ==
  LET parked == SetSeq(rows, w, -1) IN <<parked, SetSeq(parked, other, seq)>>

NotParked(w, other, seq, delta) ==
  LET vacated == SetSeq(rows, other, seq) IN <<vacated, SetSeq(vacated, w, seq + delta)>>

(* The three UPDATEs of a move, in order. *)
SwapStates(w, other, seq, delta) ==
  LET parked == SetSeq(rows, w, -1)
      vacated == SetSeq(parked, other, seq)
      placed == SetSeq(vacated, w, seq + delta)
  IN  <<parked, vacated, placed>>

-----------------------------------------------------------------------------
(* Transactions.  Each ends the handler, whether it commits or not.        *)

Finish(h) == handler' = [handler EXCEPT ![h] = Idle]

Unchanged == UNCHANGED <<templates, rows, nextId>>

(* CreateTemplate; the loser of a race is refused by the index and goes on *)
(* to read the route the winner made.                                      *)
CreateTemplate(h) ==
  /\ handler[h].pc = "create"
  /\ \/ /\ ActiveIndexAdmits
        /\ \E t \in TemplateIds \ DOMAIN templates :
             /\ templates' = Insert(templates, t, [active |-> TRUE, version |-> 1])
             /\ handler' = [handler EXCEPT ![h] = At("apply", @.req, t)]
     \/ /\ ~ ActiveIndexAdmits
        /\ handler' = [handler EXCEPT ![h].pc = "reread"]
        /\ UNCHANGED templates
  /\ UNCHANGED <<rows, nextId>>

AddWaypoint(t, req) ==
  /\ rows' = Insert(rows, nextId, [template |-> t, seq |-> NextSeq(t), place |-> req.place])
  /\ nextId' = nextId + 1
  /\ Bump(t)

(* Fault: an update does not raise the version. *)
UpdateUnnoticed(t, req) ==
  IF req.wp \in DOMAIN rows
  THEN /\ rows' = [rows EXCEPT ![req.wp].place = req.place]
       /\ UNCHANGED <<templates, nextId>>
  ELSE Unchanged

UpdateWaypoint(t, req) ==
  IF req.wp \in DOMAIN rows
  THEN /\ rows' = [rows EXCEPT ![req.wp].place = req.place]
       /\ Bump(t)
       /\ UNCHANGED nextId
  ELSE Unchanged

DeleteWaypoint(t, req) ==
  IF req.wp \in RowsOf(t)
  THEN LET left == DeleteRows(rows, {req.wp})
           later == Later(t, rows[req.wp].seq)
       IN  IF \A v \in later : UniqueSeqs(Shifted(left, VisitedUpTo(later, v)))
           THEN /\ rows' = Shifted(left, later)
                /\ Bump(t)
                /\ UNCHANGED nextId
           ELSE Unchanged
  ELSE Unchanged

MoveWaypoint(t, req) ==
  LET neighbours == {w \in RowsOf(t) : rows[w].seq = rows[req.wp].seq + req.delta}
  IN  IF req.wp \in RowsOf(t) /\ neighbours # {}
      THEN LET other == CHOOSE w \in neighbours : TRUE
               states == SwapStates(req.wp, other, rows[req.wp].seq, req.delta)
           IN  IF \A i \in DOMAIN states : UniqueSeqs(states[i])
               THEN /\ rows' = states[Len(states)]
                    /\ Bump(t)
                    /\ UNCHANGED nextId
               ELSE Unchanged
      ELSE Unchanged

Apply(h) ==
  /\ handler[h].pc = "apply"
  /\ LET t == handler[h].tmpl
         req == handler[h].req
     IN  CASE req.kind = "add" -> AddWaypoint(t, req)
           [] req.kind = "update" -> UpdateWaypoint(t, req)
           [] req.kind = "delete" -> DeleteWaypoint(t, req)
           [] req.kind = "move" -> MoveWaypoint(t, req)
  /\ Finish(h)

(* The rows of a backup, under fresh identities and numbered from 0. *)
Restored(places, t) ==
  [w \in nextId .. nextId + Len(places) - 1 |->
     [template |-> t, seq |-> w - nextId, place |-> places[w - nextId + 1]]]

(* importRoute: one transaction, after the file has been read. *)
ReplaceRoute(places) ==
  /\ \/ /\ Active = {}
        /\ \E t \in TemplateIds \ DOMAIN templates :
             /\ templates' = Insert(templates, t, [active |-> TRUE, version |-> 2])
             /\ rows' = InsertRows(rows, Restored(places, t))
     \/ \E t \in Active :
          /\ Bump(t)
          /\ rows' = InsertRows(DeleteRows(rows, RowsOf(t)), Restored(places, t))
  /\ nextId' = nextId + Len(places)
  /\ UNCHANGED handler

-----------------------------------------------------------------------------
(* The rest of a handler *)

(* A request names any waypoint a page has ever shown, gone or not. *)
Requests ==
  [kind : {"add"}, place : Places]
    \cup [kind : {"update"}, wp : 0 .. nextId - 1, place : Places]
    \cup [kind : {"delete"}, wp : 0 .. nextId - 1]
    \cup [kind : {"move"}, wp : 0 .. nextId - 1, delta : {-1, 1}]

Receive(h) ==
  /\ handler[h] = Idle
  /\ \E req \in Requests :
       handler' = [handler EXCEPT
         ![h] = At(IF req.kind = "add" THEN "ensure" ELSE "read", req, NoTemplate)]
  /\ Unchanged

(* ActiveTemplate; a missing route sends an edit back to the page and an   *)
(* addition on to CreateTemplate.                                          *)
ReadActive(h) ==
  /\ handler[h].pc \in {"ensure", "read", "reread"}
  /\ \/ \E t \in Active : handler' = [handler EXCEPT ![h] = At("apply", @.req, t)]
     \/ /\ Active = {} /\ handler[h].pc = "ensure"
        /\ handler' = [handler EXCEPT ![h].pc = "create"]
     \/ /\ Active = {} /\ handler[h].pc # "ensure"
        /\ Finish(h)
  /\ Unchanged

(***************************************************************************)
(* The browser goes away and the request's context is cancelled, or the    *)
(* form turns out invalid once the route has been created.                 *)
(***************************************************************************)
Abandon(h) ==
  /\ handler[h] # Idle
  /\ Finish(h)
  /\ Unchanged

Editable == nextId <= MaxEdits /\ \A t \in Active : templates[t].version <= MaxEdits

Next ==
  \/ \E h \in Handlers :
       \/ Receive(h)
       \/ ReadActive(h)
       \/ CreateTemplate(h)
       \/ Abandon(h)
       \/ Editable /\ Apply(h)
  \/ Editable /\ \E places \in Backups : ReplaceRoute(places)

Spec == Init /\ [][Next]_vars

-----------------------------------------------------------------------------
(* Properties *)

(***************************************************************************)
(* However many requests race to create the route, one template is active  *)
(* and every waypoint stored belongs to it; a second one would make the    *)
(* waypoints added to it invisible.                                        *)
(***************************************************************************)
OneVisibleRoute ==
  /\ \A s, t \in Active : s = t
  /\ \A w \in DOMAIN rows : templates[rows[w].template].active

(***************************************************************************)
(* The sequence numbers of a route are 0, 1, ... without a gap and without *)
(* a duplicate, whatever edits have been committed in whatever order.      *)
(***************************************************************************)
SeqsContiguous ==
  /\ UniqueSeqs(rows)
  /\ \A w \in DOMAIN rows : rows[w].seq >= 0
  /\ \A w \in DOMAIN rows : rows[w].seq > 0 =>
       \E v \in DOMAIN rows : /\ rows[v].template = rows[w].template
                              /\ rows[v].seq = rows[w].seq - 1

(***************************************************************************)
(* An edit of a waypoint that is still there is never refused by the       *)
(* uniqueness check on seq: deleting and moving number the rows in an      *)
(* order that never collides.  A move past either end is the one edit that *)
(* changes nothing.                                                        *)
(***************************************************************************)
Succeeds(h) ==
  LET req == handler[h].req
      t == handler[h].tmpl
  IN  /\ handler[h].pc = "apply"
      /\ \/ req.kind = "add"
         \/ req.kind \in {"update", "delete"} /\ req.wp \in RowsOf(t)
         \/ /\ req.kind = "move"
            /\ req.wp \in RowsOf(t)
            /\ \E w \in RowsOf(t) : rows[w].seq = rows[req.wp].seq + req.delta

EditsTakeEffect ==
  [][\A h \in Handlers :
       (handler[h] # Idle /\ Succeeds(h) /\ Apply(h)) =>
         templates'[handler[h].tmpl].version = templates[handler[h].tmpl].version + 1]_vars

(* The rows of the active template, read back in order of seq. *)
ActiveVersion == IF Active = {} THEN 0 ELSE templates[CHOOSE t \in Active : TRUE].version

Listed ==
  LET shown == {w \in DOMAIN rows : rows[w].template \in Active}
      at(i) == CHOOSE w \in shown : rows[w].seq = i - 1
  IN  [i \in 1 .. Cardinality(shown) |-> [id |-> at(i), place |-> rows[at(i)].place]]

(***************************************************************************)
(* The tables and the racing handlers implement the route the rest of the  *)
(* tracker relies on: every committed edit is one edit of that list and    *)
(* raises the version, and nothing else changes it.                        *)
(***************************************************************************)
Abstract == INSTANCE Route WITH version <- ActiveVersion, wps <- Listed

ImplementsRoute == Abstract!RouteSpec
=============================================================================

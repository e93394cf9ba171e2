-------------------------- MODULE RouteStoreProofs --------------------------
(***************************************************************************)
(* For any number of handlers and edits: one template is ever active, all  *)
(* waypoints belong to it, and their sequence numbers are 0, 1, ... without*)
(* a gap or a duplicate.  So the tables implement the route the rest of    *)
(* the tracker is built on (Route): each committed transaction is one edit *)
(* of the list read back in the order of seq, and every other step leaves  *)
(* that list alone.                                                        *)
(***************************************************************************)
EXTENDS RouteStore, FiniteSetTheorems, WellFoundedInduction, TLAPS

-----------------------------------------------------------------------------
(* Natural numbers *)

(* A set of natural numbers has a least member. *)
LEMMA LeastMember ==
  ASSUME NEW S \in SUBSET Nat, S # {}
  PROVE  \E m \in S : \A k \in S : m <= k
<1> DEFINE R == OpToRel(<, Nat)
<1>1. IsWellFoundedOn(R, Nat)
  BY NatLessThanWellFounded
<1>2. \A x, y \in Nat : x < y => <<x, y>> \in R
  BY DEF OpToRel
<1> HIDE DEF R
<1>3. PICK m \in S : \A k \in S : ~ (<<k, m>> \in R)
  BY <1>1, WFMin
<1>4. ASSUME NEW k \in S PROVE ~ (k < m)
  <2>1. ~ (<<k, m>> \in R)
    BY <1>3
  <2>2. k \in Nat /\ m \in Nat
    OBVIOUS
  <2>3. k < m => <<k, m>> \in R
    BY <1>2, <2>2, Zenon
  <2> QED
    BY <2>1, <2>3
<1> QED
  BY <1>4

(* A bounded one has a greatest. *)
LEMMA GreatestMember ==
  ASSUME NEW S \in SUBSET Nat, S # {}, NEW n \in Nat, \A k \in S : k <= n
  PROVE  \E m \in S : \A k \in S : k <= m
<1> DEFINE T == {n - k : k \in S}
<1>1. \A k \in S : k \in Nat /\ n - k \in Nat
  OBVIOUS
<1>2. T \in SUBSET Nat
  BY <1>1
<1>3. PICK some \in S : TRUE
  OBVIOUS
<1>4. n - some \in T
  BY <1>3
<1>5. PICK least \in T : \A j \in T : least <= j
  <2> HIDE DEF T
  <2> QED
    BY <1>2, <1>4, LeastMember
<1>6. PICK m \in S : least = n - m
  BY <1>5
<1>7. ASSUME NEW k \in S PROVE k <= m
  <2>1. n - k \in T
    BY <1>7
  <2>2. n - m <= n - k
    BY <1>5, <1>6, <2>1
  <2> HIDE DEF T
  <2> QED
    BY <1>1, <1>6, <1>7, <2>2
<1> QED
  BY <1>7

-----------------------------------------------------------------------------
(* Numberings: a number for each row, 0, 1, ... *)

Contiguous(s) ==
  /\ \A a \in DOMAIN s : s[a] \in Nat
  /\ \A a, b \in DOMAIN s : s[a] = s[b] => a = b
  /\ \A a \in DOMAIN s : s[a] > 0 => \E b \in DOMAIN s : s[b] = s[a] - 1

Seqs(table) == [w \in DOMAIN table |-> table[w].seq]

(* Adding at the end. *)
LEMMA AppendContiguous ==
  ASSUME NEW s, Contiguous(s), NEW n, n \notin DOMAIN s, NEW k \in Nat,
         \A a \in DOMAIN s : s[a] < k, k = 0 \/ \E a \in DOMAIN s : s[a] = k - 1,
         NEW s2, DOMAIN s2 = DOMAIN s \cup {n}, s2[n] = k, \A a \in DOMAIN s : s2[a] = s[a]
  PROVE  Contiguous(s2)
BY DEF Contiguous

(* Closing the gap left by d. *)
LEMMA ClosedContiguous ==
  ASSUME NEW s, Contiguous(s), NEW d \in DOMAIN s,
         NEW s2, DOMAIN s2 = DOMAIN s \ {d},
         \A a \in DOMAIN s2 : s2[a] = IF s[a] > s[d] THEN s[a] - 1 ELSE s[a]
  PROVE  Contiguous(s2)
<1> USE DEF Contiguous
<1>1. \A a \in DOMAIN s2 : s2[a] \in Nat /\ s[a] # s[d]
  OBVIOUS
<1>2. \A a, b \in DOMAIN s2 : s2[a] = s2[b] => a = b
  BY <1>1, SMTT(30)
<1>3. ASSUME NEW a \in DOMAIN s2, s2[a] > 0
      PROVE  \E b \in DOMAIN s2 : s2[b] = s2[a] - 1
  <2>1. CASE s[a] < s[d]
    <3>1. PICK b \in DOMAIN s : s[b] = s[a] - 1
      BY <1>3, <2>1
    <3> QED
      BY <1>1, <2>1, <3>1
  <2>2. CASE s[a] = s[d] + 1
    <3>1. s[d] > 0
      BY <1>3, <2>2
    <3>2. PICK b \in DOMAIN s : s[b] = s[d] - 1
      BY <3>1
    <3> QED
      BY <2>2, <3>2
  <2>3. CASE s[a] > s[d] + 1
    <3>1. PICK b \in DOMAIN s : s[b] = s[a] - 1
      BY <2>3
    <3> QED
      BY <2>3, <3>1
  <2> QED
    BY <1>1, <2>1, <2>2, <2>3
<1> QED
  BY <1>1, <1>2, <1>3

(* Exchanging the numbers of a and b. *)
LEMMA SwappedContiguous ==
  ASSUME NEW s, Contiguous(s), NEW a \in DOMAIN s, NEW b \in DOMAIN s, a # b,
         NEW s2, DOMAIN s2 = DOMAIN s, s2[a] = s[b], s2[b] = s[a],
         \A c \in DOMAIN s \ {a, b} : s2[c] = s[c]
  PROVE  Contiguous(s2)
<1> DEFINE other == [c \in DOMAIN s |-> IF c = a THEN b ELSE IF c = b THEN a ELSE c]
<1>1. \A c \in DOMAIN s : other[c] \in DOMAIN s /\ other[other[c]] = c /\ s2[c] = s[other[c]]
  OBVIOUS
<1>2. \A c \in DOMAIN s2 : s2[c] \in Nat
  BY <1>1 DEF Contiguous
<1>3. \A c, d \in DOMAIN s2 : s2[c] = s2[d] => c = d
  BY <1>1 DEF Contiguous
<1> HIDE DEF other
<1>4. ASSUME NEW c \in DOMAIN s2, s2[c] > 0
      PROVE  \E d \in DOMAIN s2 : s2[d] = s2[c] - 1
  <2>1. PICK d \in DOMAIN s : s[d] = s[other[c]] - 1
    BY <1>1, <1>4 DEF Contiguous
  <2>2. s2[other[d]] = s[d]
    BY <1>1
  <2> QED
    BY <1>1, <2>1, <2>2
<1> QED
  BY <1>2, <1>3, <1>4 DEF Contiguous

-----------------------------------------------------------------------------
(* The invariant: what the tables hold, and what the handlers have read. *)

OneTemplate ==
  /\ \A s, t \in DOMAIN templates : s = t
  /\ \A t \in DOMAIN templates : templates[t].active

Numbered ==
  /\ \A w \in DOMAIN rows : rows[w].seq < nextId
  /\ Contiguous(Seqs(rows))


Row == [template : DOMAIN templates, seq : Nat, place : Places]

TablesTyped ==
  /\ DOMAIN templates \subseteq TemplateIds
  /\ \A t \in DOMAIN templates :
       templates[t] \in [active : BOOLEAN, version : Nat \ {0}]
  /\ DOMAIN rows \subseteq 0 .. nextId - 1
  /\ \A w \in DOMAIN rows : rows[w] \in Row
  /\ nextId \in Nat

TablesInv == TablesTyped /\ OneTemplate /\ Numbered

Slot(x, ids) ==
  \/ x = Idle
  \/ /\ x \in [pc : {"ensure", "create", "reread", "read", "apply"},
                req : Request, tmpl : ids \cup {NoTemplate}]
     /\ x.pc = "apply" => x.tmpl \in ids

HandlersInv ==
  /\ DOMAIN handler = Handlers
  /\ \A h \in Handlers : Slot(handler[h], DOMAIN templates)

StoreInv == TablesInv /\ HandlersInv

LEMMA StoreInvTyped == StoreInv => TypeOK
BY DEF StoreInv, TablesInv, TablesTyped, HandlersInv, Slot, Row, TypeOK

(* The rows of the one template are all there are. *)
LEMMA AllRows ==
  ASSUME TablesInv, NEW t \in DOMAIN templates
  PROVE  RowsOf(t) = DOMAIN rows /\ \A w \in DOMAIN rows : rows[w].template = t
<1>1. \A w \in DOMAIN rows : rows[w].template \in DOMAIN templates
  BY DEF TablesInv, TablesTyped, Row
<1> QED
  BY <1>1 DEF RowsOf, TablesInv, OneTemplate

LEMMA NextSeqFollows ==
  ASSUME TablesInv, NEW t \in DOMAIN templates
  PROVE  /\ NextSeq(t) \in Nat /\ NextSeq(t) <= nextId
         /\ \A w \in DOMAIN rows : rows[w].seq < NextSeq(t)
         /\ NextSeq(t) = 0 \/ \E w \in DOMAIN rows : rows[w].seq = NextSeq(t) - 1
<1>1. RowsOf(t) = DOMAIN rows
  BY AllRows
<1>2. nextId \in Nat /\ \A w \in DOMAIN rows : rows[w].seq \in Nat /\ rows[w].seq < nextId
  BY DEF TablesInv, TablesTyped, Row, Numbered
<1>3. CASE DOMAIN rows = {}
  BY <1>1, <1>2, <1>3 DEF NextSeq
<1>4. CASE DOMAIN rows # {}
  <2> DEFINE used == {rows[w].seq : w \in RowsOf(t)}
             greatest == CHOOSE s \in used : \A w \in RowsOf(t) : rows[w].seq <= s
  <2>1. used \in SUBSET Nat /\ used # {} /\ \A k \in used : k <= nextId
    BY <1>1, <1>2, <1>4
  <2>2. \E s \in used : \A k \in used : k <= s
    BY <1>2, <2>1, GreatestMember
  <2>3. \E s \in used : \A w \in RowsOf(t) : rows[w].seq <= s
    BY <2>2
  <2>4. greatest \in used /\ \A w \in RowsOf(t) : rows[w].seq <= greatest
    BY <2>3
  <2>5. NextSeq(t) = 1 + greatest
    BY <1>1, <1>4 DEF NextSeq
  <2> HIDE DEF greatest
  <2>6. PICK w \in DOMAIN rows : greatest = rows[w].seq
    BY <1>1, <2>4
  <2> QED
    BY <1>1, <1>2, <2>4, <2>5, <2>6
<1> QED
  BY <1>3, <1>4

(* What the invariant says of the tables is what the runs check. *)
LEMMA StoreInvImplies == StoreInv => OneVisibleRoute /\ SeqsContiguous
<1> SUFFICES ASSUME StoreInv PROVE OneVisibleRoute /\ SeqsContiguous
  OBVIOUS
<1>1. \A w \in DOMAIN rows : rows[w].template \in DOMAIN templates /\ rows[w].seq \in Nat
  BY DEF StoreInv, TablesInv, TablesTyped, Row
<1>2. OneVisibleRoute
  BY <1>1 DEF StoreInv, TablesInv, OneVisibleRoute, OneTemplate, Active
<1>3. \A a, b \in DOMAIN rows : rows[a].template = rows[b].template
  BY <1>1 DEF StoreInv, TablesInv, OneTemplate
<1>4. \A w \in DOMAIN rows : Seqs(rows)[w] = rows[w].seq
  BY DEF Seqs
<1>5. DOMAIN Seqs(rows) = DOMAIN rows
  BY DEF Seqs
<1>6. UniqueSeqs(rows)
  BY <1>4, <1>5 DEF UniqueSeqs, StoreInv, TablesInv, Numbered, Contiguous
<1>7. SeqsContiguous
  BY <1>1, <1>3, <1>4, <1>5, <1>6 DEF SeqsContiguous, StoreInv, TablesInv, Numbered, Contiguous
<1> QED
  BY <1>2, <1>7

LEMMA StoreStart == Init => StoreInv
<1> SUFFICES ASSUME Init PROVE StoreInv
  OBVIOUS
<1>1. DOMAIN rows = {} /\ DOMAIN templates = {}
  BY DEF Init
<1>2. DOMAIN handler = Handlers /\ \A h \in Handlers : handler[h] = Idle
  BY DEF Init
<1>3. TablesTyped
  BY <1>1 DEF Init, TablesTyped
<1> QED
  BY <1>1, <1>2, <1>3
  DEF StoreInv, TablesInv, HandlersInv, Slot, OneTemplate, Numbered, Contiguous, Seqs

(* A slot stays right when templates are added. *)
LEMMA SlotGrows ==
  ASSUME NEW x, NEW ids, NEW ids2, ids \subseteq ids2, Slot(x, ids)
  PROVE  Slot(x, ids2)
BY DEF Slot

LEMMA OneHandlerMoves ==
  ASSUME HandlersInv, NEW h \in Handlers, NEW x,
         handler' = [handler EXCEPT ![h] = x],
         DOMAIN templates \subseteq DOMAIN templates',
         Slot(x, DOMAIN templates')
  PROVE  HandlersInv'
<1>1. DOMAIN handler' = Handlers
  BY DEF HandlersInv
<1>2. ASSUME NEW k \in Handlers PROVE Slot(handler'[k], DOMAIN templates')
  <2>1. CASE k = h
    BY <2>1 DEF HandlersInv
  <2>2. CASE k # h
    <3>1. handler'[k] = handler[k] /\ Slot(handler[k], DOMAIN templates)
      BY <2>2 DEF HandlersInv
    <3> QED
      BY <3>1, SlotGrows
  <2> QED
    BY <2>1, <2>2
<1> QED
  BY <1>1, <1>2 DEF HandlersInv

LEMMA FinishKeeps ==
  ASSUME HandlersInv, NEW h \in Handlers, Finish(h), DOMAIN templates \subseteq DOMAIN templates'
  PROVE  HandlersInv'
<1>1. Slot(Idle, DOMAIN templates')
  BY DEF Slot
<1> QED
  BY <1>1, OneHandlerMoves DEF Finish

LEMMA TablesStay == TablesInv /\ UNCHANGED <<templates, rows, nextId>> => TablesInv'
BY DEF TablesInv, TablesTyped, OneTemplate, Numbered, Row, Seqs, Contiguous

-----------------------------------------------------------------------------
(* The handlers' own steps *)

LEMMA ReceiveKeeps ==
  ASSUME StoreInv, NEW h \in Handlers, Receive(h) PROVE StoreInv'
<1>1. TablesInv' /\ DOMAIN templates' = DOMAIN templates
  BY TablesStay DEF Receive, Unchanged, StoreInv
<1>2. PICK req \in Requests :
        handler' = [handler EXCEPT
          ![h] = At(IF req.kind = "add" THEN "ensure" ELSE "read", req, NoTemplate)]
  BY DEF Receive
<1>3. req \in Request
  <2>1. nextId \in Nat /\ 0 .. nextId - 1 \subseteq Nat
    BY DEF StoreInv, TablesInv, TablesTyped
  <2> QED
    BY <2>1 DEF Requests, Request
<1> DEFINE x == At(IF req.kind = "add" THEN "ensure" ELSE "read", req, NoTemplate)
<1>4. Slot(x, DOMAIN templates')
  BY <1>3 DEF Slot, At
<1> HIDE DEF x
<1>5. HandlersInv'
  BY <1>1, <1>2, <1>4, OneHandlerMoves DEF x, StoreInv
<1> QED
  BY <1>1, <1>5 DEF StoreInv

LEMMA ReadActiveKeeps ==
  ASSUME StoreInv, NEW h \in Handlers, ReadActive(h) PROVE StoreInv'
<1>1. TablesInv' /\ DOMAIN templates' = DOMAIN templates
  BY TablesStay DEF ReadActive, Unchanged, StoreInv
<1>2. handler[h] \in [pc : {"ensure", "create", "reread", "read", "apply"},
                     req : Request, tmpl : DOMAIN templates \cup {NoTemplate}]
  BY DEF ReadActive, Idle, StoreInv, HandlersInv, Slot
<1>3. ASSUME NEW t \in Active, handler' = [handler EXCEPT ![h] = At("apply", @.req, t)]
      PROVE  HandlersInv'
  <2> DEFINE x == At("apply", handler[h].req, t)
  <2>1. Slot(x, DOMAIN templates')
    BY <1>1, <1>2 DEF Slot, At, Active
  <2>2. handler' = [handler EXCEPT ![h] = x]
    BY <1>3
  <2> HIDE DEF x
  <2> QED
    BY <1>1, <2>1, <2>2, OneHandlerMoves DEF StoreInv
<1>4. ASSUME handler' = [handler EXCEPT ![h].pc = "create"]
      PROVE  HandlersInv'
  <2> DEFINE x == [handler[h] EXCEPT !.pc = "create"]
  <2>1. Slot(x, DOMAIN templates')
    BY <1>1, <1>2 DEF Slot
  <2>2. handler' = [handler EXCEPT ![h] = x]
    BY <1>4
  <2> HIDE DEF x
  <2> QED
    BY <1>1, <2>1, <2>2, OneHandlerMoves DEF StoreInv
<1>5. Finish(h) => HandlersInv'
  BY <1>1, FinishKeeps DEF StoreInv
<1> QED
  BY <1>1, <1>3, <1>4, <1>5 DEF ReadActive, StoreInv

LEMMA AbandonKeeps ==
  ASSUME StoreInv, NEW h \in Handlers, Abandon(h) PROVE StoreInv'
<1>1. TablesInv' /\ DOMAIN templates' = DOMAIN templates
  BY TablesStay DEF Abandon, Unchanged, StoreInv
<1>2. HandlersInv'
  BY <1>1, FinishKeeps DEF Abandon, StoreInv
<1> QED
  BY <1>1, <1>2 DEF StoreInv

LEMMA CreateTemplateKeeps ==
  ASSUME StoreInv, NEW h \in Handlers, CreateTemplate(h) PROVE StoreInv'
<1>1. TablesInv /\ HandlersInv
  BY DEF StoreInv
<1>2. handler[h] \in [pc : {"ensure", "create", "reread", "read", "apply"},
                     req : Request, tmpl : DOMAIN templates \cup {NoTemplate}]
  BY DEF CreateTemplate, Idle, StoreInv, HandlersInv, Slot
<1>3. ASSUME NEW t \in TemplateIds \ DOMAIN templates, ActiveIndexAdmits,
             templates' = Insert(templates, t, [active |-> TRUE, version |-> 1]),
             handler' = [handler EXCEPT ![h] = At("apply", @.req, t)],
             UNCHANGED <<rows, nextId>>
      PROVE  StoreInv'
  <2>1. DOMAIN templates = {}
    BY <1>1, <1>3 DEF ActiveIndexAdmits, Active, TablesInv, OneTemplate
  <2>2. DOMAIN templates' = {t} /\ templates'[t] = [active |-> TRUE, version |-> 1]
    BY <1>3, <2>1 DEF Insert
  <2>3. DOMAIN rows = {}
    BY <1>1, <2>1 DEF TablesInv, TablesTyped, Row
  <2>4. TablesInv'
    <3>1. [active |-> TRUE, version |-> 1] \in [active : BOOLEAN, version : Nat \ {0}]
      OBVIOUS
    <3>2. DOMAIN rows' = {}
      BY <1>3, <2>3
    <3>3. TablesTyped'
      BY <1>1, <1>3, <2>2, <3>1, <3>2 DEF TablesInv, TablesTyped
    <3>4. OneTemplate'
      BY <2>2 DEF OneTemplate
    <3>5. Numbered'
      BY <3>2 DEF Numbered, Contiguous, Seqs
    <3> QED
      BY <3>3, <3>4, <3>5 DEF TablesInv
  <2> DEFINE x == At("apply", handler[h].req, t)
  <2>5. Slot(x, DOMAIN templates')
    BY <1>2, <2>2 DEF Slot, At
  <2>6. handler' = [handler EXCEPT ![h] = x]
    BY <1>3
  <2> HIDE DEF x
  <2>7. HandlersInv'
    BY <1>1, <2>1, <2>5, <2>6, OneHandlerMoves
  <2> QED
    BY <2>4, <2>7 DEF StoreInv
<1>4. ASSUME handler' = [handler EXCEPT ![h].pc = "reread"],
             UNCHANGED <<templates, rows, nextId>>
      PROVE  StoreInv'
  <2> DEFINE x == [handler[h] EXCEPT !.pc = "reread"]
  <2>1. Slot(x, DOMAIN templates')
    BY <1>2, <1>4 DEF Slot
  <2>2. handler' = [handler EXCEPT ![h] = x]
    BY <1>4
  <2> HIDE DEF x
  <2>3. HandlersInv'
    BY <1>1, <1>4, <2>1, <2>2, OneHandlerMoves
  <2> QED
    BY <1>1, <1>4, <2>3, TablesStay DEF StoreInv
<1> QED
  BY <1>3, <1>4 DEF CreateTemplate

-----------------------------------------------------------------------------
(* The edits *)

LEMMA BumpKeeps ==
  ASSUME TablesInv, NEW t \in DOMAIN templates, Bump(t)
  PROVE  /\ DOMAIN templates' = DOMAIN templates
         /\ \A s \in DOMAIN templates' :
              templates'[s] \in [active : BOOLEAN, version : Nat \ {0}]
         /\ OneTemplate'
         /\ templates'[t].version = templates[t].version + 1
<1> DEFINE bumped == [templates[t] EXCEPT !.version = @ + 1]
<1>1. templates[t] \in [active : BOOLEAN, version : Nat \ {0}] /\ templates[t].active
  BY DEF TablesInv, TablesTyped, OneTemplate
<1>2. /\ bumped \in [active : BOOLEAN, version : Nat \ {0}]
      /\ bumped.active /\ bumped.version = templates[t].version + 1
  BY <1>1
<1>3. templates' = [templates EXCEPT ![t] = bumped]
  BY DEF Bump
<1> HIDE DEF bumped
<1> QED
  BY <1>2, <1>3 DEF TablesInv, TablesTyped, OneTemplate

(* What is left to show of an edit: the rows are well typed and numbered. *)
LEMMA EditKeeps ==
  ASSUME TablesInv, NEW t \in DOMAIN templates, Bump(t), nextId' \in Nat,
         DOMAIN rows' \subseteq 0 .. nextId' - 1,
         \A w \in DOMAIN rows' : rows'[w] \in Row, Numbered'
  PROVE  TablesInv' /\ DOMAIN templates' = DOMAIN templates
<1>1. Row' = Row
  BY BumpKeeps DEF Row
<1>2. TablesTyped'
  BY <1>1, BumpKeeps DEF TablesInv, TablesTyped
<1> QED
  BY <1>2, BumpKeeps DEF TablesInv

LEMMA AddWaypointKeeps ==
  ASSUME TablesInv, NEW t \in DOMAIN templates, NEW req \in Request,
         req.kind = "add", AddWaypoint(t, req)
  PROVE  TablesInv' /\ DOMAIN templates' = DOMAIN templates
<1> DEFINE new == [template |-> t, seq |-> NextSeq(t), place |-> req.place]
<1>1. req.place \in Places
  BY DEF Request
<1>2. /\ NextSeq(t) \in Nat /\ NextSeq(t) <= nextId
      /\ \A w \in DOMAIN rows : rows[w].seq < NextSeq(t)
      /\ NextSeq(t) = 0 \/ \E w \in DOMAIN rows : rows[w].seq = NextSeq(t) - 1
  BY NextSeqFollows
<1>3. new \in Row /\ new.seq = NextSeq(t)
  BY <1>1, <1>2 DEF Row
<1>4. /\ nextId \in Nat /\ nextId' = nextId + 1 /\ DOMAIN rows \subseteq 0 .. nextId - 1
      /\ \A w \in DOMAIN rows : rows[w] \in Row /\ rows[w].seq < nextId
      /\ Contiguous(Seqs(rows)) /\ Bump(t)
  BY DEF TablesInv, TablesTyped, Numbered, AddWaypoint
<1>5. rows' = Insert(rows, nextId, new)
  BY DEF AddWaypoint
<1> HIDE DEF new
<1>6. /\ DOMAIN rows' = DOMAIN rows \cup {nextId} /\ nextId \notin DOMAIN rows
      /\ rows'[nextId] = new
      /\ \A w \in DOMAIN rows : rows'[w] = rows[w]
  BY <1>4, <1>5 DEF Insert
<1>7. Contiguous(Seqs(rows'))
  <2> DEFINE s == Seqs(rows)
             s2 == Seqs(rows')
  <2>1. DOMAIN s = DOMAIN rows /\ DOMAIN s2 = DOMAIN s \cup {nextId} /\ nextId \notin DOMAIN s
    BY <1>6 DEF Seqs
  <2>2. s2[nextId] = NextSeq(t) /\ \A w \in DOMAIN s : s2[w] = s[w]
    BY <1>3, <1>6 DEF Seqs
  <2>3. /\ \A w \in DOMAIN s : s[w] < NextSeq(t)
        /\ NextSeq(t) = 0 \/ \E w \in DOMAIN s : s[w] = NextSeq(t) - 1
    BY <1>2 DEF Seqs
  <2>4. Contiguous(s)
    BY <1>4
  <2> HIDE DEF s, s2
  <2>5. Contiguous(s2)
    BY <1>2, <2>1, <2>2, <2>3, <2>4, AppendContiguous
  <2> QED
    BY <2>5 DEF s2
<1>8. Numbered'
  <2>1. \A w \in DOMAIN rows' : rows'[w].seq < nextId'
    <3>1. \A w \in DOMAIN rows : rows[w].seq \in Nat
      BY <1>4 DEF Row
    <3> QED
      BY <1>2, <1>3, <1>4, <1>6, <3>1
  <2> QED
    BY <1>7, <2>1 DEF Numbered
<1> QED
  BY <1>3, <1>4, <1>6, <1>8, EditKeeps

LEMMA UpdateWaypointKeeps ==
  ASSUME TablesInv, NEW t \in DOMAIN templates, NEW req \in Request,
         req.kind = "update", UpdateWaypoint(t, req)
  PROVE  TablesInv' /\ DOMAIN templates' = DOMAIN templates
<1>1. CASE req.wp \in DOMAIN rows
  <2> DEFINE w0 == req.wp
             new == [rows[w0] EXCEPT !.place = req.place]
  <2>1. /\ nextId \in Nat /\ nextId' = nextId /\ DOMAIN rows \subseteq 0 .. nextId - 1
        /\ \A w \in DOMAIN rows : rows[w] \in Row /\ rows[w].seq < nextId
        /\ Contiguous(Seqs(rows)) /\ Bump(t) /\ req.place \in Places
    BY <1>1 DEF TablesInv, TablesTyped, Numbered, UpdateWaypoint, Request
  <2>2. new \in Row /\ new.seq = rows[w0].seq
    BY <1>1, <2>1 DEF Row
  <2>3. rows' = [rows EXCEPT ![w0] = new]
    BY <1>1 DEF UpdateWaypoint
  <2> HIDE DEF new, w0
  <2>4. /\ DOMAIN rows' = DOMAIN rows
        /\ \A w \in DOMAIN rows : rows'[w] \in Row /\ rows'[w].seq = rows[w].seq
    BY <2>1, <2>2, <2>3
  <2>5. Numbered'
    <3>1. Seqs(rows') = Seqs(rows)
      BY <2>4 DEF Seqs
    <3> QED
      BY <2>1, <2>4, <3>1 DEF Numbered
  <2> QED
    BY <2>1, <2>4, <2>5, EditKeeps
<1>2. CASE req.wp \notin DOMAIN rows
  BY <1>2, TablesStay DEF UpdateWaypoint, Unchanged
<1> QED
  BY <1>1, <1>2

LEMMA DeleteWaypointKeeps ==
  ASSUME TablesInv, NEW t \in DOMAIN templates, NEW req \in Request,
         req.kind = "delete", DeleteWaypoint(t, req)
  PROVE  TablesInv' /\ DOMAIN templates' = DOMAIN templates
<1> DEFINE d == req.wp
           left == DeleteRows(rows, {d})
           later == Later(t, rows[d].seq)
<1>1. ASSUME d \in RowsOf(t), rows' = Shifted(left, later), Bump(t), UNCHANGED nextId
      PROVE  TablesInv' /\ DOMAIN templates' = DOMAIN templates
  <2>1. /\ nextId \in Nat /\ nextId' = nextId /\ DOMAIN rows \subseteq 0 .. nextId - 1
        /\ \A w \in DOMAIN rows : rows[w] \in Row /\ rows[w].seq < nextId
        /\ Contiguous(Seqs(rows)) /\ d \in DOMAIN rows /\ RowsOf(t) = DOMAIN rows
    BY <1>1, AllRows DEF TablesInv, TablesTyped, Numbered
  <2>2. DOMAIN left = DOMAIN rows \ {d} /\ \A w \in DOMAIN left : left[w] = rows[w]
    BY DEF DeleteRows
  <2>3. \A w \in DOMAIN rows : w \in later <=> rows[w].seq > rows[d].seq
    BY <2>1 DEF Later
  <2> HIDE DEF left, later, d
  <2>4. DOMAIN rows' = DOMAIN rows \ {d}
    BY <1>1, <2>2 DEF Shifted
  <2>5. ASSUME NEW w \in DOMAIN rows'
        PROVE  /\ rows'[w] \in Row
               /\ rows'[w].seq = IF rows[w].seq > rows[d].seq THEN rows[w].seq - 1
                                 ELSE rows[w].seq
    <3>1. /\ rows[w] \in Row /\ rows[d] \in Row
          /\ rows'[w] = IF w \in later THEN [rows[w] EXCEPT !.seq = @ - 1] ELSE rows[w]
      BY <1>1, <2>1, <2>2, <2>4 DEF Shifted
    <3>2. CASE rows[w].seq > rows[d].seq
      <4>1. rows'[w] = [rows[w] EXCEPT !.seq = rows[w].seq - 1]
        BY <2>3, <2>4, <3>1, <3>2
      <4>2. rows[w].seq - 1 \in Nat
        BY <3>1, <3>2 DEF Row
      <4> DEFINE k == rows[w].seq - 1
      <4> HIDE DEF k
      <4>3. [rows[w] EXCEPT !.seq = k] \in Row /\ [rows[w] EXCEPT !.seq = k].seq = k
        BY <3>1, <4>2 DEF Row, k
      <4> QED
        BY <3>2, <4>1, <4>3 DEF k
    <3>3. CASE ~ (rows[w].seq > rows[d].seq)
      BY <2>3, <2>4, <3>1, <3>3
    <3> QED
      BY <3>2, <3>3
  <2>6. Contiguous(Seqs(rows'))
    <3> DEFINE s == Seqs(rows)
               s2 == Seqs(rows')
    <3>1. d \in DOMAIN s /\ DOMAIN s2 = DOMAIN s \ {d} /\ Contiguous(s)
      BY <2>1, <2>4 DEF Seqs
    <3>2. \A w \in DOMAIN s2 : s2[w] = IF s[w] > s[d] THEN s[w] - 1 ELSE s[w]
      BY <2>1, <2>4, <2>5 DEF Seqs
    <3> HIDE DEF s, s2
    <3>3. Contiguous(s2)
      BY <3>1, <3>2, ClosedContiguous
    <3> QED
      BY <3>3 DEF s2
  <2>7. \A w \in DOMAIN rows' : rows'[w].seq < nextId
    <3>1. \A w \in DOMAIN rows : rows[w].seq \in Nat
      BY <2>1 DEF Row
    <3> QED
      BY <2>1, <2>4, <2>5, <3>1
  <2> QED
    BY <1>1, <2>1, <2>4, <2>5, <2>6, <2>7, EditKeeps DEF Numbered
<1>2. CASE Unchanged
  BY <1>2, TablesStay DEF Unchanged
<1> QED
  BY <1>1, <1>2 DEF DeleteWaypoint

(* A row that may be parked at -1. *)
IntRow == [template : DOMAIN templates, seq : Int, place : Places]

LEMMA SetSeqTyped ==
  ASSUME NEW table, \A v \in DOMAIN table : table[v] \in IntRow,
         NEW w \in DOMAIN table, NEW k \in Int
  PROVE  /\ DOMAIN SetSeq(table, w, k) = DOMAIN table
         /\ \A v \in DOMAIN table :
              /\ SetSeq(table, w, k)[v] \in IntRow
              /\ SetSeq(table, w, k)[v].seq = IF v = w THEN k ELSE table[v].seq
              /\ SetSeq(table, w, k)[v].place = table[v].place
<1> DEFINE new == [table[w] EXCEPT !.seq = k]
<1>1. new \in IntRow /\ new.seq = k /\ new.place = table[w].place
  BY DEF IntRow
<1>2. SetSeq(table, w, k) = [table EXCEPT ![w] = new]
  BY DEF SetSeq
<1> HIDE DEF new
<1> QED
  BY <1>1, <1>2

(* The three tables a move goes through. *)
LEMMA SwapStatesTyped ==
  ASSUME TablesInv, NEW a \in DOMAIN rows, NEW b \in DOMAIN rows, a # b,
         NEW delta \in {-1, 1}, rows[b].seq = rows[a].seq + delta
  PROVE  LET states == SwapStates(a, b, rows[a].seq, delta)
         IN  /\ DOMAIN states = 1 .. 3 /\ Len(states) = 3
             /\ \A i \in 1 .. 3 : DOMAIN states[i] = DOMAIN rows
             /\ \A w \in DOMAIN rows :
                  /\ states[1][w].seq = IF w = a THEN -1 ELSE rows[w].seq
                  /\ states[2][w].seq = IF w = b THEN rows[a].seq
                                        ELSE IF w = a THEN -1 ELSE rows[w].seq
                  /\ states[3][w].seq = IF w = a THEN rows[b].seq
                                        ELSE IF w = b THEN rows[a].seq ELSE rows[w].seq
                  /\ states[3][w] \in IntRow
                  /\ states[3][w].place = rows[w].place
<1> DEFINE parked == SetSeq(rows, a, -1)
           vacated == SetSeq(parked, b, rows[a].seq)
           placed == SetSeq(vacated, a, rows[a].seq + delta)
           states == SwapStates(a, b, rows[a].seq, delta)
<1>1. states = <<parked, vacated, placed>>
  BY DEF SwapStates
<1>2. /\ \A w \in DOMAIN rows : rows[w] \in IntRow
      /\ rows[a].seq \in Int /\ rows[a].seq + delta = rows[b].seq /\ rows[b].seq \in Int
  BY DEF TablesInv, TablesTyped, Row, IntRow
<1>3. /\ DOMAIN parked = DOMAIN rows
      /\ \A w \in DOMAIN rows :
           /\ parked[w] \in IntRow /\ parked[w].place = rows[w].place
           /\ parked[w].seq = IF w = a THEN -1 ELSE rows[w].seq
  BY <1>2, SetSeqTyped
<1> HIDE DEF parked
<1>4. b \in DOMAIN parked /\ \A w \in DOMAIN parked : parked[w] \in IntRow
  BY <1>3
<1>5. /\ DOMAIN vacated = DOMAIN parked
      /\ \A w \in DOMAIN parked :
           /\ vacated[w] \in IntRow /\ vacated[w].place = parked[w].place
           /\ vacated[w].seq = IF w = b THEN rows[a].seq ELSE parked[w].seq
  BY <1>2, <1>4, SetSeqTyped
<1> HIDE DEF vacated
<1>6. a \in DOMAIN vacated /\ \A w \in DOMAIN vacated : vacated[w] \in IntRow
  BY <1>3, <1>5
<1>7. /\ DOMAIN placed = DOMAIN vacated
      /\ \A w \in DOMAIN vacated :
           /\ placed[w] \in IntRow /\ placed[w].place = vacated[w].place
           /\ placed[w].seq = IF w = a THEN rows[a].seq + delta ELSE vacated[w].seq
  BY <1>2, <1>6, SetSeqTyped
<1> HIDE DEF placed, states
<1>8. states[1] = parked /\ states[2] = vacated /\ states[3] = placed
  BY <1>1
<1>9. DOMAIN states = 1 .. 3 /\ Len(states) = 3
  BY <1>1
<1>10. \A i \in 1 .. 3 : DOMAIN states[i] = DOMAIN rows
  BY <1>3, <1>5, <1>7, <1>8
<1>11. \A w \in DOMAIN rows :
         /\ states[1][w].seq = IF w = a THEN -1 ELSE rows[w].seq
         /\ states[2][w].seq = IF w = b THEN rows[a].seq
                               ELSE IF w = a THEN -1 ELSE rows[w].seq
         /\ states[3][w].seq = IF w = a THEN rows[b].seq
                               ELSE IF w = b THEN rows[a].seq ELSE rows[w].seq
         /\ states[3][w] \in IntRow
         /\ states[3][w].place = rows[w].place
  BY <1>2, <1>3, <1>5, <1>7, <1>8
<1> QED
  BY <1>9, <1>10, <1>11 DEF states

LEMMA MoveWaypointKeeps ==
  ASSUME TablesInv, NEW t \in DOMAIN templates, NEW req \in Request,
         req.kind = "move", MoveWaypoint(t, req)
  PROVE  TablesInv' /\ DOMAIN templates' = DOMAIN templates
<1> DEFINE a == req.wp
           neighbours == {w \in RowsOf(t) : rows[w].seq = rows[a].seq + req.delta}
           b == CHOOSE w \in neighbours : TRUE
           states == SwapStates(a, b, rows[a].seq, req.delta)
<1>1. ASSUME a \in RowsOf(t), neighbours # {}, rows' = states[Len(states)], Bump(t),
             UNCHANGED nextId
      PROVE  TablesInv' /\ DOMAIN templates' = DOMAIN templates
  <2>1. /\ nextId \in Nat /\ nextId' = nextId /\ DOMAIN rows \subseteq 0 .. nextId - 1
        /\ \A w \in DOMAIN rows : rows[w] \in Row /\ rows[w].seq < nextId
        /\ Contiguous(Seqs(rows)) /\ a \in DOMAIN rows /\ RowsOf(t) = DOMAIN rows
        /\ req.delta \in {-1, 1}
    BY <1>1, AllRows DEF TablesInv, TablesTyped, Numbered, Request
  <2>2. b \in DOMAIN rows /\ rows[b].seq = rows[a].seq + req.delta
    BY <1>1, <2>1
  <2> HIDE DEF b, neighbours, a
  <2>3. \A w \in DOMAIN rows : rows[w].seq \in Nat
    BY <2>1 DEF Row
  <2>4. a # b
    BY <2>1, <2>2, <2>3
  <2>5. /\ Len(states) = 3 /\ DOMAIN states[3] = DOMAIN rows
        /\ \A w \in DOMAIN rows :
             /\ states[3][w].seq = IF w = a THEN rows[b].seq
                                   ELSE IF w = b THEN rows[a].seq ELSE rows[w].seq
             /\ states[3][w] \in IntRow
    <3> HIDE DEF states
    <3>1. 3 \in 1 .. 3
      OBVIOUS
    <3> QED
      BY <2>1, <2>2, <2>4, <3>1, SwapStatesTyped DEF states
  <2> HIDE DEF states
  <2>6. /\ DOMAIN rows' = DOMAIN rows
        /\ \A w \in DOMAIN rows :
             /\ rows'[w].seq = IF w = a THEN rows[b].seq
                               ELSE IF w = b THEN rows[a].seq ELSE rows[w].seq
             /\ rows'[w] \in Row
    BY <1>1, <2>1, <2>2, <2>3, <2>5 DEF Row, IntRow
  <2>7. Contiguous(Seqs(rows'))
    <3> DEFINE s == Seqs(rows)
               s2 == Seqs(rows')
    <3>1. /\ a \in DOMAIN s /\ b \in DOMAIN s /\ DOMAIN s2 = DOMAIN s /\ Contiguous(s)
          /\ s2[a] = s[b] /\ s2[b] = s[a]
          /\ \A c \in DOMAIN s \ {a, b} : s2[c] = s[c]
      BY <2>1, <2>2, <2>4, <2>6 DEF Seqs
    <3> HIDE DEF s, s2
    <3>2. Contiguous(s2)
      BY <2>4, <3>1, SwappedContiguous
    <3> QED
      BY <3>2 DEF s2
  <2>8. \A w \in DOMAIN rows' : rows'[w].seq < nextId
    BY <2>1, <2>2, <2>6
  <2> QED
    BY <1>1, <2>1, <2>6, <2>7, <2>8, EditKeeps DEF Numbered
<1>2. CASE Unchanged
  BY <1>2, TablesStay DEF Unchanged
<1> QED
  BY <1>1, <1>2 DEF MoveWaypoint

LEMMA ApplyKeeps ==
  ASSUME StoreInv, NEW h \in Handlers, Apply(h) PROVE StoreInv'
<1> DEFINE t == handler[h].tmpl
           req == handler[h].req
<1>1. TablesInv /\ HandlersInv /\ t \in DOMAIN templates /\ req \in Request
  BY DEF StoreInv, HandlersInv, Slot, Apply, Idle
<1>2. req.kind \in {"add", "update", "delete", "move"}
  BY <1>1 DEF Request
<1>3. /\ req.kind = "add" => AddWaypoint(t, req)
      /\ req.kind = "update" => UpdateWaypoint(t, req)
      /\ req.kind = "delete" => DeleteWaypoint(t, req)
      /\ req.kind = "move" => MoveWaypoint(t, req)
      /\ Finish(h)
  BY <1>2 DEF Apply
<1> HIDE DEF t, req
<1>4. TablesInv' /\ DOMAIN templates' = DOMAIN templates
  BY <1>1, <1>2, <1>3, AddWaypointKeeps, UpdateWaypointKeeps, DeleteWaypointKeeps,
     MoveWaypointKeeps
<1>5. HandlersInv'
  BY <1>1, <1>3, <1>4, FinishKeeps
<1> QED
  BY <1>4, <1>5 DEF StoreInv

LEMMA RestoredRows ==
  ASSUME nextId \in Nat, NEW places \in Backups, NEW t
  PROVE  LET new == Restored(places, t)
         IN  /\ DOMAIN new = nextId .. nextId + Len(places) - 1
             /\ \A w \in DOMAIN new :
                  /\ new[w] \in [template : {t}, seq : Nat, place : Places]
                  /\ new[w].seq = w - nextId
             /\ Contiguous(Seqs(new))
<1> DEFINE new == Restored(places, t)
<1>1. places \in Seq(Places) /\ Len(places) \in Nat
  BY RouteStoreAssumptions
<1>2. DOMAIN new = nextId .. nextId + Len(places) - 1
  BY DEF Restored
<1>3. ASSUME NEW w \in DOMAIN new
      PROVE  /\ new[w] \in [template : {t}, seq : Nat, place : Places]
             /\ new[w].seq = w - nextId
  <2>1. new[w] = [template |-> t, seq |-> w - nextId, place |-> places[w - nextId + 1]]
    BY <1>3 DEF Restored
  <2>2. w - nextId \in Nat /\ w - nextId + 1 \in 1 .. Len(places)
    BY <1>1, <1>2, <1>3
  <2>3. places[w - nextId + 1] \in Places
    BY <1>1, <2>2
  <2> QED
    BY <2>1, <2>2, <2>3
<1> HIDE DEF new
<1>4. Contiguous(Seqs(new))
  <2> DEFINE s == Seqs(new)
  <2>1. DOMAIN s = nextId .. nextId + Len(places) - 1 /\ \A w \in DOMAIN s : s[w] = w - nextId
    BY <1>2, <1>3 DEF Seqs
  <2> HIDE DEF s
  <2>2. \A w \in DOMAIN s : w \in Int /\ w >= nextId /\ s[w] \in Nat
    BY <1>1, <2>1
  <2>3. \A a, b \in DOMAIN s : s[a] = s[b] => a = b
    BY <2>1, <2>2
  <2>4. ASSUME NEW a \in DOMAIN s, s[a] > 0
        PROVE  \E b \in DOMAIN s : s[b] = s[a] - 1
    <3>1. a - 1 \in DOMAIN s
      BY <1>1, <2>1, <2>2, <2>4
    <3>2. s[a - 1] = s[a] - 1
      BY <2>1, <2>2, <3>1
    <3> QED
      BY <3>1, <3>2
  <2>5. Contiguous(s)
    BY <2>2, <2>3, <2>4 DEF Contiguous
  <2> QED
    BY <2>5 DEF s
<1> QED
  BY <1>2, <1>3, <1>4 DEF new

LEMMA ReplaceRouteKeeps ==
  ASSUME StoreInv, NEW places \in Backups, ReplaceRoute(places) PROVE StoreInv'
<1>1. /\ TablesInv /\ HandlersInv /\ nextId \in Nat /\ Len(places) \in Nat
      /\ nextId' = nextId + Len(places) /\ UNCHANGED handler
  BY RouteStoreAssumptions DEF StoreInv, TablesInv, TablesTyped, ReplaceRoute
<1>2. PICK t : \/ /\ Active = {} /\ t \in TemplateIds \ DOMAIN templates
                 /\ templates' = Insert(templates, t, [active |-> TRUE, version |-> 2])
                 /\ rows' = InsertRows(rows, Restored(places, t))
              \/ /\ t \in Active /\ Bump(t)
                 /\ rows' = InsertRows(DeleteRows(rows, RowsOf(t)), Restored(places, t))
  BY DEF ReplaceRoute
<1>3. /\ DOMAIN templates \subseteq DOMAIN templates' /\ t \in DOMAIN templates'
      /\ DOMAIN templates' \subseteq TemplateIds
      /\ \A s \in DOMAIN templates' :
           templates'[s] \in [active : BOOLEAN, version : Nat \ {0}]
      /\ OneTemplate'
  <2>1. CASE Active = {} /\ templates' = Insert(templates, t, [active |-> TRUE, version |-> 2])
             /\ t \in TemplateIds
    <3>1. DOMAIN templates = {}
      BY <1>1, <2>1 DEF Active, TablesInv, OneTemplate
    <3>2. DOMAIN templates' = {t} /\ templates'[t] = [active |-> TRUE, version |-> 2]
      BY <2>1, <3>1 DEF Insert
    <3>3. /\ [active |-> TRUE, version |-> 2] \in [active : BOOLEAN, version : Nat \ {0}]
          /\ [active |-> TRUE, version |-> 2].active
      OBVIOUS
    <3>4. OneTemplate'
      BY <3>2, <3>3 DEF OneTemplate
    <3>5. \A s \in DOMAIN templates' :
            templates'[s] \in [active : BOOLEAN, version : Nat \ {0}]
      BY <3>2, <3>3
    <3> QED
      BY <2>1, <3>1, <3>2, <3>4, <3>5
  <2>2. CASE t \in Active /\ Bump(t)
    <3>1. t \in DOMAIN templates
      BY <2>2 DEF Active
    <3> QED
      BY <1>1, <2>2, <3>1, BumpKeeps DEF TablesInv, TablesTyped
  <2> QED
    BY <1>2, <2>1, <2>2
<1> DEFINE new == Restored(places, t)
<1>4. DOMAIN rows' = DOMAIN new /\ \A w \in DOMAIN rows' : rows'[w] = new[w]
  <2>1. CASE Active = {} /\ rows' = InsertRows(rows, Restored(places, t))
    <3>1. DOMAIN rows = {}
      BY <1>1, <2>1 DEF TablesInv, TablesTyped, Row, Active, OneTemplate
    <3> QED
      BY <2>1, <3>1 DEF InsertRows
  <2>2. CASE t \in Active /\ rows' = InsertRows(DeleteRows(rows, RowsOf(t)), Restored(places, t))
    <3>1. RowsOf(t) = DOMAIN rows
      BY <1>1, <2>2, AllRows DEF Active
    <3>2. DOMAIN DeleteRows(rows, RowsOf(t)) = {}
      BY <3>1 DEF DeleteRows
    <3> QED
      BY <2>2, <3>2 DEF InsertRows
  <2> QED
    BY <1>2, <2>1, <2>2
<1>5. /\ DOMAIN new = nextId .. nextId + Len(places) - 1
      /\ \A w \in DOMAIN new :
           /\ new[w] \in [template : {t}, seq : Nat, place : Places]
           /\ new[w].seq = w - nextId
      /\ Contiguous(Seqs(new))
  BY <1>1, RestoredRows
<1> HIDE DEF new
<1>6. DOMAIN rows' \subseteq 0 .. nextId' - 1 /\ nextId' \in Nat
  BY <1>1, <1>4, <1>5
<1>7. \A w \in DOMAIN rows' : rows'[w] \in Row'
  BY <1>3, <1>4, <1>5 DEF Row
<1>8. Numbered'
  <2>1. Seqs(rows') = Seqs(new)
    BY <1>4 DEF Seqs
  <2>2. \A w \in DOMAIN rows' : rows'[w].seq < nextId'
    BY <1>1, <1>4, <1>5
  <2> QED
    BY <1>5, <2>1, <2>2 DEF Numbered
<1>9. TablesInv'
  BY <1>3, <1>6, <1>7, <1>8 DEF TablesInv, TablesTyped
<1>10. HandlersInv'
  <2>1. \A h \in Handlers : Slot(handler[h], DOMAIN templates')
    BY <1>1, <1>3, SlotGrows DEF HandlersInv
  <2> QED
    BY <1>1, <2>1 DEF HandlersInv
<1> QED
  BY <1>9, <1>10 DEF StoreInv

-----------------------------------------------------------------------------
(* No edit collides *)

(* Renumbering the rows above a gap in ascending order never meets a       *)
(* number that is still taken.                                             *)
LEMMA GapClosesFreely ==
  ASSUME TablesInv, NEW t \in DOMAIN templates, NEW d \in DOMAIN rows,
         NEW v \in Later(t, rows[d].seq)
  PROVE  UniqueSeqs(Shifted(DeleteRows(rows, {d}), VisitedUpTo(Later(t, rows[d].seq), v)))
<1> DEFINE left == DeleteRows(rows, {d})
           visited == VisitedUpTo(Later(t, rows[d].seq), v)
           table == Shifted(left, visited)
<1>1. /\ \A w \in DOMAIN rows : rows[w] \in Row
      /\ Contiguous(Seqs(rows)) /\ RowsOf(t) = DOMAIN rows
  BY AllRows DEF TablesInv, TablesTyped, Numbered
<1>2. \A w \in DOMAIN rows : rows[w].seq \in Nat
  BY <1>1 DEF Row
<1>3. v \in DOMAIN rows /\ rows[v].seq > rows[d].seq
  BY <1>1 DEF Later
<1>4. \A w : w \in visited <=>
             w \in DOMAIN rows /\ rows[w].seq > rows[d].seq /\ rows[w].seq <= rows[v].seq
  BY <1>1 DEF VisitedUpTo, Later
<1>5. \A a, b \in DOMAIN rows : rows[a].seq = rows[b].seq => a = b
  BY <1>1 DEF Contiguous, Seqs
<1> HIDE DEF visited
<1>6. DOMAIN table = DOMAIN rows \ {d}
  BY DEF Shifted, DeleteRows
<1>7. ASSUME NEW w \in DOMAIN table
      PROVE  table[w].seq = IF w \in visited THEN rows[w].seq - 1 ELSE rows[w].seq
  <2>1. table[w] = IF w \in visited THEN [rows[w] EXCEPT !.seq = @ - 1] ELSE rows[w]
    BY <1>6, <1>7 DEF Shifted, DeleteRows
  <2>2. rows[w] \in Row
    BY <1>1, <1>6, <1>7
  <2> HIDE DEF table
  <2> QED
    BY <2>1, <2>2 DEF Row
<1> HIDE DEF table
<1>8. \A w \in DOMAIN table : rows[w].seq # rows[d].seq
  BY <1>5, <1>6
<1>9. ASSUME NEW a \in DOMAIN table, NEW b \in DOMAIN table, table[a].seq = table[b].seq
      PROVE  a = b
  <2>1. a \in DOMAIN rows /\ b \in DOMAIN rows
    BY <1>6
  <2>2. rows[a].seq = rows[b].seq
    BY <1>2, <1>3, <1>4, <1>7, <1>8, <1>9, <2>1
  <2> QED
    BY <1>5, <2>1, <2>2
<1>10. UniqueSeqs(table)
  BY <1>9 DEF UniqueSeqs
<1> QED
  BY <1>10 DEF table, visited

(* Exchanging two neighbours by way of -1 never meets one either. *)
LEMMA NeighboursSwapFreely ==
  ASSUME TablesInv, NEW a \in DOMAIN rows, NEW b \in DOMAIN rows, a # b,
         NEW delta \in {-1, 1}, rows[b].seq = rows[a].seq + delta
  PROVE  LET states == SwapStates(a, b, rows[a].seq, delta)
         IN  \A i \in DOMAIN states : UniqueSeqs(states[i])
<1> DEFINE states == SwapStates(a, b, rows[a].seq, delta)
<1>1. /\ DOMAIN states = 1 .. 3
      /\ \A i \in 1 .. 3 : DOMAIN states[i] = DOMAIN rows
      /\ \A w \in DOMAIN rows :
           /\ states[1][w].seq = IF w = a THEN -1 ELSE rows[w].seq
           /\ states[2][w].seq = IF w = b THEN rows[a].seq
                                 ELSE IF w = a THEN -1 ELSE rows[w].seq
           /\ states[3][w].seq = IF w = a THEN rows[b].seq
                                 ELSE IF w = b THEN rows[a].seq ELSE rows[w].seq
  BY SwapStatesTyped
<1>2. \A w \in DOMAIN rows : rows[w].seq \in Nat
  BY DEF TablesInv, TablesTyped, Row
<1>3. \A c, d \in DOMAIN rows : rows[c].seq = rows[d].seq => c = d
  BY DEF TablesInv, Numbered, Contiguous, Seqs
<1> HIDE DEF states
<1>4. UniqueSeqs(states[1]) /\ UniqueSeqs(states[2]) /\ UniqueSeqs(states[3])
  <2>1. /\ DOMAIN states[1] = DOMAIN rows /\ DOMAIN states[2] = DOMAIN rows
        /\ DOMAIN states[3] = DOMAIN rows
    BY <1>1
  <2>2. ASSUME NEW c \in DOMAIN rows, NEW d \in DOMAIN rows, c # d
        PROVE  /\ states[1][c].seq # states[1][d].seq
               /\ states[2][c].seq # states[2][d].seq
               /\ states[3][c].seq # states[3][d].seq
    BY <1>1, <1>2, <1>3, <2>2
  <2> QED
    BY <2>1, <2>2 DEF UniqueSeqs
<1> QED
  BY <1>1, <1>4 DEF states

LEMMA EditRaisesVersion ==
  ASSUME StoreInv, NEW h \in Handlers, handler[h] # Idle, Succeeds(h), Apply(h)
  PROVE  templates'[handler[h].tmpl].version = templates[handler[h].tmpl].version + 1
<1> DEFINE t == handler[h].tmpl
           req == handler[h].req
<1>1. TablesInv /\ t \in DOMAIN templates /\ req \in Request
  BY DEF StoreInv, HandlersInv, Slot, Succeeds, Idle
<1> SUFFICES Bump(t)
  BY <1>1, BumpKeeps
<1>2. /\ req.kind = "add" => AddWaypoint(t, req)
      /\ req.kind = "update" => UpdateWaypoint(t, req)
      /\ req.kind = "delete" => DeleteWaypoint(t, req)
      /\ req.kind = "move" => MoveWaypoint(t, req)
  BY DEF Apply
<1>3. \/ req.kind = "add"
      \/ req.kind \in {"update", "delete"} /\ req.wp \in RowsOf(t)
      \/ /\ req.kind = "move" /\ req.wp \in RowsOf(t)
         /\ \E w \in RowsOf(t) : rows[w].seq = rows[req.wp].seq + req.delta
  BY DEF Succeeds
<1> HIDE DEF t, req
<1>4. CASE req.kind = "add"
  BY <1>2, <1>4 DEF AddWaypoint
<1>5. CASE req.kind = "update"
  BY <1>2, <1>3, <1>5 DEF UpdateWaypoint, RowsOf
<1>6. CASE req.kind = "delete"
  <2>1. req.wp \in RowsOf(t) /\ req.wp \in DOMAIN rows
    BY <1>3, <1>6 DEF RowsOf
  <2>2. \A v \in Later(t, rows[req.wp].seq) :
          UniqueSeqs(Shifted(DeleteRows(rows, {req.wp}),
                             VisitedUpTo(Later(t, rows[req.wp].seq), v)))
    BY <1>1, <2>1, GapClosesFreely
  <2> QED
    BY <1>2, <1>6, <2>1, <2>2 DEF DeleteWaypoint
<1>7. CASE req.kind = "move"
  <2> DEFINE neighbours == {w \in RowsOf(t) : rows[w].seq = rows[req.wp].seq + req.delta}
             b == CHOOSE w \in neighbours : TRUE
             states == SwapStates(req.wp, b, rows[req.wp].seq, req.delta)
  <2>1. req.wp \in RowsOf(t) /\ req.wp \in DOMAIN rows /\ neighbours # {}
    BY <1>3, <1>7 DEF RowsOf
  <2>2. b \in neighbours
    BY <2>1
  <2>3. b \in DOMAIN rows /\ rows[b].seq = rows[req.wp].seq + req.delta
    BY <2>2 DEF RowsOf
  <2>4. req.delta \in {-1, 1} /\ rows[req.wp].seq \in Nat
    BY <1>1, <1>7, <2>1 DEF Request, TablesInv, TablesTyped, Row
  <2> HIDE DEF b
  <2>5. b # req.wp
    BY <2>3, <2>4
  <2>6. \A i \in DOMAIN states : UniqueSeqs(states[i])
    BY <1>1, <2>1, <2>3, <2>4, <2>5, NeighboursSwapFreely
  <2> HIDE DEF states, neighbours
  <2>7. Bump(t)
    BY <1>2, <1>7, <2>1, <2>6 DEF MoveWaypoint, b, states, neighbours
  <2> QED
    BY <2>7
<1>8. req.kind \in {"add", "update", "delete", "move"}
  BY <1>1 DEF Request
<1> QED
  BY <1>4, <1>5, <1>6, <1>7, <1>8

-----------------------------------------------------------------------------
(* The theorems *)

LEMMA StoreStep == StoreInv /\ [Next]_vars => StoreInv'
<1> SUFFICES ASSUME StoreInv, [Next]_vars PROVE StoreInv'
  OBVIOUS
<1>1. ASSUME NEW h \in Handlers,
             Receive(h) \/ ReadActive(h) \/ CreateTemplate(h) \/ Abandon(h) \/ Apply(h)
      PROVE  StoreInv'
  BY <1>1, ReceiveKeeps, ReadActiveKeeps, CreateTemplateKeeps, AbandonKeeps, ApplyKeeps
<1>2. ASSUME NEW places \in Backups, ReplaceRoute(places) PROVE StoreInv'
  BY <1>2, ReplaceRouteKeeps
<1>3. CASE UNCHANGED vars
  <2>1. TablesInv'
    BY <1>3, TablesStay DEF StoreInv, vars
  <2>2. HandlersInv'
    BY <1>3 DEF StoreInv, HandlersInv, vars
  <2> QED
    BY <2>1, <2>2 DEF StoreInv
<1> QED
  BY <1>1, <1>2, <1>3 DEF Next

LEMMA StoreAlways == Spec => []StoreInv
BY StoreStart, StoreStep, PTL DEF Spec

(***************************************************************************)
(* The route tables keep their types: every waypoint has a template that   *)
(* exists and a sequence number that is not the parking place -1.          *)
(***************************************************************************)
THEOREM RouteStoreTyped == Spec => []TypeOK
BY StoreAlways, StoreInvTyped, PTL

(***************************************************************************)
(* However many handlers race, one template is active and every waypoint   *)
(* belongs to it.                                                          *)
(***************************************************************************)
THEOREM OneRouteIsVisible == Spec => []OneVisibleRoute
BY StoreAlways, StoreInvImplies, PTL

(***************************************************************************)
(* The sequence numbers of the route have neither a gap nor a duplicate,   *)
(* whatever edits have been committed in whatever order.                   *)
(***************************************************************************)
THEOREM SeqsAreContiguous == Spec => []SeqsContiguous
BY StoreAlways, StoreInvImplies, PTL

(***************************************************************************)
(* Deleting and moving never collide with a number in use: an edit of a    *)
(* waypoint that is there takes effect and raises the version.             *)
(***************************************************************************)
THEOREM EveryEditTakesEffect == Spec => EditsTakeEffect
<1>1. StoreInv /\ [Next]_vars =>
        [\A h \in Handlers :
           (handler[h] # Idle /\ Succeeds(h) /\ Apply(h)) =>
             templates'[handler[h].tmpl].version
               = templates[handler[h].tmpl].version + 1]_vars
  BY EditRaisesVersion
<1> QED
  BY <1>1, StoreAlways, PTL DEF Spec, EditsTakeEffect

-----------------------------------------------------------------------------
(* Reading numbered rows back as a list *)

Entry(table, w) == [id |-> w, place |-> table[w].place]

(* What Listed is when all rows belong to the route. *)
InOrder(table) ==
  LET at(i) == CHOOSE w \in DOMAIN table : table[w].seq = i - 1
  IN  [i \in 1 .. Cardinality(DOMAIN table) |-> [id |-> at(i), place |-> table[at(i)].place]]

(* The list has each row of the table where its number says, and no more. *)
Lists(list, table) ==
  /\ list \in Seq([id : Nat, place : Places])
  /\ \A w \in DOMAIN table :
       table[w].seq + 1 \in DOMAIN list /\ list[table[w].seq + 1] = Entry(table, w)
  /\ \A i \in DOMAIN list : \E w \in DOMAIN table : table[w].seq = i - 1

RowTable(table) ==
  \A w \in DOMAIN table : w \in Nat /\ table[w].seq \in Nat /\ table[w].place \in Places

(* There is one such list. *)
LEMMA ListIsUnique ==
  ASSUME NEW table, RowTable(table), NEW a, NEW b, Lists(a, table), Lists(b, table)
  PROVE  a = b
<1> DEFINE Entries == [id : Nat, place : Places]
<1>0. a \in Seq(Entries) /\ b \in Seq(Entries)
  BY DEF Lists
<1> HIDE DEF Entries
<1>1. DOMAIN a \subseteq Int /\ DOMAIN b \subseteq Int
  BY <1>0
<1>2. ASSUME NEW i \in DOMAIN a PROVE i \in DOMAIN b /\ a[i] = b[i]
  <2>1. PICK w \in DOMAIN table : table[w].seq = i - 1
    BY DEF Lists
  <2>2. table[w].seq + 1 = i
    BY <1>1, <2>1
  <2> QED
    BY <2>2 DEF Lists
<1>3. ASSUME NEW i \in DOMAIN b PROVE i \in DOMAIN a
  <2>1. PICK w \in DOMAIN table : table[w].seq = i - 1
    BY DEF Lists
  <2>2. table[w].seq + 1 = i
    BY <1>1, <2>1
  <2> QED
    BY <2>2 DEF Lists
<1>4. DOMAIN a = DOMAIN b
  BY <1>2, <1>3
<1> QED
  BY <1>0, <1>2, <1>4

(* A contiguous numbering uses every number up to its greatest. *)
LEMMA NumbersInUse ==
  ASSUME NEW s, Contiguous(s), NEW top \in DOMAIN s, \A w \in DOMAIN s : s[w] <= s[top],
         NEW k \in 0 .. s[top]
  PROVE  \E w \in DOMAIN s : s[w] = k
<1> SUFFICES ASSUME \A w \in DOMAIN s : s[w] # k PROVE FALSE
  OBVIOUS
<1> DEFINE above == {j \in {s[w] : w \in DOMAIN s} : j > k}
<1>1. above \in SUBSET Nat /\ s[top] \in above
  BY DEF Contiguous
<1>2. PICK j \in above : \A i \in above : j <= i
  <2> HIDE DEF above
  <2> QED
    BY <1>1, LeastMember
<1>3. PICK w \in DOMAIN s : s[w] = j /\ j > k /\ j \in Nat
  BY <1>1, <1>2
<1>4. PICK v \in DOMAIN s : s[v] = j - 1
  BY <1>3 DEF Contiguous
<1>5. j - 1 \in above
  BY <1>3, <1>4
<1> QED
  BY <1>2, <1>3, <1>5

(* There are as many rows as numbers. *)
LEMMA CountOfNumbers ==
  ASSUME NEW s, Contiguous(s), NEW top \in DOMAIN s, \A w \in DOMAIN s : s[w] <= s[top]
  PROVE  Cardinality(DOMAIN s) = s[top] + 1
<1> DEFINE S == DOMAIN s
           T == 0 .. s[top]
           f == [w \in S |-> s[w]]
<1>1. s[top] \in Nat
  BY DEF Contiguous
<1>2. IsFiniteSet(T) /\ Cardinality(T) = s[top] + 1
  BY <1>1, FS_Interval
<1>3. f \in [S -> T]
  BY <1>1 DEF Contiguous
<1>4. f \in Injection(S, T)
  BY <1>3 DEF Contiguous, Injection, IsInjective
<1>5. f \in Surjection(S, T)
  <2>1. \A k \in T : \E w \in S : f[w] = k
    BY NumbersInUse
  <2> QED
    BY <1>3, <2>1 DEF Surjection
<1> HIDE DEF S, T, f
<1>6. Cardinality(S) = Cardinality(T)
  BY <1>2, <1>4, <1>5, FS_Injection
<1> QED
  BY <1>2, <1>6 DEF S

(* Read back in the order of their numbers, the rows are listed. *)
LEMMA InOrderLists ==
  ASSUME NEW table, RowTable(table), Contiguous(Seqs(table)),
         NEW n \in Nat, \A w \in DOMAIN table : table[w].seq < n
  PROVE  Lists(InOrder(table), table)
<1> DEFINE at(i) == CHOOSE w \in DOMAIN table : table[w].seq = i - 1
           size == Cardinality(DOMAIN table)
           Entries == [id : Nat, place : Places]
<1>1. DOMAIN Seqs(table) = DOMAIN table /\ \A w \in DOMAIN table : Seqs(table)[w] = table[w].seq
  BY DEF Seqs
<1>2. InOrder(table) = [i \in 1 .. size |-> [id |-> at(i), place |-> table[at(i)].place]]
  BY DEF InOrder
<1>3. CASE DOMAIN table = {}
  <2>1. size = 0
    BY <1>3, FS_EmptySet
  <2> HIDE DEF size
  <2>2. InOrder(table) = << >>
    BY <1>2, <2>1
  <2> QED
    BY <1>3, <2>2 DEF Lists
<1>4. CASE DOMAIN table # {}
  <2>1. PICK top \in DOMAIN table : \A w \in DOMAIN table : table[w].seq <= table[top].seq
    <3> DEFINE used == {table[w].seq : w \in DOMAIN table}
    <3>1. used \in SUBSET Nat /\ used # {} /\ \A k \in used : k <= n
      BY <1>4 DEF RowTable
    <3>2. PICK m \in used : \A k \in used : k <= m
      <4> HIDE DEF used
      <4> QED
        BY <3>1, GreatestMember
    <3> QED
      BY <3>2
  <2>2. size = table[top].seq + 1 /\ table[top].seq \in Nat
    BY <1>1, <2>1, CountOfNumbers DEF RowTable
  <2>3. ASSUME NEW i \in 1 .. size PROVE \E w \in DOMAIN table : table[w].seq = i - 1
    <3>1. i - 1 \in 0 .. table[top].seq
      BY <2>2, <2>3
    <3> QED
      BY <1>1, <2>1, <3>1, NumbersInUse
  <2>4. \A i \in 1 .. size : at(i) \in DOMAIN table /\ table[at(i)].seq = i - 1
    BY <2>3
  <2>5. \A a, b \in DOMAIN table : table[a].seq = table[b].seq => a = b
    BY <1>1 DEF Contiguous
  <2> HIDE DEF size, at
  <2>6. \A i \in 1 .. size :
          [id |-> at(i), place |-> table[at(i)].place] \in Entries
    BY <2>4 DEF RowTable
  <2>7. InOrder(table) \in Seq(Entries) /\ DOMAIN InOrder(table) = 1 .. size
    <3> HIDE DEF Entries
    <3>1. InOrder(table) \in [1 .. size -> Entries] /\ size \in Nat
      BY <1>2, <2>2, <2>6
    <3> QED
      BY <3>1
  <2>8. ASSUME NEW w \in DOMAIN table
        PROVE  /\ table[w].seq + 1 \in DOMAIN InOrder(table)
               /\ InOrder(table)[table[w].seq + 1] = Entry(table, w)
    <3>1. table[w].seq + 1 \in 1 .. size /\ table[w].seq \in Nat
      BY <2>1, <2>2 DEF RowTable
    <3>2. at(table[w].seq + 1) = w
      BY <2>4, <2>5, <3>1
    <3> QED
      BY <1>2, <2>7, <3>1, <3>2 DEF Entry
  <2> QED
    BY <2>3, <2>7, <2>8 DEF Lists
<1> QED
  BY <1>3, <1>4
-----------------------------------------------------------------------------
(* The mapping: what the tables show of the route *)

Shown ==
  /\ RowTable(rows) /\ Lists(Listed, rows)
  /\ DOMAIN templates = {} => ActiveVersion = 0
  /\ \A t \in DOMAIN templates : ActiveVersion = templates[t].version /\ ActiveVersion \in Nat \ {0}

LEMMA TablesShow == TablesInv => Shown
<1> SUFFICES ASSUME TablesInv PROVE Shown
  OBVIOUS
<1>1. /\ \A w \in DOMAIN rows : rows[w] \in Row /\ rows[w].seq < nextId
      /\ DOMAIN rows \subseteq 0 .. nextId - 1 /\ nextId \in Nat /\ Contiguous(Seqs(rows))
  BY DEF TablesInv, TablesTyped, Numbered
<1>2. RowTable(rows)
  BY <1>1 DEF RowTable, Row
<1>3. {w \in DOMAIN rows : rows[w].template \in Active} = DOMAIN rows
  BY <1>1 DEF Row, Active, TablesInv, OneTemplate
<1>4. Listed = InOrder(rows)
  BY <1>3 DEF Listed, InOrder
<1>5. Lists(Listed, rows)
  BY <1>1, <1>2, <1>4, InOrderLists
<1>6. DOMAIN templates = {} => ActiveVersion = 0
  BY DEF ActiveVersion, Active
<1>7. ASSUME NEW t \in DOMAIN templates
      PROVE  ActiveVersion = templates[t].version /\ ActiveVersion \in Nat \ {0}
  <2>1. Active = {t}
    BY DEF Active, TablesInv, OneTemplate
  <2>2. ActiveVersion = templates[t].version
    BY <2>1 DEF ActiveVersion
  <2>3. templates[t] \in [active : BOOLEAN, version : Nat \ {0}]
    BY DEF TablesInv, TablesTyped
  <2> QED
    BY <2>2, <2>3
<1> QED
  BY <1>2, <1>5, <1>6, <1>7 DEF Shown

LEMMA TablesShowNext == TablesInv' => Shown'
BY TablesShow, PTL

(* The list after a step is the one that lists the rows after it. *)
LEMMA ListBecomes ==
  ASSUME TablesInv', NEW list, Lists(list, rows')
  PROVE  Listed' = list
<1>1. RowTable(rows') /\ Lists(Listed', rows')
  BY TablesShowNext DEF Shown
<1> QED
  BY <1>1, ListIsUnique

(* An edit raises the version of the route. *)
LEMMA VersionRises ==
  ASSUME TablesInv, TablesInv', NEW t \in DOMAIN templates, Bump(t)
  PROVE  ActiveVersion' = ActiveVersion + 1 /\ ActiveVersion \in Nat \ {0}
<1>1. DOMAIN templates' = DOMAIN templates /\ templates'[t].version = templates[t].version + 1
  BY BumpKeeps
<1>2. ActiveVersion = templates[t].version /\ ActiveVersion \in Nat \ {0}
  BY TablesShow DEF Shown
<1>3. ActiveVersion' = templates'[t].version
  BY <1>1, TablesShowNext DEF Shown
<1> QED
  BY <1>1, <1>2, <1>3

LEMMA NothingShows ==
  UNCHANGED <<templates, rows, nextId>> => UNCHANGED Abstract!routeVars
BY DEF Abstract!routeVars, ActiveVersion, Active, Listed

-----------------------------------------------------------------------------
(* Each transaction is a step of Route *)

LEMMA CreationMaps ==
  ASSUME StoreInv, StoreInv', NEW h \in Handlers, CreateTemplate(h)
  PROVE  Abstract!CreateRoute \/ UNCHANGED Abstract!routeVars
<1>1. ASSUME NEW t \in TemplateIds \ DOMAIN templates, Active = {},
             templates' = Insert(templates, t, [active |-> TRUE, version |-> 1]),
             UNCHANGED <<rows, nextId>>
      PROVE  Abstract!CreateRoute
  <2>1. DOMAIN templates = {}
    BY <1>1 DEF Active, StoreInv, TablesInv, OneTemplate
  <2>2. t \in DOMAIN templates' /\ templates'[t].version = 1
    BY <1>1, <2>1 DEF Insert
  <2>3. ActiveVersion = 0 /\ ActiveVersion' = 1
    BY <2>1, <2>2, TablesShow, TablesShowNext DEF Shown, StoreInv
  <2>4. Lists(Listed, rows')
    BY <1>1, TablesShow DEF Shown, StoreInv
  <2>5. Listed' = Listed
    BY <2>4, ListBecomes DEF StoreInv
  <2> QED
    BY <1>1, <2>3, <2>5 DEF Abstract!CreateRoute
<1>2. UNCHANGED <<templates, rows, nextId>> => UNCHANGED Abstract!routeVars
  BY NothingShows
<1> QED
  BY <1>1, <1>2 DEF CreateTemplate, ActiveIndexAdmits

LEMMA AdditionMaps ==
  ASSUME TablesInv, TablesInv', NEW t \in DOMAIN templates, NEW req \in Request,
         req.kind = "add", AddWaypoint(t, req)
  PROVE  Abstract!AddWaypoint(req.place) /\ req.place \in Places
<1> DEFINE new == [template |-> t, seq |-> NextSeq(t), place |-> req.place]
           entry == [id |-> nextId, place |-> req.place]
           Entries == [id : Nat, place : Places]
<1>1. req.place \in Places
  BY DEF Request
<1>2. /\ NextSeq(t) \in Nat
      /\ \A w \in DOMAIN rows : rows[w].seq < NextSeq(t)
      /\ NextSeq(t) = 0 \/ \E w \in DOMAIN rows : rows[w].seq = NextSeq(t) - 1
  BY NextSeqFollows
<1>3. /\ nextId \in Nat /\ DOMAIN rows \subseteq 0 .. nextId - 1
      /\ nextId' = nextId + 1 /\ Bump(t)
      /\ DOMAIN rows' = DOMAIN rows \cup {nextId} /\ nextId \notin DOMAIN rows
      /\ rows'[nextId] = new
      /\ \A w \in DOMAIN rows : rows'[w] = rows[w]
  BY DEF TablesInv, TablesTyped, AddWaypoint, Insert
<1>4. RowTable(rows) /\ Lists(Listed, rows)
  BY TablesShow DEF Shown
<1>5. entry \in Entries /\ Listed \in Seq(Entries)
  BY <1>1, <1>3, <1>4 DEF Lists
<1>6. /\ \A w \in DOMAIN rows :
           rows[w].seq + 1 \in DOMAIN Listed /\ Listed[rows[w].seq + 1] = Entry(rows, w)
      /\ \A i \in DOMAIN Listed : \E w \in DOMAIN rows : rows[w].seq = i - 1
  BY <1>4 DEF Lists
<1> HIDE DEF Entries
<1>7. Len(Listed) \in Nat /\ DOMAIN Listed = 1 .. Len(Listed)
  BY <1>5
<1>8. Len(Listed) = NextSeq(t)
  <2>1. Len(Listed) >= NextSeq(t)
    BY <1>2, <1>6, <1>7
  <2>2. Len(Listed) = 0 \/ \E w \in DOMAIN rows : rows[w].seq = Len(Listed) - 1
    BY <1>6, <1>7
  <2> QED
    BY <1>2, <1>7, <2>1, <2>2
<1> DEFINE list == Append(Listed, entry)
<1>9. /\ list \in Seq(Entries) /\ DOMAIN list = 1 .. NextSeq(t) + 1
      /\ list[NextSeq(t) + 1] = entry
      /\ \A i \in 1 .. NextSeq(t) : list[i] = Listed[i]
  BY <1>5, <1>7, <1>8
<1>10. new.seq = NextSeq(t) /\ new.place = req.place
  OBVIOUS
<1> HIDE DEF list, new, entry
<1>11. ASSUME NEW w \in DOMAIN rows'
       PROVE  rows'[w].seq + 1 \in DOMAIN list /\ list[rows'[w].seq + 1] = Entry(rows', w)
  <2>1. CASE w = nextId
    BY <1>2, <1>3, <1>9, <1>10, <2>1 DEF Entry, entry
  <2>2. CASE w \in DOMAIN rows
    <3>1. rows[w].seq + 1 \in 1 .. NextSeq(t)
      BY <1>6, <1>7, <1>8, <2>2
    <3> QED
      BY <1>2, <1>3, <1>6, <1>9, <2>2, <3>1 DEF Entry
  <2> QED
    BY <1>3, <2>1, <2>2
<1>12. ASSUME NEW i \in DOMAIN list PROVE \E w \in DOMAIN rows' : rows'[w].seq = i - 1
  <2>1. CASE i = NextSeq(t) + 1
    BY <1>2, <1>3, <1>10, <2>1
  <2>2. CASE i \in 1 .. NextSeq(t)
    BY <1>3, <1>6, <1>7, <1>8, <2>2
  <2> QED
    BY <1>2, <1>9, <2>1, <2>2
<1>13. Lists(list, rows')
  BY <1>9, <1>11, <1>12 DEF Lists, Entries
<1>14. Listed' = Append(Listed, [id |-> nextId, place |-> req.place])
  BY <1>13, ListBecomes DEF list, entry
<1>15. ActiveVersion' = ActiveVersion + 1 /\ ActiveVersion \in Nat \ {0}
  BY <1>3, VersionRises
<1> QED
  BY <1>1, <1>3, <1>14, <1>15 DEF Abstract!AddWaypoint

LEMMA UpdateMaps ==
  ASSUME TablesInv, TablesInv', NEW t \in DOMAIN templates, NEW req \in Request,
         req.kind = "update", UpdateWaypoint(t, req)
  PROVE  \/ \E i \in DOMAIN Listed, p \in Places : Abstract!UpdateWaypoint(i, p)
         \/ UNCHANGED Abstract!routeVars
<1>1. CASE req.wp \in DOMAIN rows
  <2> DEFINE w0 == req.wp
             k == rows[w0].seq + 1
             Entries == [id : Nat, place : Places]
             changed == [Listed[k] EXCEPT !.place = req.place]
             list == [Listed EXCEPT ![k] = changed]
  <2>1. /\ req.place \in Places /\ Bump(t) /\ nextId' = nextId
        /\ rows' = [rows EXCEPT ![w0].place = req.place]
        /\ \A w \in DOMAIN rows : rows[w] \in Row
    BY <1>1 DEF UpdateWaypoint, Request, TablesInv, TablesTyped
  <2>2. RowTable(rows) /\ Lists(Listed, rows)
    BY TablesShow DEF Shown
  <2>3. /\ Listed \in Seq(Entries)
        /\ \A w \in DOMAIN rows :
             rows[w].seq + 1 \in DOMAIN Listed /\ Listed[rows[w].seq + 1] = Entry(rows, w)
        /\ \A i \in DOMAIN Listed : \E w \in DOMAIN rows : rows[w].seq = i - 1
    BY <2>2 DEF Lists
  <2>4. k \in DOMAIN Listed /\ Listed[k] = [id |-> w0, place |-> rows[w0].place] /\ w0 \in Nat
    BY <1>1, <2>2, <2>3 DEF Entry, RowTable
  <2>5. changed = [id |-> w0, place |-> req.place] /\ changed \in Entries
    BY <2>1, <2>4
  <2>6. /\ DOMAIN rows' = DOMAIN rows
        /\ \A w \in DOMAIN rows : rows'[w].seq = rows[w].seq
        /\ rows'[w0].place = req.place
        /\ \A w \in DOMAIN rows \ {w0} : rows'[w].place = rows[w].place
    <3> DEFINE new == [rows[w0] EXCEPT !.place = req.place]
    <3>1. new.seq = rows[w0].seq /\ new.place = req.place
      BY <1>1, <2>1 DEF Row
    <3>2. rows' = [rows EXCEPT ![w0] = new]
      BY <2>1
    <3> HIDE DEF new, w0
    <3> QED
      BY <1>1, <3>1, <3>2 DEF w0
  <2> HIDE DEF Entries, changed
  <2>7. list \in Seq(Entries) /\ DOMAIN list = DOMAIN Listed
    <3> HIDE DEF k
    <3>1. Listed \in [1 .. Len(Listed) -> Entries] /\ Len(Listed) \in Nat
      BY <2>3
    <3>2. list \in [1 .. Len(Listed) -> Entries]
      BY <2>5, <3>1
    <3> QED
      BY <3>1, <3>2
  <2>8. \A a, b \in DOMAIN rows : rows[a].seq = rows[b].seq => a = b
    BY DEF TablesInv, Numbered, Contiguous, Seqs
  <2>9. ASSUME NEW w \in DOMAIN rows'
        PROVE  rows'[w].seq + 1 \in DOMAIN list /\ list[rows'[w].seq + 1] = Entry(rows', w)
    <3>1. CASE w = w0
      BY <2>4, <2>5, <2>6, <2>7, <3>1 DEF Entry
    <3>2. CASE w # w0
      <4>1. rows[w].seq + 1 # k
        BY <1>1, <2>2, <2>6, <2>8, <3>2 DEF RowTable
      <4>2. list[rows[w].seq + 1] = Listed[rows[w].seq + 1]
        BY <2>3, <2>6, <4>1
      <4> QED
        BY <2>3, <2>6, <2>7, <3>2, <4>2 DEF Entry
    <3> QED
      BY <3>1, <3>2
  <2>10. \A i \in DOMAIN list : \E w \in DOMAIN rows' : rows'[w].seq = i - 1
    BY <2>3, <2>6, <2>7
  <2> HIDE DEF list
  <2>11. Listed' = list
    BY <2>7, <2>9, <2>10, ListBecomes DEF Lists, Entries
  <2>12. Listed' = [Listed EXCEPT ![k].place = req.place]
    BY <2>11 DEF list, changed
  <2>13. ActiveVersion' = ActiveVersion + 1
    BY <2>1, VersionRises
  <2> HIDE DEF k
  <2>14. Abstract!UpdateWaypoint(k, req.place)
    BY <2>1, <2>4, <2>12, <2>13 DEF Abstract!UpdateWaypoint
  <2> QED
    BY <2>1, <2>4, <2>14
<1>2. CASE req.wp \notin DOMAIN rows
  BY <1>2, NothingShows DEF UpdateWaypoint, Unchanged
<1> QED
  BY <1>1, <1>2

(* Removing an element moves those after it down by one. *)
LEMMA AfterRemoval ==
  ASSUME NEW S, NEW s \in Seq(S), NEW i \in DOMAIN s
  PROVE  LET r == Abstract!RemoveAt(s, i)
         IN  /\ r \in Seq(S) /\ Len(r) = Len(s) - 1
             /\ \A k \in 1 .. Len(s) - 1 : r[k] = IF k < i THEN s[k] ELSE s[k + 1]
<1> DEFINE before == SubSeq(s, 1, i - 1)
           after == SubSeq(s, i + 1, Len(s))
<1>1. i \in 1 .. Len(s) /\ Len(s) \in Nat
  OBVIOUS
<1>2. /\ before \in Seq(S) /\ Len(before) = i - 1
      /\ \A k \in 1 .. i - 1 : before[k] = s[k]
  BY <1>1
<1>3. /\ after \in Seq(S) /\ Len(after) = Len(s) - i
      /\ \A k \in 1 .. Len(s) - i : after[k] = s[k + i]
  BY <1>1
<1>4. Abstract!RemoveAt(s, i) = before \o after
  BY DEF Abstract!RemoveAt
<1> HIDE DEF before, after
<1>5. /\ before \o after \in Seq(S) /\ Len(before \o after) = Len(s) - 1
      /\ \A k \in 1 .. Len(s) - 1 :
           (before \o after)[k] = IF k < i THEN before[k] ELSE after[k - (i - 1)]
  BY <1>1, <1>2, <1>3, SMTT(30)
<1>6. ASSUME NEW k \in 1 .. Len(s) - 1
      PROVE  (before \o after)[k] = IF k < i THEN s[k] ELSE s[k + 1]
  <2>1. CASE k < i
    BY <1>1, <1>2, <1>5, <2>1
  <2>2. CASE ~ (k < i)
    <3>1. k - (i - 1) \in 1 .. Len(s) - i /\ k - (i - 1) + i = k + 1
      BY <1>1, <2>2
    <3> QED
      BY <1>3, <1>5, <2>2, <3>1
  <2> QED
    BY <2>1, <2>2
<1> QED
  BY <1>4, <1>5, <1>6

LEMMA DeletionMaps ==
  ASSUME TablesInv, TablesInv', NEW t \in DOMAIN templates, NEW req \in Request,
         req.kind = "delete", DeleteWaypoint(t, req)
  PROVE  \/ \E i \in DOMAIN Listed : Abstract!DeleteWaypoint(i)
         \/ UNCHANGED Abstract!routeVars
<1> DEFINE d == req.wp
           left == DeleteRows(rows, {d})
           later == Later(t, rows[d].seq)
<1>1. ASSUME d \in RowsOf(t), rows' = Shifted(left, later), Bump(t), UNCHANGED nextId
      PROVE  \E i \in DOMAIN Listed : Abstract!DeleteWaypoint(i)
  <2> DEFINE k == rows[d].seq + 1
             Entries == [id : Nat, place : Places]
             list == Abstract!RemoveAt(Listed, k)
  <2>1. /\ \A w \in DOMAIN rows : rows[w] \in Row
        /\ d \in DOMAIN rows /\ RowsOf(t) = DOMAIN rows
        /\ \A a, b \in DOMAIN rows : rows[a].seq = rows[b].seq => a = b
    BY <1>1, AllRows DEF TablesInv, TablesTyped, Numbered, Contiguous, Seqs
  <2>2. DOMAIN left = DOMAIN rows \ {d} /\ \A w \in DOMAIN left : left[w] = rows[w]
    BY DEF DeleteRows
  <2>3. \A w \in DOMAIN rows : w \in later <=> rows[w].seq > rows[d].seq
    BY <2>1 DEF Later
  <2> HIDE DEF left, later, d
  <2>4. DOMAIN rows' = DOMAIN rows \ {d}
    BY <1>1, <2>2 DEF Shifted
  <2>5. ASSUME NEW w \in DOMAIN rows'
        PROVE  /\ rows'[w].place = rows[w].place
               /\ rows'[w].seq = IF rows[w].seq > rows[d].seq THEN rows[w].seq - 1
                                 ELSE rows[w].seq
    <3>1. /\ rows[w] \in Row
          /\ rows'[w] = IF w \in later THEN [rows[w] EXCEPT !.seq = rows[w].seq - 1] ELSE rows[w]
      BY <1>1, <2>1, <2>2, <2>4 DEF Shifted
    <3> QED
      BY <2>3, <2>4, <3>1 DEF Row
  <2>6. RowTable(rows) /\ Lists(Listed, rows)
    BY TablesShow DEF Shown
  <2>7. /\ Listed \in Seq(Entries) /\ k \in DOMAIN Listed
        /\ \A w \in DOMAIN rows :
             /\ rows[w].seq \in Nat
             /\ rows[w].seq + 1 \in DOMAIN Listed /\ Listed[rows[w].seq + 1] = Entry(rows, w)
        /\ \A i \in DOMAIN Listed : \E w \in DOMAIN rows : rows[w].seq = i - 1
    BY <2>1, <2>6 DEF Lists, RowTable
  <2> HIDE DEF Entries
  <2>8. Len(Listed) \in Nat /\ DOMAIN Listed = 1 .. Len(Listed)
    BY <2>7
  <2>9. /\ list \in Seq(Entries) /\ DOMAIN list = 1 .. Len(Listed) - 1
        /\ \A i \in 1 .. Len(Listed) - 1 : list[i] = IF i < k THEN Listed[i] ELSE Listed[i + 1]
    <3> HIDE DEF k, list
    <3>1. /\ list \in Seq(Entries) /\ Len(list) = Len(Listed) - 1
          /\ \A i \in 1 .. Len(Listed) - 1 : list[i] = IF i < k THEN Listed[i] ELSE Listed[i + 1]
      BY <2>7, AfterRemoval DEF list
    <3> QED
      BY <3>1
  <2> HIDE DEF list
  <2>10. ASSUME NEW w \in DOMAIN rows'
         PROVE  rows'[w].seq + 1 \in DOMAIN list /\ list[rows'[w].seq + 1] = Entry(rows', w)
    <3>1. /\ w \in DOMAIN rows /\ rows[w].seq # rows[d].seq
          /\ rows[w].seq \in Nat /\ rows[d].seq \in Nat
          /\ rows[w].seq + 1 \in 1 .. Len(Listed) /\ rows[d].seq + 1 \in 1 .. Len(Listed)
      BY <2>1, <2>4, <2>7, <2>8
    <3>2. Listed[rows[w].seq + 1] = Entry(rows', w)
      BY <2>5, <2>7, <3>1 DEF Entry
    <3>3. CASE rows[w].seq > rows[d].seq
      <4>1. rows'[w].seq + 1 = rows[w].seq
        BY <2>5, <3>1, <3>3
      <4>2. rows[w].seq \in 1 .. Len(Listed) - 1 /\ ~ (rows[w].seq < k)
        BY <2>8, <3>1, <3>3
      <4> QED
        BY <2>9, <3>2, <4>1, <4>2
    <3>4. CASE rows[w].seq < rows[d].seq
      <4>1. rows'[w].seq = rows[w].seq
        BY <2>5, <3>1, <3>4
      <4>2. rows[w].seq + 1 \in 1 .. Len(Listed) - 1 /\ rows[w].seq + 1 < k
        BY <2>8, <3>1, <3>4
      <4> QED
        BY <2>9, <3>2, <4>1, <4>2
    <3> QED
      BY <3>1, <3>3, <3>4
  <2>11. ASSUME NEW i \in DOMAIN list PROVE \E w \in DOMAIN rows' : rows'[w].seq = i - 1
    <3>1. i \in 1 .. Len(Listed) - 1 /\ i \in Int /\ k \in Int /\ rows[d].seq \in Nat
      BY <2>1, <2>7, <2>9, SMTT(30)
    <3>2. CASE i < k
      <4>1. PICK w \in DOMAIN rows : rows[w].seq = i - 1
        BY <2>7, <2>8, <3>1
      <4> QED
        BY <2>4, <2>5, <3>1, <3>2, <4>1
    <3>3. CASE ~ (i < k)
      <4> DEFINE j == i + 1
      <4>1. j \in DOMAIN Listed /\ j - 1 = i
        BY <2>8, <3>1
      <4> HIDE DEF j
      <4>2. PICK w \in DOMAIN rows : rows[w].seq = j - 1
        BY <2>7, <4>1
      <4>3. rows[w].seq > rows[d].seq /\ rows[w].seq = i
        BY <3>1, <3>3, <4>1, <4>2
      <4>4. w \in DOMAIN rows'
        BY <2>4, <3>1, <4>3
      <4> QED
        BY <2>5, <4>3, <4>4
    <3> QED
      BY <3>2, <3>3
  <2>12. Lists(list, rows')
    BY <2>9, <2>10, <2>11 DEF Lists, Entries
  <2>13. Listed' = Abstract!RemoveAt(Listed, k)
    BY <2>12, ListBecomes DEF list
  <2>14. ActiveVersion' = ActiveVersion + 1
    BY <1>1, VersionRises
  <2> HIDE DEF k
  <2> QED
    BY <1>1, <2>7, <2>13, <2>14 DEF Abstract!DeleteWaypoint
<1>2. Unchanged => UNCHANGED Abstract!routeVars
  BY NothingShows DEF Unchanged
<1> QED
  BY <1>1, <1>2 DEF DeleteWaypoint

LEMMA MoveMaps ==
  ASSUME TablesInv, TablesInv', NEW t \in DOMAIN templates, NEW req \in Request,
         req.kind = "move", MoveWaypoint(t, req)
  PROVE  \/ \E i \in DOMAIN Listed, delta \in {-1, 1} : Abstract!MoveWaypoint(i, delta)
         \/ UNCHANGED Abstract!routeVars
<1> DEFINE a == req.wp
           neighbours == {w \in RowsOf(t) : rows[w].seq = rows[a].seq + req.delta}
           b == CHOOSE w \in neighbours : TRUE
           states == SwapStates(a, b, rows[a].seq, req.delta)
<1>1. ASSUME a \in RowsOf(t), neighbours # {}, rows' = states[Len(states)], Bump(t),
             UNCHANGED nextId
      PROVE  \E i \in DOMAIN Listed : Abstract!MoveWaypoint(i, req.delta)
  <2> DEFINE i == rows[a].seq + 1
             j == i + req.delta
             Entries == [id : Nat, place : Places]
             list == [Listed EXCEPT ![i] = Listed[j], ![j] = Listed[i]]
  <2>1. /\ \A w \in DOMAIN rows : rows[w] \in Row
        /\ a \in DOMAIN rows /\ RowsOf(t) = DOMAIN rows
        /\ req.delta \in {-1, 1}
        /\ \A c, d \in DOMAIN rows : rows[c].seq = rows[d].seq => c = d
    <3>1. RowsOf(t) = DOMAIN rows /\ a \in RowsOf(t)
      BY <1>1, AllRows
    <3>2. req.delta \in {-1, 1}
      BY DEF Request
    <3>3. \A w \in DOMAIN rows : rows[w] \in Row
      BY DEF TablesInv, TablesTyped
    <3>4. \A c, d \in DOMAIN rows : rows[c].seq = rows[d].seq => c = d
      BY DEF TablesInv, Numbered, Contiguous, Seqs
    <3> QED
      BY <3>1, <3>2, <3>3, <3>4
  <2>2. b \in DOMAIN rows /\ rows[b].seq = rows[a].seq + req.delta
    BY <1>1, <2>1
  <2> HIDE DEF b, neighbours, a
  <2>3. \A w \in DOMAIN rows : rows[w].seq \in Nat
    BY <2>1 DEF Row
  <2>4. a # b /\ rows[a].seq # rows[b].seq
    BY <2>1, <2>2, <2>3
  <2>5. /\ Len(states) = 3 /\ DOMAIN states[3] = DOMAIN rows
        /\ \A w \in DOMAIN rows :
             /\ states[3][w].seq = IF w = a THEN rows[b].seq
                                   ELSE IF w = b THEN rows[a].seq ELSE rows[w].seq
             /\ states[3][w].place = rows[w].place
    <3> HIDE DEF states
    <3>1. 3 \in 1 .. 3
      OBVIOUS
    <3> QED
      BY <2>1, <2>2, <2>4, <3>1, SwapStatesTyped DEF states
  <2> HIDE DEF states
  <2>6. /\ DOMAIN rows' = DOMAIN rows
        /\ \A w \in DOMAIN rows :
             /\ rows'[w].seq = IF w = a THEN rows[b].seq
                               ELSE IF w = b THEN rows[a].seq ELSE rows[w].seq
             /\ rows'[w].place = rows[w].place
    BY <1>1, <2>5
  <2>7. RowTable(rows) /\ Lists(Listed, rows)
    BY TablesShow DEF Shown
  <2>8. /\ Listed \in Seq(Entries)
        /\ \A w \in DOMAIN rows :
             rows[w].seq + 1 \in DOMAIN Listed /\ Listed[rows[w].seq + 1] = Entry(rows, w)
        /\ \A k \in DOMAIN Listed : \E w \in DOMAIN rows : rows[w].seq = k - 1
    BY <2>7 DEF Lists
  <2>9. j = rows[b].seq + 1 /\ i \in DOMAIN Listed /\ j \in DOMAIN Listed /\ i # j
    <3>1. j = rows[b].seq + 1
      BY <2>1, <2>2, <2>3
    <3>2. i # j
      BY <2>1, <2>3
    <3> HIDE DEF i, j
    <3> QED
      BY <2>1, <2>2, <2>8, <3>1, <3>2 DEF i
  <2> HIDE DEF Entries
  <2>10. list \in Seq(Entries) /\ DOMAIN list = DOMAIN Listed
    <3> HIDE DEF i, j
    <3>1. Listed \in [1 .. Len(Listed) -> Entries] /\ Len(Listed) \in Nat
      BY <2>8
    <3>2. list \in [1 .. Len(Listed) -> Entries] /\ DOMAIN Listed = 1 .. Len(Listed)
      BY <2>9, <3>1
    <3> HIDE DEF list
    <3> QED
      BY <3>1, <3>2
  <2>11. /\ list[i] = Listed[j] /\ list[j] = Listed[i]
         /\ \A k \in DOMAIN Listed \ {i, j} : list[k] = Listed[k]
    <3> HIDE DEF i, j
    <3> QED
      BY <2>9
  <2> HIDE DEF j, list
  <2>12. ASSUME NEW w \in DOMAIN rows'
         PROVE  rows'[w].seq + 1 \in DOMAIN list /\ list[rows'[w].seq + 1] = Entry(rows', w)
    <3>1. w \in DOMAIN rows /\ Entry(rows', w) = Entry(rows, w)
      BY <2>6 DEF Entry
    <3>2. CASE w = a
      BY <2>1, <2>2, <2>6, <2>8, <2>9, <2>10, <2>11, <3>1, <3>2
    <3>3. CASE w = b
      BY <2>2, <2>4, <2>6, <2>8, <2>9, <2>10, <2>11, <3>1, <3>3
    <3>4. CASE w # a /\ w # b
      <4>1. rows[w].seq # rows[a].seq /\ rows[w].seq # rows[b].seq
        BY <2>1, <2>2, <3>1, <3>4
      <4>2. rows[w].seq + 1 \in DOMAIN Listed \ {i, j}
        <5>1. rows[w].seq + 1 # i /\ rows[w].seq + 1 # j
          BY <2>1, <2>2, <2>3, <2>9, <3>1, <4>1
        <5> HIDE DEF i
        <5> QED
          BY <2>8, <3>1, <5>1
      <4> QED
        BY <2>6, <2>8, <2>10, <2>11, <3>1, <3>4, <4>2
    <3> QED
      BY <3>2, <3>3, <3>4
  <2>13. ASSUME NEW k \in DOMAIN list PROVE \E w \in DOMAIN rows' : rows'[w].seq = k - 1
    <3>1. PICK w \in DOMAIN rows : rows[w].seq = k - 1
      BY <2>8, <2>10
    <3> QED
      BY <2>1, <2>2, <2>4, <2>6, <3>1
  <2>14. Lists(list, rows')
    BY <2>10, <2>12, <2>13 DEF Lists, Entries
  <2>15. Listed' = [Listed EXCEPT ![i] = Listed[i + req.delta], ![i + req.delta] = Listed[i]]
    BY <2>14, ListBecomes DEF list, j
  <2>16. ActiveVersion' = ActiveVersion + 1
    BY <1>1, VersionRises
  <2>17. i + req.delta \in DOMAIN Listed
    BY <2>9 DEF j
  <2> HIDE DEF i
  <2>18. Abstract!MoveWaypoint(i, req.delta)
    BY <1>1, <2>9, <2>15, <2>16, <2>17 DEF Abstract!MoveWaypoint
  <2> QED
    BY <2>9, <2>18
<1>2. Unchanged => UNCHANGED Abstract!routeVars
  BY NothingShows DEF Unchanged
<1>3. req.delta \in {-1, 1}
  BY DEF Request
<1> QED
  BY <1>1, <1>2, <1>3 DEF MoveWaypoint

LEMMA ReplacementMaps ==
  ASSUME StoreInv, StoreInv', NEW places \in Backups, ReplaceRoute(places)
  PROVE  Abstract!ReplaceRoute(places)
<1> DEFINE list == [i \in DOMAIN places |-> [id |-> nextId + i - 1, place |-> places[i]]]
           Entries == [id : Nat, place : Places]
<1>1. /\ TablesInv /\ TablesInv' /\ nextId \in Nat /\ nextId' = nextId + Len(places)
      /\ places \in Seq(Places) /\ Len(places) \in Nat /\ DOMAIN places = 1 .. Len(places)
  BY RouteStoreAssumptions DEF StoreInv, TablesInv, TablesTyped, ReplaceRoute
<1>2. PICK t : \/ /\ Active = {} /\ t \in TemplateIds \ DOMAIN templates
                 /\ templates' = Insert(templates, t, [active |-> TRUE, version |-> 2])
                 /\ rows' = InsertRows(rows, Restored(places, t))
              \/ /\ t \in Active /\ Bump(t)
                 /\ rows' = InsertRows(DeleteRows(rows, RowsOf(t)), Restored(places, t))
  BY DEF ReplaceRoute
<1>3. ActiveVersion' = IF ActiveVersion = 0 THEN 2 ELSE ActiveVersion + 1
  <2>1. CASE Active = {} /\ templates' = Insert(templates, t, [active |-> TRUE, version |-> 2])
    <3>1. DOMAIN templates = {}
      BY <1>1, <2>1 DEF Active, TablesInv, OneTemplate
    <3>2. t \in DOMAIN templates' /\ templates'[t].version = 2
      BY <2>1 DEF Insert
    <3> QED
      BY <1>1, <3>1, <3>2, TablesShow, TablesShowNext DEF Shown
  <2>2. CASE t \in Active /\ Bump(t)
    <3>1. t \in DOMAIN templates
      BY <2>2 DEF Active
    <3>2. ActiveVersion' = ActiveVersion + 1 /\ ActiveVersion \in Nat \ {0}
      BY <1>1, <2>2, <3>1, VersionRises
    <3> QED
      BY <3>2
  <2> QED
    BY <1>2, <2>1, <2>2
<1>4. rows' = Restored(places, t)
  <2>1. DOMAIN rows' = DOMAIN Restored(places, t)
        /\ \A w \in DOMAIN rows' : rows'[w] = Restored(places, t)[w]
    <3>1. CASE Active = {} /\ rows' = InsertRows(rows, Restored(places, t))
      <4>1. DOMAIN rows = {}
        BY <1>1, <3>1 DEF TablesInv, TablesTyped, Row, Active, OneTemplate
      <4> QED
        BY <3>1, <4>1 DEF InsertRows
    <3>2. CASE t \in Active /\ rows' = InsertRows(DeleteRows(rows, RowsOf(t)), Restored(places, t))
      <4>1. RowsOf(t) = DOMAIN rows
        BY <1>1, <3>2, AllRows DEF Active
      <4>2. DOMAIN DeleteRows(rows, RowsOf(t)) = {}
        BY <4>1 DEF DeleteRows
      <4> QED
        BY <3>2, <4>2 DEF InsertRows
    <3> QED
      BY <1>2, <3>1, <3>2
  <2>2. rows' = [w \in DOMAIN rows' |-> rows'[w]]
    BY <1>2 DEF InsertRows
  <2> QED
    BY <2>1, <2>2 DEF Restored
<1>5. /\ DOMAIN rows' = nextId .. nextId + Len(places) - 1
      /\ \A w \in DOMAIN rows' :
           rows'[w].seq = w - nextId /\ rows'[w].place = places[w - nextId + 1]
  BY <1>4 DEF Restored
<1>6. list \in Seq(Entries)
  <2>1. \A i \in 1 .. Len(places) : [id |-> nextId + i - 1, place |-> places[i]] \in Entries
    BY <1>1
  <2> HIDE DEF Entries
  <2>2. list \in [1 .. Len(places) -> Entries]
    BY <1>1, <2>1
  <2> QED
    BY <1>1, <2>2
<1>7. ASSUME NEW w \in DOMAIN rows'
      PROVE  rows'[w].seq + 1 \in DOMAIN list /\ list[rows'[w].seq + 1] = Entry(rows', w)
  <2>1. w - nextId + 1 \in DOMAIN places /\ nextId + (w - nextId + 1) - 1 = w
    BY <1>1, <1>5
  <2> QED
    BY <1>5, <2>1 DEF Entry
<1>8. ASSUME NEW i \in DOMAIN list PROVE \E w \in DOMAIN rows' : rows'[w].seq = i - 1
  <2> DEFINE w == nextId + i - 1
  <2>1. w \in DOMAIN rows' /\ w - nextId = i - 1
    BY <1>1, <1>5
  <2> HIDE DEF w
  <2> QED
    BY <1>5, <2>1
<1>9. Lists(list, rows')
  BY <1>6, <1>7, <1>8 DEF Lists
<1>10. Listed' = list
  BY <1>1, <1>9, ListBecomes
<1> QED
  BY <1>1, <1>3, <1>10 DEF Abstract!ReplaceRoute

-----------------------------------------------------------------------------
(* The theorem *)

LEMMA ApplyMaps ==
  ASSUME StoreInv, StoreInv', NEW h \in Handlers, Apply(h)
  PROVE  Abstract!EditRoute \/ UNCHANGED Abstract!routeVars
<1> DEFINE t == handler[h].tmpl
           req == handler[h].req
<1>1. TablesInv /\ TablesInv' /\ t \in DOMAIN templates /\ req \in Request
  BY DEF StoreInv, HandlersInv, Slot, Apply, Idle
<1>2. req.kind \in {"add", "update", "delete", "move"}
  BY <1>1 DEF Request
<1>3. /\ req.kind = "add" => AddWaypoint(t, req)
      /\ req.kind = "update" => UpdateWaypoint(t, req)
      /\ req.kind = "delete" => DeleteWaypoint(t, req)
      /\ req.kind = "move" => MoveWaypoint(t, req)
  BY <1>2 DEF Apply
<1> HIDE DEF t, req
<1>4. CASE req.kind = "add"
  BY <1>1, <1>3, <1>4, AdditionMaps DEF Abstract!EditRoute
<1>5. CASE req.kind = "update"
  BY <1>1, <1>3, <1>5, UpdateMaps DEF Abstract!EditRoute
<1>6. CASE req.kind = "delete"
  BY <1>1, <1>3, <1>6, DeletionMaps DEF Abstract!EditRoute
<1>7. CASE req.kind = "move"
  BY <1>1, <1>3, <1>7, MoveMaps DEF Abstract!EditRoute
<1> QED
  BY <1>2, <1>4, <1>5, <1>6, <1>7

LEMMA StoreStepMaps ==
  ASSUME StoreInv, StoreInv', [Next]_vars
  PROVE  [Abstract!RouteNext]_(Abstract!routeVars)
<1>1. ASSUME NEW h \in Handlers, Receive(h) \/ ReadActive(h) \/ Abandon(h)
      PROVE  UNCHANGED Abstract!routeVars
  BY <1>1, NothingShows DEF Receive, ReadActive, Abandon, Unchanged
<1>2. ASSUME NEW h \in Handlers, CreateTemplate(h)
      PROVE  Abstract!CreateRoute \/ UNCHANGED Abstract!routeVars
  BY <1>2, CreationMaps
<1>3. ASSUME NEW h \in Handlers, Apply(h)
      PROVE  Abstract!EditRoute \/ UNCHANGED Abstract!routeVars
  BY <1>3, ApplyMaps
<1>4. ASSUME NEW places \in Backups, ReplaceRoute(places) PROVE Abstract!EditRoute
  BY <1>4, ReplacementMaps DEF Abstract!EditRoute
<1>5. UNCHANGED vars => UNCHANGED Abstract!routeVars
  BY NothingShows DEF vars
<1> QED
  BY <1>1, <1>2, <1>3, <1>4, <1>5 DEF Next, Abstract!RouteNext

LEMMA StoreStartMaps == Init => Abstract!RouteInit
<1> SUFFICES ASSUME Init PROVE Abstract!RouteInit
  OBVIOUS
<1>1. TablesInv /\ DOMAIN templates = {} /\ DOMAIN rows = {} /\ nextId = 0
  BY StoreStart DEF StoreInv, Init
<1>2. ActiveVersion = 0
  BY <1>1, TablesShow DEF Shown
<1>3. Lists(<< >>, rows)
  BY <1>1 DEF Lists
<1>4. RowTable(rows) /\ Lists(Listed, rows)
  BY <1>1, TablesShow DEF Shown
<1>5. Listed = << >>
  BY <1>3, <1>4, ListIsUnique
<1> QED
  BY <1>1, <1>2, <1>5 DEF Abstract!RouteInit

(***************************************************************************)
(* The tables and the racing handlers implement the route the rest of the  *)
(* tracker relies on: a committed transaction of templates.go is one edit  *)
(* of the list and raises the version, and nothing else changes either.    *)
(***************************************************************************)
THEOREM TablesImplementRoute == Spec => ImplementsRoute
<1>1. StoreInv /\ StoreInv' /\ [Next]_vars => [Abstract!RouteNext]_(Abstract!routeVars)
  BY StoreStepMaps
<1> QED
  BY <1>1, StoreStartMaps, StoreAlways, PTL DEF Spec, ImplementsRoute, Abstract!RouteSpec
=============================================================================

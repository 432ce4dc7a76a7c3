------------------------------ MODULE Inventory ------------------------------
(***************************************************************************)
(* What the manager may read of a home: snapshots (collector.py) and       *)
(* answers (cloud_link.py), with the household's names replaced by ids on  *)
(* the way out and put back on the way in (privacy.py), and the registry   *)
(* it pages through (registry_cmds.py, registry_paging.py) to keep a copy  *)
(* that the digest in every snapshot tells it to renew.  The registry and  *)
(* the household are Home Assistant's and external, and so is the manager. *)
(***************************************************************************)
EXTENDS Integers, FiniteSets

CONSTANTS Names,        \* the names people have in this home
          Generic,      \* the names that are ordinary words, never hidden
          Others,       \* texts that name nobody
          EntityIds,    \* entities, numbers in the order of domain and id
          AreaIds,      \* rooms; 0 is none
          Sections,     \* parts of a snapshot, each read in one go
          MaxPage,      \* rows of a page, at most, and where no number is asked
          DefaultPage,
          MaxChanges,   \* bound: what the household changes
          MaxOrders     \* bound: commands that change the home

ASSUME InventoryAssumption ==
  /\ Generic \subseteq Names /\ EntityIds \subseteq Nat /\ IsFiniteSet(EntityIds)
  /\ AreaIds \subseteq Nat \ {0} /\ AreaIds # {}
  /\ MaxPage \in Nat /\ DefaultPage \in 1..MaxPage /\ Sections \in Nat \ {0}

VARIABLES place,     \* the home: who lives there, its entities and rooms
          snap,      \* the snapshot being collected
          query,     \* the command being carried out
          copy       \* the manager's copy of the inventory

inventoryVars == <<place, snap, query, copy>>

-----------------------------------------------------------------------------
(* A text names somebody, or nobody; "hidden" is the id that stands for    *)
(* the name, which only the home's secret makes.                           *)
Plain(word) == [word |-> word, hidden |-> FALSE]
Clear(texts) == {t.word : t \in {u \in texts : ~u.hidden}} \cap Names

(* A name is hidden in all its spellings, unless it is an ordinary word.   *)
Hides(name) == name \notin Generic

(* Whose names: people with an account, and persons, except those that     *)
(* belong to a panel's account.                                            *)
NamesOf(p) ==
  {n \in Names : /\ Hides(n)
                 /\ p.accounts[n] = "person" \/ (n \in p.persons /\ p.accounts[n] # "panel")}
HouseholdNames == NamesOf(place)

(* A filter is the set of names it hides, and its fingerprint.             *)
Scrub(filter, t) == IF t.word \in filter THEN [t EXCEPT !.hidden = TRUE] ELSE t
Reveal(filter, t) == IF t.hidden /\ t.word \in filter THEN Plain(t.word) ELSE t
Merged(before, after) == before \cup after

-----------------------------------------------------------------------------
(* A row of the registry, or of what runs outside it.                      *)
There == {i \in EntityIds : place.rows[i].kind # "none"}
AreaName(a) == IF a = 0 THEN Plain("") ELSE place.areas[a]
Domains == {"light", "sensor"}
DomainOf(i) == IF i < 2 THEN "light" ELSE "sensor"
EntityRow(i) ==
  [id |-> i, domain |-> DomainOf(i), name |-> place.rows[i].name,
   area |-> AreaName(place.rows[i].area), areaId |-> place.rows[i].area,
   disabled |-> place.rows[i].disabled, registered |-> place.rows[i].kind = "registered"]
Rows == {EntityRow(i) : i \in There}
ScrubRow(filter, r) == [r EXCEPT !.name = Scrub(filter, @), !.area = Scrub(filter, @)]

(* What a digest is made of (DIGEST_FIELDS): a room by its name only.      *)
Facts(r) == [id |-> r.id, domain |-> r.domain, name |-> r.name, area |-> r.area,
             disabled |-> r.disabled, registered |-> r.registered]
FactsOf(rows) == {Facts(r) : r \in rows}

(* The digest is of the rows as they are; the filter is folded in when it  *)
(* is sent, so that it moves with the names.                               *)
(* Mutant: it moves with the entities only.                                *)
NotFolded(filter, rows) == [rows |-> FactsOf(rows), names |-> {}]
Digest(filter, rows) == [rows |-> FactsOf(rows), names |-> filter]

Anywhere == Plain("")

(* What a page is asked with: a limit that is no number of rows is the     *)
(* default, a negative offset the start; a room and a domain, or any.      *)
Limit(asked) == IF asked <= 0 THEN DefaultPage ELSE IF asked > MaxPage THEN MaxPage ELSE asked
Offset(asked) == IF asked < 0 THEN 0 ELSE asked
Matches(r, room) == room = Anywhere \/ r.area = room
Rank(rows, r) == Cardinality({i \in {s.id : s \in rows} : i < r.id})

(* Mutant: counted on the rows of the chosen domain.                       *)
ChipsCollapsed(rows, room, domain) ==
  [d \in Domains |-> Cardinality({r \in rows : Matches(r, room) /\ r.domain = d
                                               /\ domain \in {"any", d}})]

(* Rows per domain, before the domain is chosen.                           *)
Chips(rows, room, domain) ==
  [d \in Domains |-> Cardinality({r \in rows : Matches(r, room) /\ r.domain = d})]

(* The pages of entities; devices, a text searched for and the status of   *)
(* an entity are left out.                                                 *)
Paginate(rows, room, domain, offset, limit) ==
  LET matched == {r \in rows : Matches(r, room) /\ domain \in {"any", r.domain}}
      first == Offset(offset)
  IN  [items |-> {r \in matched : Rank(matched, r) \in first..(first + Limit(limit) - 1)},
       next |-> first + Limit(limit), matched |-> Cardinality(matched),
       chips |-> Chips(rows, room, domain)]

-----------------------------------------------------------------------------
NoCopy == [at |-> "none", items |-> {}, digest |-> Digest({}, {}), next |-> 0,
           wanted |-> Digest({}, {})]
NoSnap == [at |-> 0, texts |-> {}, rows |-> {}, listed |-> FALSE, standing |-> {}]
NoPage == Paginate({}, Anywhere, "any", 0, 0)
NoQuery == [at |-> "idle", before |-> {}, what |-> "none", todo |-> {}, page |-> NoPage,
            rows |-> {}, texts |-> {}]
Nobody == [n \in Names |-> "none"]
Room == CHOOSE a \in AreaIds : TRUE

(* One entity is outside the registry; the others are in one of the rooms, *)
(* which have the same name.                                               *)
InventoryInit ==
  /\ \E who \in Names \ Generic, other \in Others \ {""} :
       place = [accounts |-> [Nobody EXCEPT ![who] = "person"], persons |-> Generic,
                rows |-> [i \in EntityIds |->
                  LET second == \E j \in EntityIds : j < i
                  IN  [kind |-> IF second THEN "registered" ELSE "unregistered",
                       name |-> Plain(who), area |-> IF second THEN Room ELSE 0,
                       disabled |-> FALSE]],
                areas |-> [a \in AreaIds |-> Plain(other)], location |-> Plain(who),
                readable |-> TRUE, changes |-> 0, orders |-> 0]
  /\ snap = NoSnap
  /\ query = NoQuery
  /\ copy = NoCopy

(* The home changes: who was known from the start of the snapshot on.      *)
Becomes(new) ==
  /\ place' = new
  /\ snap' = [snap EXCEPT !.standing = @ \cap NamesOf(new)]

(* ---- a snapshot: its sections are read one after the other, each shows  *)
(* what the home is at that moment or, where it failed, nothing.           *)
HomeTexts == {r.name : r \in Rows} \cup {place.areas[a] : a \in AreaIds}
SnapshotBegins ==
  /\ snap.at = 0
  /\ snap' = [NoSnap EXCEPT !.at = 1, !.standing = HouseholdNames,
                            !.texts = {place.location}]
  /\ UNCHANGED <<place, query, copy>>
SectionRead(ok) ==
  /\ snap.at \in 1..Sections
  /\ snap' = [snap EXCEPT !.at = @ + 1,
                          !.texts = IF ok THEN @ \cup HomeTexts ELSE @,
                          !.rows = IF ok /\ snap.at = Sections THEN Rows ELSE @,
                          !.listed = ok /\ snap.at = Sections]
  /\ UNCHANGED <<place, query, copy>>

(* Mutant: without the names the core section goes as it is.               *)
CoreAsItIs == {place.location}

(* What is left of a snapshot while the names cannot be read.              *)
Core == {}

OutboundSnapshot ==
  IF place.readable THEN {Scrub(HouseholdNames, t) : t \in snap.texts} ELSE Core

(* It is sent, and the manager takes the digest from it.                   *)
SnapshotSent ==
  /\ snap.at = Sections + 1
  /\ snap' = NoSnap
  /\ copy' = IF place.readable /\ snap.listed
             THEN [copy EXCEPT !.wanted = Digest(HouseholdNames, snap.rows)] ELSE copy
  /\ UNCHANGED <<place, query>>

(* ---- a command: refused where the names cannot be read.                 *)
Arrives(what, todo) ==
  /\ query.at = "idle" /\ place.readable
  /\ query' = [NoQuery EXCEPT !.at = "running", !.before = HouseholdNames, !.what = what,
                              !.todo = todo]

(* registry_query for the next page of the inventory, which awaits nothing.*)
FetchPage ==
  /\ query.at = "idle" /\ place.readable
  /\ copy.wanted # copy.digest \/ copy.at # "done"
  /\ query' = [NoQuery EXCEPT !.at = "answering", !.before = HouseholdNames, !.what = "page",
                !.rows = Rows, !.texts = {},
                !.page = Paginate(Rows, Anywhere, "any", copy.next, DefaultPage)]
  /\ UNCHANGED <<place, snap, copy>>

(* Orders of the manager, each with the ids it was given for the names.    *)
Ordered(what, todo) ==
  /\ place.orders < MaxOrders
  /\ Arrives(what, todo)
  /\ place' = [place EXCEPT !.orders = @ + 1]
  /\ UNCHANGED <<snap, copy>>
AsksArea ==
  \E a \in AreaIds, w \in Names : Ordered("area_upsert", {<<a, [word |-> w, hidden |-> TRUE]>>})
AsksAreaDelete == \E a \in AreaIds : Ordered("area_delete", {<<a, Anywhere>>})
AsksAssign ==
  \E chosen \in (SUBSET EntityIds) \ {{}}, a \in AreaIds :
    Ordered("entities_assign", chosen \X {a})
AsksAccount == \E n, m \in Names : Ordered("user_update", {<<n, m>>})

(* Home Assistant does one thing that was asked, or reports an error.      *)
AreaUpserted(a, text) ==
  Becomes([place EXCEPT !.areas[a] = Reveal(query.before, text)])
AreaDeleted(a) ==
  Becomes([place EXCEPT !.rows = [i \in EntityIds |->
             IF @[i].area = a THEN [@[i] EXCEPT !.area = 0] ELSE @[i]]])
EntityAssigned(i, a) ==
  /\ place.rows[i].kind = "registered"
  /\ Becomes([place EXCEPT !.rows[i].area = a])
AccountRenamed(n, m) ==
  /\ place.accounts[n] # "none" /\ place.accounts[m] = "none"
  /\ Becomes([place EXCEPT !.accounts[m] = place.accounts[n], !.accounts[n] = "none"])

ItemDone(item) ==
  /\ query.at = "running" /\ item \in query.todo
  /\ \/ query.what = "area_upsert" /\ AreaUpserted(item[1], item[2])
     \/ query.what = "area_delete" /\ AreaDeleted(item[1])
     \/ query.what = "entities_assign" /\ EntityAssigned(item[1], item[2])
     \/ query.what = "user_update" /\ AccountRenamed(item[1], item[2])
  /\ query' = [query EXCEPT !.todo = @ \ {item},
       !.texts = @ \cup (IF query.what = "user_update" THEN {Plain(item[1]), Plain(item[2])}
                        ELSE IF query.what = "area_upsert" THEN {Reveal(query.before, item[2])}
                        ELSE {})]
  /\ UNCHANGED copy
ItemFailed(item) ==
  /\ query.at = "running" /\ item \in query.todo
  /\ query' = [query EXCEPT !.todo = @ \ {item}]
  /\ UNCHANGED <<place, snap, copy>>
ItemsDone ==
  /\ query.at = "running" /\ query.todo = {}
  /\ query' = [query EXCEPT !.at = "answering"]
  /\ UNCHANGED <<place, snap, copy>>

(* The answer, with the names as they were before and as they are now; an  *)
(* answered page is joined to those of the same digest, or the manager     *)
(* starts again.                                                           *)
Joined(filter) ==
  LET digest == Digest(filter, query.rows)
      page == {ScrubRow(filter, r) : r \in query.page.items}
      fits == copy.at = "fetching" /\ copy.digest = digest
      first == copy.next = 0
      end == query.page.next >= query.page.matched
  IN  IF ~fits /\ ~first THEN [NoCopy EXCEPT !.wanted = copy.wanted]
      ELSE [copy EXCEPT !.at = IF end THEN "done" ELSE "fetching",
                        !.items = IF first THEN page ELSE @ \cup page,
                        !.digest = digest, !.next = IF end THEN 0 ELSE query.page.next]
AnswerFilter == IF place.readable THEN Merged(query.before, HouseholdNames) ELSE query.before
OutboundAnswer ==
  {Scrub(AnswerFilter, t) : t \in query.texts}
  \cup {r.name : r \in {ScrubRow(AnswerFilter, x) : x \in query.page.items}}
QueryAnswered ==
  /\ query.at = "answering"
  /\ copy' = IF query.what = "page" THEN Joined(AnswerFilter) ELSE copy
  /\ query' = NoQuery
  /\ UNCHANGED <<place, snap>>

(* The socket is lost, with the command and the snapshot under way.        *)
SocketLost ==
  /\ query.at # "idle" \/ snap.at # 0
  /\ query' = NoQuery /\ snap' = NoSnap
  /\ UNCHANGED <<place, copy>>

-----------------------------------------------------------------------------
(* The household, and Home Assistant.                                      *)
Changes(new) ==
  /\ place.changes < MaxChanges /\ new # place
  /\ Becomes([new EXCEPT !.changes = @ + 1])
  /\ UNCHANGED <<query, copy>>
AccountChanges ==
  \E n \in Names, kind \in {"none", "person", "panel"} :
    Changes([place EXCEPT !.accounts[n] = kind])
PersonChanges ==
  \E n \in Names : Changes([place EXCEPT !.persons = IF n \in @ THEN @ \ {n} ELSE @ \cup {n}])
EntityChanges ==
  \E i \in EntityIds, w \in Names \cup Others, off \in BOOLEAN :
    /\ w # ""
    /\ Changes([place EXCEPT !.rows[i] = [kind |-> "registered", name |-> Plain(w), area |-> @.area,
                                          disabled |-> off]])
EntityGoes ==
  \E i \in EntityIds : Changes([place EXCEPT !.rows[i].kind = "none", !.rows[i].area = 0])
AreaChanges ==
  \E a \in AreaIds, w \in Names : Changes([place EXCEPT !.areas[a] = Plain(w)])
NamesUnreadable == Changes([place EXCEPT !.readable = ~@])

InventoryNext ==
  \/ SnapshotBegins \/ SnapshotSent \/ FetchPage \/ ItemsDone \/ QueryAnswered \/ SocketLost
  \/ \E ok \in BOOLEAN : SectionRead(ok)
  \/ AsksArea \/ AsksAreaDelete \/ AsksAssign \/ AsksAccount
  \/ \E item \in query.todo : ItemDone(item) \/ ItemFailed(item)
  \/ AccountChanges \/ PersonChanges \/ EntityChanges \/ EntityGoes \/ AreaChanges
  \/ NamesUnreadable

-----------------------------------------------------------------------------
(* privacy.py:17-23, cloud_link.py:102-118, 150-167: no message shows a    *)
(* name that was the household's all the while: for a snapshot from its    *)
(* first section to its sending, for an answer before or after the         *)
(* command.  (A name forgotten while a snapshot is collected is sent; names*)
(* of fewer than three letters, privacy.py:171, are left and not in Names.)*)
StandingNamesHidden ==
  /\ snap.at = Sections + 1 => Clear(OutboundSnapshot) \cap snap.standing = {}
  /\ query.at = "answering" =>
       /\ Clear(OutboundAnswer) \cap query.before = {}
       /\ place.readable => Clear(OutboundAnswer) \cap HouseholdNames = {}

(* registry_paging.py:32-36: while the manager's copy has the digest that  *)
(* the home has, it is the home's inventory, as the manager may see it, in *)
(* everything the digest is made of, whatever changed between its pages.   *)
(* (Not in a room's id: an entity moved from one room to another of the    *)
(* same name leaves the digest as it is, and the copy with the old id.)    *)
CopyIsHome ==
  copy.at = "done" /\ copy.digest = Digest(HouseholdNames, Rows) =>
    FactsOf(copy.items) = FactsOf({ScrubRow(HouseholdNames, r) : r \in Rows})

(* registry_paging.py:80-87, 140-143: for every room and domain the pages  *)
(* are disjoint and together the rows that match, "matched" is their       *)
(* number, and a chip says how many rows choosing it would give.           *)
PagesAddUp ==
  snap.at = 0 /\ query.at = "idle" =>
  \A room \in {EntityRow(i).area : i \in There} \cup {Anywhere},
     domain \in Domains \cup {"any"}, limit \in 0..(MaxPage + 1) :
    LET page(k) == Paginate(Rows, room, domain, k * Limit(limit), limit)
        wanted == {r \in Rows : (room = Anywhere \/ r.area = room) /\ domain \in {"any", r.domain}}
        pages == 0..Cardinality(EntityIds)
    IN  /\ UNION {page(k).items : k \in pages} = wanted
        /\ \A j, k \in pages : j # k => page(j).items \cap page(k).items = {}
        /\ page(0).matched = Cardinality(wanted)
        /\ \A d \in Domains : page(0).chips[d] = Paginate(Rows, room, d, 0, 0).matched
=============================================================================

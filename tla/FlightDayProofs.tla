--------------------------- MODULE FlightDayProofs ---------------------------
(***************************************************************************)
(* What is shown of a day never becomes less, and a success that either    *)
(* service reports is earned, for any number of keys, flights, uploads and *)
(* faults.  The steps of a build are first told by what they do to its     *)
(* record, and "was read from no less" is shown to be an order.            *)
(***************************************************************************)
EXTENDS FlightProofs

USE SyncAssumption, ProductsAssumption

-----------------------------------------------------------------------------
(***************************************************************************)
(* While a run has not failed, what it listed, neither left for the next   *)
(* one nor has in hand any longer, is recorded, then about to be flagged,  *)
(* then flagged.                                                           *)
(***************************************************************************)
Recorded(e) == \E r \in rows : r.key = e.key /\ r.stamp = e.stamp
Claimed(e) ==
    \E r \in rows : /\ r.key = e.key /\ r.stamp = e.stamp
                    /\ Dispatches => r.enqueued \/ <<r.key, r.path>> \in sync.paths

NothingIsLeft ==
    ReportsSuccess =>
        \A e \in sync.listed \ sync.left :
            /\ sync.at \in {"ingest", "record"} =>
                   e \in sync.todo \cup sync.entry \/ Recorded(e)
            /\ sync.at = "flag" => Claimed(e)
            /\ sync.at = "ends" => Delivered(e, rows)

LEMMA LeftInit == SyncInit => NothingIsLeft
BY DEF SyncInit, NoSync, NothingIsLeft

\* A path that no row is pending for was handed on, since every row has its file.
LEMMA PendingOrEnqueued ==
    ASSUME IngestInv, NEW r \in rows, Dispatches
    PROVE  r.enqueued \/ <<r.key, r.path>> \in PendingPaths
BY DEF IngestInv, RowsHaveBytes, PendingPaths

LEMMA LeftStep == IngestInv /\ NothingIsLeft /\ SyncNext => NothingIsLeft'
<1> SUFFICES ASSUME IngestInv, NothingIsLeft, SyncNext PROVE NothingIsLeft'
  OBVIOUS
<1>0. SyncTypeOK /\ EntryIsStored
  BY DEF IngestInv
<1> USE DEF NothingIsLeft, ReportsSuccess, store
<1>1. ASSUME NEW k \in Keys, Uploads(k) PROVE NothingIsLeft'
  BY <1>1 DEF Uploads, Recorded, Claimed, Delivered
<1>2. CASE SyncBegins
  <2>1. /\ sync'.at = "ingest" /\ sync'.listed = Listing /\ sync'.todo = Selected
        /\ sync'.left = Candidates \ Selected /\ UNCHANGED <<rows, upstream>>
    BY <1>2 DEF SyncBegins, NoSync
  <2>2. \A e \in Listing : e \notin Candidates => Recorded(e)
    BY DEF Candidates, Known, Prior, Listing, Recorded
  <2> QED  BY <2>1, <2>2 DEF Recorded
<1>3. ASSUME NEW e \in sync.todo, Receives(e) PROVE NothingIsLeft'
  <2>1. /\ sync.at = "ingest" /\ sync'.at = "record" /\ sync'.todo = sync.todo \ {e}
        /\ sync'.entry = {e} /\ sync'.listed = sync.listed /\ sync'.failed = sync.failed
        /\ sync'.left = sync.left /\ rows' = rows
    <3>1. /\ sync' = [sync EXCEPT !.at = "record", !.todo = @ \ {e}, !.entry = {e},
                                   !.got = upstream[e.key].bytes, !.path = sync'.path]
          /\ sync.at = "ingest" /\ rows' = rows
      BY <1>3, ReceivesIsSafe DEF Receives, IsNext
    <3> QED  BY <1>0, <3>1 DEF SyncTypeOK, Run
  <2>2. sync.entry = {}
    BY <1>0, <2>1 DEF EntryIsStored
  <2> QED  BY <2>1, <2>2 DEF Recorded
<1>4. CASE Records
  <2>1. /\ sync.at = "record" /\ sync'.at = "ingest" /\ sync'.todo = sync.todo
        /\ sync'.entry = {} /\ sync'.listed = sync.listed /\ sync'.failed = sync.failed
        /\ sync'.left = sync.left
    BY <1>0, <1>4 DEF Records, SyncTypeOK, Run
  <2>2. \A e \in sync.entry \cup sync.listed : e \in sync.entry \/ Recorded(e) => Recorded(e)'
    <3>1. ASSUME NEW e \in sync.entry PROVE Recorded(e)'
      <4>1. NewRow(e) \in rows' /\ NewRow(e).key = e.key /\ NewRow(e).stamp = e.stamp
        BY <1>4 DEF Records, NewRow, Version
      <4> QED  BY <4>1 DEF Recorded
    <3>2. rows \subseteq rows'
      BY <1>4 DEF Records
    <3> QED  BY <3>1, <3>2 DEF Recorded
  <2> QED  BY <2>1, <2>2
<1>5. CASE Enqueues
  <2>1. /\ sync.at = "ingest" /\ sync.todo = {} /\ sync'.paths = PendingPaths /\ rows' = rows
        /\ sync'.at = IF PendingPaths = {} THEN "ends" ELSE "flag"
        /\ sync'.listed = sync.listed /\ sync'.failed = sync.failed
        /\ sync'.left = sync.left /\ sync.entry = {}
    BY <1>0, <1>5 DEF Enqueues, SyncTypeOK, Run, EntryIsStored
  <2>2. \A e \in sync.listed : Recorded(e) => /\ Claimed(e)'
                                              /\ PendingPaths = {} => Delivered(e, rows')
    BY <2>1, PendingOrEnqueued DEF Recorded, Claimed, Delivered
  <2> QED  BY <2>1, <2>2
<1>6. CASE Flags
  <2>1. /\ sync.at = "flag" /\ sync'.at = "ends" /\ sync'.listed = sync.listed
        /\ sync'.failed = sync.failed /\ sync'.left = sync.left
    BY <1>0, <1>6 DEF Flags, SyncTypeOK, Run
  <2>2. ASSUME NEW e \in sync.listed, Claimed(e) PROVE Delivered(e, rows')
    <3>1. PICK r \in rows : /\ r.key = e.key /\ r.stamp = e.stamp
                            /\ Dispatches => r.enqueued \/ <<r.key, r.path>> \in sync.paths
      BY <2>2 DEF Claimed
    <3>2. CASE r \in Flagged
      <4>1. [r EXCEPT !.enqueued = TRUE] \in rows'
        BY <1>6, <3>2 DEF Flags
      <4>2. r \in Row
        BY <1>0 DEF SyncTypeOK
      <4> QED  BY <3>1, <4>1, <4>2 DEF Delivered, Row
    <3>3. CASE r \notin Flagged
      BY <1>6, <3>1, <3>3 DEF Flags, Flagged, Delivered
    <3> QED  BY <3>2, <3>3
  <2> QED  BY <2>1, <2>2
<1>7. CASE SyncEnds \/ SyncKilled
  BY <1>7 DEF SyncEnds, SyncKilled, NoSync
<1>8. CASE EnqueueFails \/ \E e \in sync.todo : DownloadFails(e) \/ IsRefused(e)
  <2>1. sync'.failed
    BY <1>0, <1>8 DEF EnqueueFails, DownloadFails, IsRefused, SyncTypeOK, Run
  <2> QED  BY <2>1
<1> QED
  BY <1>1, <1>2, <1>3, <1>4, <1>5, <1>6, <1>7, <1>8 DEF SyncNext, SyncStep, SyncFault

LEMMA LeftInvariant == Spec => []NothingIsLeft
<1>1. Init => NothingIsLeft
  BY LeftInit DEF Init
<1>2. IngestInv /\ NothingIsLeft /\ [Next]_vars => NothingIsLeft'
  <2>1. UNCHANGED ingest /\ NothingIsLeft => NothingIsLeft'
    BY DEF ingest, store, NothingIsLeft, ReportsSuccess, Recorded, Claimed, Delivered
  <2> QED  BY <2>1, LeftStep, StepIngests
<1> QED  BY <1>1, <1>2, IngestInvariant, PTL DEF Spec
-----------------------------------------------------------------------------
\* What each step of a build leaves of it and of the products.
Still == UNCHANGED <<file, products>>
Carries == build'.found = build.found /\ build'.before = build.before

LEMMA BeginsFields ==
    ASSUME BuildBegins
    PROVE  /\ Still /\ build.at = "idle" /\ build'.at = "print"
           /\ build'.found = Complete /\ build'.todo = Complete /\ build'.changed = {}
           /\ ~build'.failed /\ build'.prints = NoPrints
           /\ build'.new = [f \in Flights |-> IF f \in Listed THEN detail[f] ELSE Nothing]
           /\ build'.before = build'.new
BY DEF BuildBegins, NoBuild, Still, syncVars, store

LEMMA PrintsFields ==
    ASSUME build \in Build, NEW f \in Flights, Fingerprints(f)
    PROVE  /\ Still /\ Carries /\ build.at = "print" /\ build'.at = "decode"
           /\ IsNextFlight(f) /\ f \in build.todo /\ \A g \in Flights : IsNextFlight(g)' <=> g = f
           /\ build'.todo = build.todo /\ build'.changed = build.changed
           /\ build'.failed = build.failed /\ build'.new = build.new
           /\ build'.prints[f] = There(f)
           /\ \A g \in Flights : g # f => build'.prints[g] = build.prints[g]
<1>1. /\ Still /\ Carries /\ build.at = "print" /\ build'.at = "decode" /\ IsNextFlight(f)
      /\ build'.todo = build.todo /\ build'.changed = build.changed
      /\ build'.failed = build.failed /\ build'.new = build.new
      /\ build'.prints = [build.prints EXCEPT ![f] = There(f)]
  BY DEF Fingerprints, Still, Carries, syncVars, store, Build
<1>2. \A g \in Flights : IsNextFlight(g)' <=> IsNextFlight(g)
  BY <1>1 DEF IsNextFlight
<1>3. \A g \in Flights : IsNextFlight(g) <=> g = f
  BY <1>1, NextIsOne
<1>4. build.prints \in [Flights -> SUBSET Keys]
  BY DEF Build
<1> QED  BY <1>1, <1>2, <1>3, <1>4 DEF IsNextFlight

Takes(f) ==
    /\ Still /\ Carries /\ build.at = "decode" /\ build'.at = "print" /\ IsNextFlight(f)
    /\ f \in build.todo /\ build'.todo = build.todo \ {f}
    /\ \A g \in Flights : g # f => /\ build'.prints[g] = build.prints[g]
                                   /\ build'.new[g] = build.new[g]

LEMMA DecodesMoves ==
    ASSUME TypeOK, NEW f \in Flights, Decodes(f)
    PROVE  /\ Takes(f) /\ build'.failed = build.failed /\ build'.prints[f] = build.prints[f]
           /\ \/ /\ Reusable(f) /\ build'.new[f] = detail[f] /\ build'.changed = build.changed
              \/ /\ ~Reusable(f) /\ Decodable(f) /\ build'.new[f] = Decoded(f)
                 /\ build'.changed = build.changed \cup {f}
<1> DEFINE next == [build EXCEPT !.at = "print", !.todo = @ \ {f}]
<1>0. build \in Build /\ detail \in [Flights -> Product]
  BY DEF TypeOK
<1>1. /\ next \in Build /\ next.at = "print" /\ next.todo = build.todo \ {f}
      /\ next.changed = build.changed /\ next.prints = build.prints
      /\ next.failed = build.failed /\ next.found = build.found
      /\ next.before = build.before /\ next.new = build.new
  BY <1>0 DEF Build
<1>2. Still /\ build.at = "decode" /\ IsNextFlight(f) /\ f \in build.todo
  BY DEF Decodes, Still, syncVars, store, IsNextFlight
<1>3. CASE Reusable(f) /\ build' = [next EXCEPT !.new[f] = detail[f]]
  <2> HIDE DEF next
  <2> QED  BY <1>1, <1>2, <1>3 DEF Build, Takes, Carries
<1>4. CASE /\ ~Reusable(f) /\ Decodable(f)
           /\ build' = [next EXCEPT !.new[f] = Decoded(f), !.changed = @ \cup {f}]
  <2> HIDE DEF next
  <2> QED  BY <1>1, <1>2, <1>4 DEF Build, Takes, Carries
<1> QED  BY <1>3, <1>4 DEF Decodes

LEMMA SkipsMoves ==
    ASSUME TypeOK, NEW f \in Flights, Rejects(f) \/ DecodeFails(f)
    PROVE  /\ Takes(f) /\ ~Reusable(f) /\ build'.failed /\ build'.changed = build.changed
           /\ build'.prints[f] = {} /\ build'.new[f] = build.new[f]
<1> DEFINE b == [build EXCEPT !.at = "print", !.todo = @ \ {f}, !.prints[f] = {}]
<1>0. build \in Build
  BY DEF TypeOK
<1>1. /\ b \in Build /\ b.at = "print" /\ b.todo = build.todo \ {f} /\ b.found = build.found
      /\ b.changed = build.changed /\ b.prints = [build.prints EXCEPT ![f] = {}]
      /\ b.before = build.before /\ b.new = build.new
  BY <1>0 DEF Build
<1>2. build' = [b EXCEPT !.failed = TRUE]
  BY Zenon DEF Rejects, DecodeFails, Skips
<1>3. /\ Still /\ build.at = "decode" /\ IsNextFlight(f) /\ f \in build.todo /\ ~Reusable(f)
  BY DEF Rejects, DecodeFails, Still, syncVars, store, IsNextFlight
<1>4. build.prints \in [Flights -> SUBSET Keys]
  BY <1>0 DEF Build
<1> HIDE DEF b
<1>5. /\ build'.at = "print" /\ build'.todo = build.todo \ {f} /\ build'.found = build.found
      /\ build'.changed = build.changed /\ build'.prints = [build.prints EXCEPT ![f] = {}]
      /\ build'.before = build.before /\ build'.new = build.new /\ build'.failed
  BY <1>1, <1>2 DEF Build
<1> QED  BY <1>3, <1>4, <1>5 DEF Takes, Carries

LEMMA NumbersFields ==
    ASSUME build \in Build, Numbers
    PROVE  /\ Still /\ Carries /\ build.at = "print" /\ build.todo = {}
           /\ build'.at = IF Present(build.new) = {} THEN "latest" ELSE "publish"
           /\ build'.new = Numbered(build.new) /\ Present(build'.new) = Present(build.new)
           /\ build'.changed = build.changed \cup
                  {f \in Present(build.new) : Numbered(build.new)[f] # build.new[f]}
           /\ build'.todo = build'.changed
           /\ build'.failed = build.failed /\ build'.prints = build.prints
           /\ \A f \in Present(build.new) :
                  /\ build'.new[f].keys = build.new[f].keys
                  /\ build'.new[f].number = Rank(f, Present(build.new))
<1> DEFINE new == Numbered(build.new)
           changed == build.changed \cup {f \in Present(new) : new[f] # build.new[f]}
<1>1. /\ Still /\ Carries /\ build.at = "print" /\ build.todo = {}
      /\ build'.at = IF Present(new) = {} THEN "latest" ELSE "publish"
      /\ build'.new = new /\ build'.changed = changed /\ build'.todo = changed
      /\ build'.failed = build.failed /\ build'.prints = build.prints
  BY DEF Numbers, Build, Still, Carries, syncVars, store
<1>2. build.new \in [Flights -> Product]
  BY DEF Build
<1>3. Present(new) = Present(build.new) /\ \A f \in Present(new) : new[f].keys = build.new[f].keys
  BY <1>2, NumberedIsDay
<1>4. \A f \in Present(build.new) : new[f].number = Rank(f, Present(build.new))
  BY <1>2 DEF Numbered, Present, Product
<1> HIDE DEF new
<1>5. new = Numbered(build.new)
  BY DEF new
<1> QED  BY <1>1, <1>3, <1>4, <1>5

LEMMA PlotFields ==
    ASSUME TypeOK, NEW f \in Flights, PublishesPlot(f)
    PROVE  /\ UNCHANGED <<file, detail, summary, latest, catalog, saved>> /\ Carries
           /\ build.at = "publish" /\ build'.at = "detail" /\ f \in build.todo
           /\ build'.todo = build.todo /\ build'.changed = build.changed
           /\ build'.failed = build.failed /\ build'.prints = build.prints
           /\ build'.new = build.new
BY DEF PublishesPlot, TypeOK, Build, Carries, syncVars, store, IsNextFlight

LEMMA DetailFields ==
    ASSUME TypeOK, NEW f \in Flights, PublishesDetail(f)
    PROVE  /\ UNCHANGED <<file, plot, summary, latest, catalog, saved>> /\ Carries
           /\ build.at = "detail" /\ build'.at = "publish" /\ f \in build.todo
           /\ build'.todo = build.todo \ {f} /\ build'.changed = build.changed
           /\ build'.failed = build.failed /\ build'.prints = build.prints
           /\ build'.new = build.new
           /\ detail'[f] = build.new[f] /\ \A g \in Flights : g # f => detail'[g] = detail[g]
BY DEF PublishesDetail, TypeOK, Build, Carries, syncVars, store, IsNextFlight

LEMMA SummaryFields ==
    ASSUME build \in Build, PublishesSummary
    PROVE  /\ UNCHANGED <<file, detail, plot, latest, catalog, saved>> /\ Carries
           /\ build.at = "publish" /\ build'.at = "latest" /\ build.todo = {}
           /\ build'.todo = {} /\ build'.failed = build.failed
           /\ build'.prints = build.prints /\ build'.new = build.new
           /\ summary' = IF build.changed # {} \/ summary = NoProducts THEN build.new
                         ELSE summary
BY DEF PublishesSummary, Build, Carries, syncVars, store

LEMMA TransactionMoves ==
    ASSUME build \in Build, TransactionFails
    PROVE  /\ Still /\ Carries /\ build.at \in {"publish", "detail"} /\ build'.at = "latest"
           /\ build'.failed /\ build'.prints = NoPrints /\ build'.new = build.before
<1> DEFINE b == [build EXCEPT !.at = "latest", !.todo = {}, !.new = build.before,
                              !.prints = NoPrints]
<1>1. /\ b \in Build /\ b.at = "latest" /\ b.prints = NoPrints /\ b.before = build.before
      /\ b.new = build.before /\ b.found = build.found
  BY DEF Build, NoPrints
<1>2. build' = [b EXCEPT !.failed = TRUE]
  BY DEF TransactionFails, Build
<1>3. Still /\ build.at \in {"publish", "detail"}
  BY DEF TransactionFails, Still, store
<1> HIDE DEF b
<1> QED  BY <1>1, <1>2, <1>3 DEF Build, Carries

LEMMA LatestFields ==
    ASSUME build \in Build, CopiesLatest \/ CopyFails
    PROVE  /\ UNCHANGED <<file, images, catalog, saved>> /\ Carries
           /\ build.at = "latest" /\ build'.at = "catalog"
           /\ build'.prints = build.prints /\ build'.new = build.new
           /\ \/ build'.failed
              \/ /\ build'.failed = build.failed
                 /\ latest' = IF Present(build.new) # {} /\ summary # NoProducts THEN summary
                              ELSE latest
BY DEF CopiesLatest, CopyFails, Build, Carries, syncVars, store, products

LEMMA CatalogFields ==
    ASSUME build \in Build, WritesCatalog
    PROVE  /\ UNCHANGED <<file, images, latest, saved>> /\ Carries /\ catalog' = build.new
           /\ build.at = "catalog" /\ build'.at = "state" /\ build'.failed = build.failed
           /\ build'.prints = build.prints /\ build'.new = build.new
BY DEF WritesCatalog, Build, Carries, syncVars, store

LEMMA StateFields ==
    ASSUME build \in Build, SavesState
    PROVE  /\ UNCHANGED <<file, images, latest, catalog>> /\ Carries
           /\ build.at = "state" /\ build'.at = "status" /\ build'.failed = build.failed
           /\ build'.prints = build.prints
           /\ \A f \in Flights :
                  saved'[f] = IF build.prints[f] # {} THEN build.prints[f] ELSE saved[f]
BY DEF SavesState, Build, Carries, syncVars, store

LEMMA EndsFields == BuildEnds \/ BuildKilled => Still /\ build' = NoBuild
BY DEF BuildEnds, BuildKilled, Still, syncVars, store

LEMMA BuildActs ==
    BuildStep \/ BuildFault <=>
        \/ BuildBegins \/ Numbers \/ PublishesSummary \/ TransactionFails
        \/ CopiesLatest \/ CopyFails \/ WritesCatalog \/ SavesState \/ BuildEnds \/ BuildKilled
        \/ \E f \in Flights : \/ Fingerprints(f) \/ Decodes(f) \/ Rejects(f) \/ DecodeFails(f)
                              \/ PublishesPlot(f) \/ PublishesDetail(f)
BY DEF BuildStep, BuildFault
-----------------------------------------------------------------------------
(***************************************************************************)
(* What was read from some files may follow what was read from fewer: that *)
(* is an order, because a file that a table holds back is held back by it  *)
(* in every larger set.                                                    *)
(***************************************************************************)
LEMMA GoodIsItself ==
    ASSUME NEW held, NEW f, NEW old, NEW keys, Good(held, f, old, keys)
    PROVE  Good(held, f, keys, keys) /\ Good(held, f, {}, keys)
BY DEF Good, Reading

LEMMA NothingIsGood == \A held, f : Good(held, f, {}, {})
<1> SUFFICES ASSUME NEW held, NEW f PROVE Good(held, f, {}, {})
  OBVIOUS
<1>1. {} \in SUBSET Held(held, f) /\ Reading(held, f, {}) = {}
  BY DEF Reading
<1> QED  BY <1>1 DEF Good

LEMMA GoodFollows ==
    ASSUME NEW held, NEW f, NEW old, NEW mid, NEW keys,
           Good(held, f, old, mid), Good(held, f, mid, keys)
    PROVE  Good(held, f, old, keys)
<1>1. PICK S \in SUBSET Held(held, f) : old \subseteq S /\ mid = Reading(held, f, S)
  BY DEF Good
<1>2. PICK T \in SUBSET Held(held, f) : mid \subseteq T /\ keys = Reading(held, f, T)
  BY DEF Good
<1> DEFINE ReadsTable(k) == k \in Tables /\ held[k][0] \notin Unreadable
           Free(k, R) == \A s \in StreamsOf[f] : k \in s =>
                             ~\E t \in s \cap R \cap Held(held, f) : ReadsTable(t)
<1>3. \A R \in SUBSET Held(held, f) :
         Reading(held, f, R) =
             {k \in R : held[k][0] \notin Unreadable /\ (k \in Tables \/ Free(k, R))}
  BY DEF Reading
<1> HIDE DEF Free, ReadsTable
<1>4. \A k \in S : ReadsTable(k) => k \in T
  BY <1>1, <1>2, <1>3 DEF ReadsTable
<1>5. \A k : Free(k, S \cup T) <=> Free(k, T)
  BY <1>4 DEF Free
<1>6. \A k \in S : Free(k, T) => Free(k, S)
  BY <1>1, <1>2, <1>3, <1>4, <1>5 DEF Free
<1>7. ASSUME NEW k \in S \cup T, held[k][0] \notin Unreadable, k \in Tables \/ Free(k, S \cup T)
      PROVE  k \in T
  <2>1. CASE k \in S
    BY <1>1, <1>2, <1>3, <1>5, <1>6, <1>7, <2>1
  <2> QED  BY <1>7, <2>1
<1>8. Reading(held, f, S \cup T) = Reading(held, f, T)
  BY <1>3, <1>5, <1>7
<1> QED  BY <1>1, <1>2, <1>8 DEF Good

LEMMA GoodInHeld ==
    ASSUME NEW held, NEW f, NEW old, NEW keys, Good(held, f, old, keys)
    PROVE  keys \subseteq Held(held, f)
BY DEF Good, Reading
-----------------------------------------------------------------------------
(***************************************************************************)
(* The catalogue and the image of the day show no more than the details,   *)
(* which only grow; a build lists every flight that is listed, and the     *)
(* products that it falls back on lie between the two.                     *)
(***************************************************************************)
Below(held, old, day) == \A f \in Flights : Good(held, f, old[f].keys, day[f].keys)
Proposing == {"print", "decode", "publish", "detail"}

DetailsLead ==
    /\ Below(file, detail, detail)
    /\ Below(file, catalog, catalog) /\ Below(file, catalog, detail)
    /\ Below(file, summary, summary) /\ Below(file, summary, detail)

ListedIsKept ==
    build.at \in Proposing \cup {"latest", "catalog"} =>
        /\ Present(catalog) \subseteq Present(build.new)
        /\ Present(catalog) \subseteq Present(build.before)
        /\ Below(file, catalog, build.before) /\ Below(file, build.before, detail)

NewIsMore ==
    /\ build.at \in Proposing =>
           \A f \in Present(build.new) : Good(file, f, detail[f].keys, build.new[f].keys)
    /\ build.at \in {"publish", "detail"} =>
           \A f \in Present(build.new) \ build.todo : build.new[f] = detail[f]
    /\ build.at \in {"latest", "catalog"} =>
           Below(file, catalog, build.new) /\ Below(file, build.new, detail)

NeverLess == DetailsLead /\ ListedIsKept /\ NewIsMore

LEMMA NothingIsBelow ==
    ASSUME NEW held, NEW f, NEW old, NEW keys, Good(held, f, old, keys)
    PROVE  Good(held, f, Nothing.keys, keys)
BY GoodIsItself DEF Nothing

LEMMA AbsentIsNothing ==
    ASSUME NEW day, NEW f \in Flights, f \notin Present(day) PROVE day[f].keys = {}
BY DEF Present, Nothing

LEMMA NeverLessInit == Init => NeverLess
<1> SUFFICES ASSUME Init PROVE NeverLess
  OBVIOUS
<1>1. Below(file, NoProducts, NoProducts)
  BY NothingIsGood DEF Below, NoProducts, Nothing
<1> QED
  BY <1>1 DEF Init, NoBuild, NeverLess, DetailsLead, ListedIsKept, NewIsMore, Proposing

\* Files arrive, and the products stay as they are.
LEMMA NeverLessKept ==
    ASSUME NeverLess, UNCHANGED <<products, build>>,
           \A k \in Keys : file[k][0] # 0 => file'[k][0] = file[k][0]
    PROVE  NeverLess'
<1>1. \A f \in Flights : \A old, keys : Good(file, f, old, keys) => Good(file', f, old, keys)
  BY GoodStays
<1> USE DEF products, images, NeverLess, Below
<1>2. DetailsLead'
  BY <1>1 DEF DetailsLead
<1>3. ListedIsKept'
  BY <1>1 DEF ListedIsKept, Present
<1>4. NewIsMore'
  BY <1>1 DEF NewIsMore, Present
<1> QED  BY <1>2, <1>3, <1>4

LEMMA NeverLessBuild ==
    ASSUME TypeOK, ListedIsShown, PrintsAreRead, NeverLess, BuildStep \/ BuildFault
    PROVE  NeverLess'
<1>0. /\ build \in Build /\ {detail, plot, summary, latest, catalog} \subseteq [Flights -> Product]
      /\ build.new \in [Flights -> Product] /\ build.before \in [Flights -> Product]
  BY DEF TypeOK, Build
<1> USE DEF NeverLess, Proposing
<1>01. \A f \in Flights : /\ Good(file, f, {}, detail[f].keys)
                         /\ Good(file, f, {}, {})
  BY GoodIsItself, NothingIsGood DEF DetailsLead, Below
<1>02. \A f \in Flights : \A old \in SUBSET Held(file, f) : Good(file, f, old, Decoded(f).keys)
  BY DecodedIsGood
<1>1. CASE BuildBegins
  <2>1. DetailsLead'
    BY <1>1, BeginsFields DEF Still, products, images, DetailsLead, Below
  <2>2. ListedIsKept'
    <3>1. Present(catalog) \subseteq Listed
      BY DEF Listed, ListedIsShown, ReadersFindPlots
    <3>2. \A f \in Flights :
             IF f \in Listed THEN build'.before[f] = detail[f] /\ f \in Present(detail)
             ELSE build'.before[f] = Nothing /\ catalog[f] = Nothing
      BY <1>1, <3>1, BeginsFields DEF Listed, Present
    <3>3. Below(file, catalog, build'.before) /\ Below(file, build'.before, detail)
      BY <1>01, <3>2 DEF Below, DetailsLead, Nothing
    <3> QED
      BY <1>1, <3>1, <3>2, <3>3, BeginsFields
      DEF Still, products, images, ListedIsKept, Present, Below
  <2>3. NewIsMore'
    BY <1>1, BeginsFields DEF Still, products, images, NewIsMore, DetailsLead, Below, Present
  <2> QED  BY <2>1, <2>2, <2>3
<1>2. ASSUME NEW f \in Flights, Fingerprints(f) PROVE NeverLess'
  BY <1>0, <1>2, PrintsFields
  DEF Still, Carries, products, images, DetailsLead, ListedIsKept, NewIsMore, Below, Present
<1>3. ASSUME NEW f \in Flights, Takes(f),
             build'.new[f] = build.new[f] \/ (build'.new[f] # Nothing /\
                 Good(file, f, detail[f].keys, build'.new[f].keys))
      PROVE  NeverLess'
  <2>1. DetailsLead'
    BY <1>3 DEF Takes, Still, products, images, DetailsLead, Below
  <2>2. /\ Present(build.new) \subseteq Present(build'.new)
        /\ \A g \in Present(build'.new) : Good(file, g, detail[g].keys, build'.new[g].keys)
    BY <1>3 DEF Takes, NewIsMore, Present
  <2>3. ListedIsKept' /\ NewIsMore'
    BY <1>3, <2>2
    DEF Takes, Still, Carries, products, images, ListedIsKept, NewIsMore, Below, Present
  <2> QED  BY <2>1, <2>3
<1>4. ASSUME NEW f \in Flights, Decodes(f) PROVE NeverLess'
  <2>1. Takes(f)
    BY <1>4, DecodesMoves
  <2>2. CASE Reusable(f) /\ build'.new[f] = detail[f]
    <3>1. detail[f] # Nothing /\ Good(file, f, detail[f].keys, detail[f].keys)
      BY <2>2 DEF Reusable, Present, DetailsLead, Below
    <3> QED  BY <1>3, <2>1, <2>2, <3>1
  <2>3. CASE Decodable(f) /\ build'.new[f] = Decoded(f)
    <3>1. Decoded(f) # Nothing
      <4>1. StreamsOf[f] # {}
        OBVIOUS
      <4>2. Chosen(f, There(f)) # {}
        BY <2>3, <4>1 DEF Decodable
      <4> QED  BY <4>2 DEF Decoded, Nothing
    <3>2. Good(file, f, detail[f].keys, Decoded(f).keys)
      BY <1>02, GoodInHeld DEF DetailsLead, Below
    <3> QED  BY <1>3, <2>1, <2>3, <3>1, <3>2
  <2> QED  BY <1>4, <2>2, <2>3, DecodesMoves
<1>5. ASSUME NEW f \in Flights, Rejects(f) \/ DecodeFails(f) PROVE NeverLess'
  BY <1>3, <1>5, SkipsMoves
<1>6. CASE Numbers
  <2>1. DetailsLead'
    BY <1>0, <1>6, NumbersFields DEF Still, products, images, DetailsLead, Below
  <2>2. ListedIsKept'
    BY <1>0, <1>6, NumbersFields DEF Still, Carries, products, images, ListedIsKept, Below, Present
  <2>3. \A f \in Present(build.new) : Good(file, f, detail[f].keys, build'.new[f].keys)
    BY <1>0, <1>6, NumbersFields DEF NewIsMore
  <2>4. ASSUME NEW f \in Present(build.new), f \notin build'.todo PROVE build'.new[f] = detail[f]
    <3>1. f \notin build.changed /\ build'.new[f] = build.new[f] /\ f \in Flights
      BY <1>0, <1>6, <2>4, NumbersFields DEF Present
    <3> QED
      BY <1>0, <1>6, <3>1, NumbersFields DEF PrintsAreRead, WhileDecoding
  <2>5. ASSUME Present(build.new) = {}
        PROVE  Below(file, catalog, build'.new) /\ Below(file, build'.new, detail)
    <3>1. Present(build'.new) = {} /\ Present(catalog) = {}
      BY <1>0, <1>6, <2>5, NumbersFields DEF ListedIsKept
    <3>2. \A f \in Flights : build'.new[f].keys = {} /\ catalog[f].keys = {}
      BY <3>1, AbsentIsNothing
    <3> QED  BY <1>01, <3>2 DEF Below
  <2>6. NewIsMore'
    <3>1. Present(build'.new) = Present(build.new) /\ UNCHANGED <<file, detail, catalog>>
      BY <1>0, <1>6, NumbersFields DEF Still, products, images
    <3> QED
      BY <1>0, <1>6, <2>3, <2>4, <2>5, <3>1, NumbersFields DEF NewIsMore, Below, Present
  <2> QED  BY <2>1, <2>2, <2>6
<1>7. ASSUME NEW f \in Flights, PublishesPlot(f) PROVE NeverLess'
  BY <1>0, <1>7, PlotFields DEF Carries, DetailsLead, ListedIsKept, NewIsMore, Below, Present
<1>8. ASSUME NEW f \in Flights, PublishesDetail(f) PROVE NeverLess'
  <2>0. /\ UNCHANGED <<file, summary, catalog>> /\ build'.before = build.before
        /\ build.at = "detail" /\ build'.at = "publish" /\ build'.todo = build.todo \ {f}
        /\ build'.new = build.new /\ detail'[f] = build.new[f]
    BY <1>8, DetailFields DEF Carries
  <2>1. f \in Present(build.new)
    BY <1>8, DetailFields DEF ListedIsShown
  <2>2. Good(file, f, detail[f].keys, build.new[f].keys)
    BY <2>0, <2>1 DEF NewIsMore
  <2>3. \A g \in Flights : \A old : Good(file, g, old, detail[g].keys)
                                        => Good(file, g, old, detail'[g].keys)
    <3> SUFFICES ASSUME NEW g \in Flights, NEW old, Good(file, g, old, detail[g].keys)
                 PROVE  Good(file, g, old, detail'[g].keys)
      OBVIOUS
    <3>1. CASE g = f
      <4>1. detail'[g].keys = build.new[f].keys
        BY <1>8, <3>1, DetailFields
      <4> QED  BY <2>2, <3>1, <4>1, GoodFollows
    <3>2. CASE g # f
      BY <1>8, <3>2, DetailFields
    <3> QED  BY <3>1, <3>2
  <2>4. Below(file, detail', detail')
    BY <1>8, <2>2, DetailFields, GoodIsItself DEF DetailsLead, Below
  <2>5. DetailsLead'
    BY <2>0, <2>3, <2>4 DEF DetailsLead, Below
  <2>6. ListedIsKept'
    BY <2>0, <2>3 DEF ListedIsKept, Below, Present
  <2>7. \A g \in Present(build.new) : Good(file, g, detail'[g].keys, build.new[g].keys)
    BY <1>8, <2>2, DetailFields, GoodIsItself DEF NewIsMore, Present
  <2>8. \A g \in Present(build.new) \ build'.todo : build.new[g] = detail'[g]
    BY <1>8, <2>0, DetailFields DEF NewIsMore, Present
  <2>9. NewIsMore'
    BY <2>0, <2>7, <2>8 DEF NewIsMore, Present
  <2> QED  BY <2>5, <2>6, <2>9
<1>9. CASE PublishesSummary
  <2>1. \A f \in Flights : IF f \in Present(build.new) THEN build.new[f] = detail[f]
                           ELSE build.new[f].keys = {}
    BY <1>0, <1>9, SummaryFields, AbsentIsNothing DEF NewIsMore
  <2>2. Below(file, build.new, build.new) /\ Below(file, build.new, detail)
    BY <1>01, <2>1 DEF DetailsLead, Below
  <2>3. DetailsLead'
    BY <1>0, <1>9, <2>2, SummaryFields DEF DetailsLead, Below
  <2>4. Below(file, catalog, build.new)
    <3> SUFFICES ASSUME NEW f \in Flights
                 PROVE  Good(file, f, catalog[f].keys, build.new[f].keys)
      BY DEF Below
    <3>1. CASE f \in Present(build.new)
      BY <2>1, <3>1 DEF DetailsLead, Below
    <3>2. CASE f \notin Present(build.new)
      <4>1. f \notin Present(catalog)
        BY <1>0, <1>9, <3>2, SummaryFields DEF ListedIsKept
      <4> QED  BY <1>01, <2>1, <3>2, <4>1, AbsentIsNothing
    <3> QED  BY <3>1, <3>2
  <2>5. ListedIsKept' /\ NewIsMore'
    BY <1>0, <1>9, <2>2, <2>4, SummaryFields
    DEF Carries, ListedIsKept, NewIsMore, Below, Present
  <2> QED  BY <2>3, <2>5
<1>10. CASE TransactionFails
  BY <1>0, <1>10, TransactionMoves
  DEF Still, Carries, products, images, DetailsLead, ListedIsKept, NewIsMore, Below, Present
<1>11. CASE CopiesLatest \/ CopyFails
  BY <1>0, <1>11, LatestFields
  DEF Carries, images, DetailsLead, ListedIsKept, NewIsMore, Below, Present
<1>12. CASE WritesCatalog
  <2>1. Below(file, build.new, build.new) /\ Below(file, build.new, detail)
    BY <1>0, <1>12, CatalogFields, GoodIsItself DEF NewIsMore, Below
  <2> QED
    BY <1>0, <1>12, <2>1, CatalogFields DEF images, DetailsLead, ListedIsKept, NewIsMore, Below
<1>13. CASE SavesState
  BY <1>0, <1>13, StateFields DEF images, DetailsLead, ListedIsKept, NewIsMore, Below
<1>14. CASE BuildEnds \/ BuildKilled
  BY <1>14, EndsFields
  DEF Still, NoBuild, products, images, DetailsLead, ListedIsKept, NewIsMore, Below
<1> QED
  BY <1>1, <1>2, <1>4, <1>5, <1>6, <1>7, <1>8, <1>9, <1>10, <1>11, <1>12, <1>13, <1>14, BuildActs

LEMMA NeverLessInvariant == Spec => []NeverLess
<1>1. IngestInv /\ TypeOK /\ ListedIsShown /\ PrintsAreRead /\ NeverLess /\ [Next]_vars
          => NeverLess'
  <2> SUFFICES ASSUME IngestInv, TypeOK, ListedIsShown, PrintsAreRead, NeverLess, [Next]_vars
               PROVE  NeverLess'
    OBVIOUS
  <2>1. CASE UNCHANGED vars \/ Source
    <3>1. \A k \in Keys : file[k][0] # 0 => file'[k][0] = file[k][0]
      BY FilesStay DEF Stamps
    <3> QED  BY <2>1, <3>1, NeverLessKept DEF vars, Source
  <2> QED  BY <2>1, NeverLessBuild DEF Next
<1> QED
  BY <1>1, NeverLessInit, PrintsInit, PrintsStep, ListedInit, ListedStep, FlightTypes,
     IngestInvariant, PTL DEF Spec

\* What one step of the build does to what a listed flight shows.
LEMMA ListedNeverShrinks ==
    ASSUME TypeOK, ListedIsShown, PrintsAreRead, NeverLess, [Next]_vars,
           NEW f \in Present(catalog)
    PROVE  /\ Good(file, f, detail[f].keys, detail'[f].keys)
           /\ Good(file, f, catalog[f].keys, catalog'[f].keys)
           /\ Good(file, f, summary[f].keys, summary'[f].keys)
<1>0. f \in Flights /\ build \in Build
  BY DEF TypeOK, Present
<1>1. /\ Good(file, f, detail[f].keys, detail[f].keys)
      /\ Good(file, f, catalog[f].keys, catalog[f].keys)
      /\ Good(file, f, summary[f].keys, summary[f].keys)
      /\ Good(file, f, summary[f].keys, detail[f].keys)
  BY <1>0 DEF NeverLess, DetailsLead, Below
<1>2. CASE UNCHANGED <<detail, catalog, summary>>
  BY <1>1, <1>2
<1>3. ASSUME NEW g \in Flights, PublishesDetail(g) PROVE
           /\ Good(file, f, detail[f].keys, detail'[f].keys)
           /\ UNCHANGED <<catalog, summary>>
  <2>1. g \in Present(build.new)
    BY <1>3, DetailFields DEF ListedIsShown
  <2>2. Good(file, g, detail[g].keys, build.new[g].keys)
    BY <1>3, <2>1, DetailFields DEF NeverLess, NewIsMore, Proposing
  <2> QED  BY <1>0, <1>1, <1>3, <2>2, DetailFields
<1>4. CASE PublishesSummary
  <2>1. f \in Present(build.new)
    BY <1>0, <1>4, SummaryFields DEF NeverLess, ListedIsKept, Proposing
  <2>2. build.new[f] = detail[f]
    BY <1>0, <1>4, <2>1, SummaryFields DEF NeverLess, NewIsMore
  <2> QED  BY <1>0, <1>1, <1>4, <2>2, SummaryFields
<1>5. CASE WritesCatalog
  <2>1. Good(file, f, catalog[f].keys, build.new[f].keys)
    BY <1>0, <1>5, CatalogFields DEF NeverLess, NewIsMore, Below
  <2> QED  BY <1>0, <1>1, <1>5, <2>1, CatalogFields DEF images
<1>6. [Next]_vars => \/ UNCHANGED <<detail, catalog, summary>>
                     \/ PublishesSummary \/ WritesCatalog \/ \E g \in Flights : PublishesDetail(g)
  BY DEF vars, products, images, Next, Source, BuildStep, BuildFault, BuildBegins, Fingerprints,
     Decodes, Rejects, Numbers, PublishesPlot, CopiesLatest, SavesState, BuildEnds, DecodeFails,
     TransactionFails, CopyFails, BuildKilled
<1> QED  BY <1>1, <1>2, <1>3, <1>4, <1>5, <1>6

(***************************************************************************)
(* A listed flight stays listed and in the image of the day, and what it   *)
(* shows is never replaced by what was read from less of it, whichever     *)
(* steps fail, however many flights and files.                             *)
(***************************************************************************)
THEOREM ProductsNeverShrinkEver == Spec => ProductsNeverShrink
<1>1. TypeOK /\ ListedIsShown /\ PrintsAreRead /\ NeverLess /\ [Next]_vars =>
          [\A f \in Present(catalog) : /\ AsGood(f, detail[f].keys, detail'[f].keys)
                                       /\ AsGood(f, catalog[f].keys, catalog'[f].keys)
                                       /\ AsGood(f, summary[f].keys, summary'[f].keys)]_vars
  BY ListedNeverShrinks, GoodIsAsGood DEF Present
<1> QED
  BY <1>1, NeverLessInvariant, PrintsInit, PrintsStep, ListedInit, ListedStep, FlightTypes,
     IngestInvariant, PTL DEF Spec, ProductsNeverShrink
-----------------------------------------------------------------------------
(***************************************************************************)
(* A build may leave the image of the day alone when it changed no flight. *)
(* That is right because the image then agrees with the details: whatever  *)
(* a build that was cut short published is of a day in which some flight   *)
(* has files that are not saved, and which the next build decodes or       *)
(* reports.                                                                *)
(***************************************************************************)
Settled == \A f \in Complete : saved[f] = There(f)
Agree(S) == \A f \in S : summary[f] = detail[f] /\ detail[f].number = Rank(f, S)
DayIsShown == Settled => Agree(Complete)

SavedIsComplete ==
    /\ Present(detail) \subseteq Complete
    /\ \A f \in Flights : saved[f] # {} => f \in Present(detail)

FoundFirst ==
    /\ build.found \subseteq Complete
    /\ build.at \notin {"idle", "status"} =>
           \A f \in Flights : saved[f] # {} \/ build.prints[f] # {} => f \in build.found
    /\ build.at \in Proposing => Present(build.new) \subseteq build.found
    /\ build.at \in {"print", "decode"} => build.todo \subseteq build.found

\* Flights whose fingerprint is not taken yet, and those that were given up.
Awaited(f) == f \in build.todo /\ ~InHand(f)
GivenUp(f) == build.prints[f] = {} /\ build.failed /\ saved[f] # There(f)

WhilePrinting ==
    build.at \in {"print", "decode"} =>
        /\ \A f \in build.found : ~Awaited(f) =>
               /\ build.prints[f] # {} \/ (GivenUp(f) /\ ~InHand(f))
               /\ build.prints[f] # {} =>
                      saved[f] \subseteq build.prints[f] /\ build.prints[f] \subseteq There(f)
               /\ build.prints[f] # {} /\ ~InHand(f) => f \in Present(build.new)
               /\ f \in build.changed => saved[f] # There(f)
        /\ (\A f \in build.found :
               /\ saved[f] # {}
               /\ saved[f] = IF Awaited(f) THEN There(f) ELSE build.prints[f])
                   => Agree(build.found)

WhileReplacing ==
    build.at \in {"publish", "detail"} =>
        /\ build.todo \subseteq build.changed
        /\ \A f \in build.found :
               /\ build.prints[f] # {} \/ GivenUp(f)
               /\ build.prints[f] # {} => /\ f \in Present(build.new)
                                          /\ Good(file, f, build.prints[f], build.new[f].keys)
        /\ \A f \in Present(build.new) : build.new[f].number = Rank(f, Present(build.new))
        /\ build.changed = {} /\ (\A f \in build.found : build.prints[f] # {})
               => \A f \in build.found : summary[f] = detail[f]
        /\ Settled => build.changed = {}

BeforeState ==
    build.at \in {"latest", "catalog", "state"} =>
        /\ \A f \in build.found : build.prints[f] # {} => f \in Present(detail)
        /\ build.prints # NoPrints =>
               \A f \in build.found : build.prints[f] # {} \/ GivenUp(f)
        /\ (\A f \in Complete : build.prints[f] = There(f)) => Agree(Complete)

Lists(f, entry, image) ==
    entry # Nothing /\ entry = image /\ Good(file, f, build.prints[f], entry.keys)

BeforeSuccess ==
    BuildReportsSuccess =>
        \A f \in build.found :
            /\ build.at = "latest" => Lists(f, build.new[f], summary[f])
            /\ build.at = "catalog" => Lists(f, build.new[f], latest[f])
            /\ build.at \in {"state", "status"} => Lists(f, catalog[f], latest[f])

DayInv ==
    /\ DayIsShown /\ SavedIsComplete /\ FoundFirst /\ WhilePrinting /\ WhileReplacing
    /\ BeforeState /\ BeforeSuccess

LEMMA CompleteHasFiles ==
    ASSUME NEW f \in Complete PROVE f \in Flights /\ There(f) # {}
BY DEF Complete

LEMMA SameFiles ==
    ASSUME UNCHANGED file
    PROVE  Complete' = Complete /\ \A f \in Flights : There(f)' = There(f)
BY DEF Complete, There

LEMMA FilesArrive ==
    ASSUME \A k \in Keys : file[k][0] # 0 => file'[k][0] # 0
    PROVE  Complete \subseteq Complete' /\ \A f \in Flights : There(f) \subseteq There(f)'
<1>1. \A f \in Flights : There(f) \subseteq There(f)'
  <2> SUFFICES ASSUME NEW f \in Flights PROVE There(f) \subseteq There(f)'
    OBVIOUS
  <2>1. UNION StreamsOf[f] \subseteq Keys
    OBVIOUS
  <2> QED  BY <2>1 DEF There
<1> QED  BY <1>1 DEF Complete

LEMMA SavedIsThere == PrintsAreRead => \A f \in Flights : saved[f] \subseteq There(f)
BY HeldIsThere, GoodIsHeld DEF PrintsAreRead, SavedIsShown, Shown, GoodIfAny

LEMMA PrintsAreThere ==
    ASSUME PrintsAreRead, build.at \in {"latest", "catalog", "state"}, NEW f \in Flights
    PROVE  build.prints[f] \subseteq There(f)
BY HeldIsThere, GoodIsHeld DEF PrintsAreRead, BeforeSaving, Shown, GoodIfAny

LEMMA DayInit == Init => DayInv
<1> SUFFICES ASSUME Init PROVE DayInv
  OBVIOUS
<1>1. Complete = {}
  <2>1. \A f \in Flights : There(f) = {}
    <3> SUFFICES ASSUME NEW f \in Flights PROVE There(f) = {}
      OBVIOUS
    <3>1. UNION StreamsOf[f] \subseteq Keys
      OBVIOUS
    <3> QED  BY <3>1 DEF Init, SyncInit, There, Stamps
  <2> QED  BY <2>1 DEF Complete
<1> QED
  BY <1>1, NoneIsPresent DEF Init, NoBuild, NoPrints, DayInv, DayIsShown, Agree, SavedIsComplete,
     FoundFirst, WhilePrinting, WhileReplacing, BeforeState, BeforeSuccess, Proposing

\* Files arrive, and the products stay as they are.
LEMMA DayKept ==
    ASSUME PrintsAreRead, DayInv, UNCHANGED <<products, build>>,
           \A k \in Keys : file[k][0] # 0 => file'[k][0] = file[k][0]
    PROVE  DayInv'
<1> USE DEF products, images, DayInv
<1>1. Complete \subseteq Complete' /\ \A f \in Flights : There(f) \subseteq There(f)'
  BY FilesArrive
<1>2. \A f \in Flights : \A old, keys : Good(file, f, old, keys) => Good(file', f, old, keys)
  BY GoodStays
<1>3. \A f \in Flights : saved[f] = There(f)' => saved[f] = There(f)
  BY <1>1, SavedIsThere
<1>4. Settled' => Settled /\ Complete' = Complete
  <2>1. ASSUME Settled', NEW f \in Complete' PROVE f \in Complete
    <3>1. f \in Flights /\ There(f)' # {}
      BY DEF Complete
    <3>2. saved[f] # {}
      BY <2>1, <3>1 DEF Settled
    <3> QED  BY <3>1, <3>2 DEF SavedIsComplete
  <2> QED  BY <1>1, <1>3, <2>1, CompleteHasFiles DEF Settled
<1>5. Present(detail)' = Present(detail) /\ Present(build.new)' = Present(build.new)
  BY DEF Present
<1>6. \A f \in Flights : /\ Awaited(f)' <=> Awaited(f)
                         /\ InHand(f)' <=> InHand(f)
                         /\ GivenUp(f) => GivenUp(f)'
  BY <1>3 DEF Awaited, InHand, IsNextFlight, GivenUp
<1>7. DayIsShown' /\ SavedIsComplete' /\ FoundFirst'
  BY <1>1, <1>4, <1>5 DEF DayIsShown, Agree, SavedIsComplete, FoundFirst
<1>8. WhilePrinting'
  BY <1>1, <1>3, <1>5, <1>6, CompleteHasFiles DEF WhilePrinting, FoundFirst, Agree
<1>9. WhileReplacing'
  BY <1>2, <1>4, <1>5, <1>6, CompleteHasFiles DEF WhileReplacing, FoundFirst
<1>10. BeforeState'
  <2>1. ASSUME build.at \in {"latest", "catalog", "state"},
               \A f \in Complete' : build.prints[f] = There(f)'
        PROVE  Complete' = Complete /\ \A f \in Complete : build.prints[f] = There(f)
    <3>1. \A f \in Complete' : f \in Flights /\ build.prints[f] # {}
      BY <2>1, CompleteHasFiles DEF Complete
    <3>2. Complete' = Complete
      BY <1>1, <2>1, <3>1 DEF FoundFirst
    <3>3. \A f \in Flights : build.prints[f] \subseteq There(f)
      BY <2>1, PrintsAreThere
    <3> QED  BY <1>1, <2>1, <3>1, <3>2, <3>3
  <2> QED  BY <1>5, <1>6, <2>1, CompleteHasFiles DEF BeforeState, FoundFirst, Agree
<1>11. BeforeSuccess'
  BY <1>2, CompleteHasFiles DEF BeforeSuccess, BuildReportsSuccess, Lists, FoundFirst
<1> QED  BY <1>7, <1>8, <1>9, <1>10, <1>11

\* What every action of a build may use of the invariants.
DayContext ==
    /\ TypeOK /\ ListedIsShown /\ PrintsAreRead /\ NeverLess /\ DayInv

LEMMA DayFacts ==
    ASSUME DayContext
    PROVE  /\ build \in Build
           /\ {detail, plot, summary, latest, catalog} \subseteq [Flights -> Product]
           /\ \A f \in Complete : f \in Flights /\ There(f) # {}
           /\ \A f \in Flights : saved[f] \subseteq There(f)
BY CompleteHasFiles, SavedIsThere DEF DayContext, TypeOK

\* A step that moves neither the files nor what the image and the details show.
LEMMA DayStays ==
    ASSUME DayContext, UNCHANGED <<file, detail, summary, saved>>
    PROVE  DayIsShown' /\ SavedIsComplete'
<1>1. Complete' = Complete /\ \A f \in Flights : There(f)' = There(f)
  BY SameFiles
<1>2. Settled' <=> Settled
  BY <1>1, DayFacts DEF Settled
<1>3. Present(detail)' = Present(detail)
  BY DEF Present
<1> QED  BY <1>1, <1>2, <1>3 DEF DayContext, DayInv, DayIsShown, Agree, SavedIsComplete

LEMMA DayBegins == ASSUME DayContext, BuildBegins PROVE DayInv'
<1> USE DEF DayInv, Still, products, images
<1>1. Complete' = Complete /\ \A f \in Flights : There(f)' = There(f)
  BY BeginsFields, SameFiles
<1>2. Present(detail)' = Present(detail)
  BY BeginsFields DEF Present
<1>3. DayIsShown' /\ SavedIsComplete'
  BY BeginsFields, DayStays
<1>4. FoundFirst'
  <2>1. Present(build'.new) \subseteq Present(detail)
    BY BeginsFields DEF Present, Listed
  <2>2. \A f \in Flights : build'.prints[f] = {}
    BY BeginsFields DEF NoPrints
  <2> QED
    BY <1>1, <2>1, <2>2, BeginsFields, DayFacts DEF DayContext, SavedIsComplete, FoundFirst, Present
<1>5. WhilePrinting'
  <2>1. \A f \in Complete : Awaited(f)'
    BY BeginsFields DEF Awaited, InHand
  <2>2. (\A f \in Complete : saved[f] = There(f)) => Agree(Complete)
    BY DEF DayContext, DayIsShown, Settled
  <2> QED  BY <1>1, <2>1, <2>2, BeginsFields, DayFacts DEF WhilePrinting, Agree
<1>6. WhileReplacing' /\ BeforeState' /\ BeforeSuccess'
  BY BeginsFields DEF WhileReplacing, BeforeState, BeforeSuccess
<1> QED  BY <1>3, <1>4, <1>5, <1>6

LEMMA DayPrints == ASSUME DayContext, NEW f \in Flights, Fingerprints(f) PROVE DayInv'
<1> USE DEF DayInv, Still, Carries, products, images
<1>0. build \in Build
  BY DayFacts
<1>1. Complete' = Complete /\ \A g \in Flights : There(g)' = There(g)
  BY <1>0, PrintsFields, SameFiles
<1>2. Present(detail)' = Present(detail) /\ Present(build.new)' = Present(build.new)
  BY <1>0, PrintsFields DEF Present
<1>3. f \in build.found /\ f \in Complete /\ There(f) # {} /\ f \notin build.changed
  BY <1>0, PrintsFields, DayFacts DEF DayContext, FoundFirst, PrintsAreRead, WhileDecoding
<1>4. DayIsShown' /\ SavedIsComplete'
  BY <1>0, PrintsFields, DayStays
<1>5. FoundFirst'
  BY <1>0, <1>1, <1>2, <1>3, PrintsFields DEF DayContext, FoundFirst, Proposing
<1>6. WhilePrinting'
  <2>1. \A g \in Flights : /\ InHand(g)' <=> g = f
                           /\ ~InHand(g) /\ (Awaited(g) <=> g \in build.todo)
                           /\ Awaited(g)' <=> g \in build.todo /\ g # f
    BY <1>0, PrintsFields DEF Awaited, InHand
  <2>2. \A g \in Flights : g # f => (GivenUp(g)' <=> GivenUp(g))
    BY <1>0, <1>1, PrintsFields DEF GivenUp
  <2>3. build'.prints[f] = There(f) /\ saved[f] \subseteq There(f)
    BY <1>0, PrintsFields, DayFacts
  <2>4. build.found \subseteq Flights
    BY <1>0 DEF Build
  <2>5. ASSUME NEW g \in build.found, ~Awaited(g)'
        PROVE  /\ build'.prints[g] # {} \/ (GivenUp(g) /\ ~InHand(g))'
               /\ build'.prints[g] # {} =>
                      saved[g] \subseteq build'.prints[g] /\ build'.prints[g] \subseteq There(g)
               /\ build'.prints[g] # {} /\ ~InHand(g)' => g \in Present(build.new)
               /\ g \in build.changed => saved[g] # There(g)
    <3>1. CASE g = f
      BY <1>3, <2>1, <2>3, <3>1
    <3>2. CASE g # f
      <4>1. ~Awaited(g) /\ ~InHand(g) /\ ~InHand(g)' /\ build'.prints[g] = build.prints[g]
        BY <1>0, <2>1, <2>4, <2>5, <3>2, PrintsFields
      <4> QED
        BY <1>0, <2>2, <2>4, <3>2, <4>1, PrintsFields DEF DayContext, WhilePrinting
    <3> QED  BY <3>1, <3>2
  <2>6. ASSUME \A g \in build.found :
                   /\ saved[g] # {}
                   /\ saved[g] = IF Awaited(g)' THEN There(g) ELSE build'.prints[g]
        PROVE  Agree(build.found)
    <3>1. ASSUME NEW g \in build.found
          PROVE  saved[g] # {} /\ saved[g] = IF Awaited(g) THEN There(g) ELSE build.prints[g]
      <4>1. CASE g = f
        BY <1>0, <2>1, <2>3, <2>6, <4>1, PrintsFields
      <4>2. CASE g # f
        BY <1>0, <2>1, <2>4, <2>6, <4>2, PrintsFields
      <4> QED  BY <4>1, <4>2
    <3> QED  BY <1>0, <3>1, PrintsFields DEF DayContext, WhilePrinting
  <2>7. /\ build'.at = "decode" /\ build'.found = build.found /\ build'.changed = build.changed
        /\ UNCHANGED <<saved, summary, detail>>
    BY <1>0, PrintsFields
  <2> QED  BY <1>1, <1>2, <2>4, <2>5, <2>6, <2>7 DEF WhilePrinting, Agree
<1>7. WhileReplacing' /\ BeforeState' /\ BeforeSuccess'
  BY <1>0, PrintsFields DEF WhileReplacing, BeforeState, BeforeSuccess
<1> QED  BY <1>4, <1>5, <1>6, <1>7

\* A flight that is not reused has files that are not saved.
LEMMA NotReusedIsBehind ==
    ASSUME DayContext, NEW f \in Flights, InHand(f), ~Reusable(f)
    PROVE  saved[f] # There(f)
<1>1. f \in build.found /\ ~Awaited(f)
  BY DEF DayContext, DayInv, FoundFirst, Awaited, InHand, IsNextFlight
<1>2. /\ build.prints[f] # {} /\ saved[f] \subseteq build.prints[f]
      /\ build.prints[f] \subseteq There(f)
  BY <1>1 DEF DayContext, DayInv, WhilePrinting, InHand
<1>3. saved[f] # {} => f \in Present(detail) /\ f \in Present(plot)
  BY DEF DayContext, DayInv, SavedIsComplete, ListedIsShown, ReadersFindPlots
<1> QED  BY <1>2, <1>3 DEF Reusable

LEMMA DayTakes ==
    ASSUME DayContext, NEW f \in Flights, Takes(f),
           \/ /\ build'.prints[f] = build.prints[f] /\ build'.new[f] # Nothing
              /\ build'.failed = build.failed
           \/ /\ build'.prints[f] = {} /\ build'.new[f] = build.new[f]
              /\ build'.failed /\ saved[f] # There(f),
           build'.changed = build.changed \/ (build'.changed = build.changed \cup {f}
                                                /\ saved[f] # There(f))
    PROVE  DayInv'
<1> USE DEF DayInv, Still, Carries, products, images
<1>0. build \in Build /\ build.found \subseteq Flights
  BY DayFacts DEF Build
<1>1. Complete' = Complete /\ \A g \in Flights : There(g)' = There(g)
  BY SameFiles DEF Takes
<1>2. InHand(f) /\ f \in build.found /\ ~Awaited(f) /\ \A g \in Flights : InHand(g) <=> g = f
  BY NextIsOne DEF Takes, InHand, Awaited, DayContext, FoundFirst
<1>3. /\ Present(detail)' = Present(detail)
      /\ \A g \in Flights : g # f => (g \in Present(build'.new) <=> g \in Present(build.new))
  BY DEF Takes, Present
<1>4. DayIsShown' /\ SavedIsComplete'
  BY DayStays DEF Takes
<1>5. FoundFirst'
  BY <1>1, <1>2, <1>3 DEF Takes, DayContext, FoundFirst, Proposing, Present
<1>6. WhilePrinting'
  <2>1. \A g \in Flights : /\ ~InHand(g)' /\ (Awaited(g)' <=> g \in build.todo /\ g # f)
                           /\ Awaited(g) <=> g \in build.todo /\ g # f
    BY <1>2 DEF Takes, Awaited, InHand
  <2>2. \A g \in Flights : g # f /\ GivenUp(g) => GivenUp(g)'
    BY <1>1 DEF Takes, GivenUp
  <2>3. build.prints[f] # {} /\ f \notin build.changed
    BY <1>2 DEF Takes, DayContext, WhilePrinting, PrintsAreRead, WhileDecoding
  <2>4. build'.prints[f] # {} => f \in Present(build'.new)
    BY DEF Present
  <2>5. build'.prints[f] = {} => GivenUp(f)'
    BY <1>1, <2>3 DEF Takes, GivenUp
  <2>6. ASSUME NEW g \in build.found, ~Awaited(g)'
        PROVE  /\ build'.prints[g] # {} \/ (GivenUp(g) /\ ~InHand(g))'
               /\ build'.prints[g] # {} =>
                      saved[g] \subseteq build'.prints[g] /\ build'.prints[g] \subseteq There(g)
               /\ build'.prints[g] # {} => g \in Present(build'.new)
               /\ g \in build'.changed => saved[g] # There(g)
    <3>1. CASE g = f
      BY <1>2, <2>1, <2>3, <2>4, <2>5, <3>1 DEF Takes, DayContext, WhilePrinting
    <3>2. CASE g # f
      BY <1>0, <1>2, <1>3, <2>1, <2>2, <2>6, <3>2 DEF Takes, DayContext, WhilePrinting
    <3> QED  BY <3>1, <3>2
  <2>7. ASSUME \A g \in build.found :
                   /\ saved[g] # {}
                   /\ saved[g] = IF Awaited(g)' THEN There(g) ELSE build'.prints[g]
        PROVE  Agree(build.found)
    <3>1. build'.prints[f] = build.prints[f]
      BY <1>2, <2>1, <2>7
    <3>2. ASSUME NEW g \in build.found
          PROVE  saved[g] # {} /\ saved[g] = IF Awaited(g) THEN There(g) ELSE build.prints[g]
      <4>1. (Awaited(g)' <=> Awaited(g)) /\ build'.prints[g] = build.prints[g]
        BY <1>0, <2>1, <3>1, Zenon DEF Takes
      <4> QED  BY <2>7, <4>1
    <3> QED  BY <3>2 DEF Takes, DayContext, WhilePrinting
  <2>8. build'.at = "print" /\ build'.found = build.found /\ UNCHANGED <<saved, summary, detail>>
    BY DEF Takes
  <2>9. Present(build.new)' = Present(build'.new)
    BY DEF Present
  <2>10. Agree(build.found)' <=> Agree(build.found)
    BY <2>8 DEF Agree
  <2>11. (\A g \in build.found :
              /\ saved[g] # {}
              /\ saved[g] = IF Awaited(g) THEN There(g) ELSE build.prints[g])'
              => Agree(build.found)'
    BY <1>0, <1>1, <2>7, <2>8, <2>10
  <2>12. (\A g \in build.found : ~Awaited(g) =>
             /\ build.prints[g] # {} \/ (GivenUp(g) /\ ~InHand(g))
             /\ build.prints[g] # {} =>
                    saved[g] \subseteq build.prints[g] /\ build.prints[g] \subseteq There(g)
             /\ build.prints[g] # {} /\ ~InHand(g) => g \in Present(build.new)
             /\ g \in build.changed => saved[g] # There(g))'
    <3> SUFFICES ASSUME NEW g \in build.found, ~Awaited(g)'
                 PROVE  (/\ build.prints[g] # {} \/ (GivenUp(g) /\ ~InHand(g))
                         /\ build.prints[g] # {} => /\ saved[g] \subseteq build.prints[g]
                                                   /\ build.prints[g] \subseteq There(g)
                         /\ build.prints[g] # {} /\ ~InHand(g) => g \in Present(build.new)
                         /\ g \in build.changed => saved[g] # There(g))'
      BY <2>8
    <3>1. There(g)' = There(g) /\ saved'[g] = saved[g]
      BY <1>0, <1>1, <2>8
    <3> QED  BY <2>6, <2>9, <3>1
  <2> QED  BY <2>11, <2>12 DEF WhilePrinting
<1>7. WhileReplacing' /\ BeforeState' /\ BeforeSuccess'
  BY DEF Takes, WhileReplacing, BeforeState, BeforeSuccess
<1> QED  BY <1>4, <1>5, <1>6, <1>7

LEMMA DayDecodes ==
    ASSUME DayContext, NEW f \in Flights, Decodes(f) \/ Rejects(f) \/ DecodeFails(f)
    PROVE  DayInv'
<1>0. TypeOK
  BY DEF DayContext
<1>1. CASE Decodes(f)
  <2>1. Takes(f) /\ build'.prints[f] = build.prints[f] /\ build'.failed = build.failed
    BY <1>0, <1>1, DecodesMoves
  <2>2. InHand(f)
    BY <2>1 DEF Takes, InHand
  <2>3. CASE Reusable(f) /\ build'.new[f] = detail[f] /\ build'.changed = build.changed
    <3>1. detail[f] # Nothing
      BY <2>3 DEF Reusable, Present
    <3> QED  BY <2>1, <2>3, <3>1, DayTakes
  <2>4. CASE /\ ~Reusable(f) /\ Decodable(f) /\ build'.new[f] = Decoded(f)
             /\ build'.changed = build.changed \cup {f}
    <3>1. Decoded(f) # Nothing
      <4>1. StreamsOf[f] # {}
        OBVIOUS
      <4>2. Chosen(f, There(f)) # {}
        BY <2>4, <4>1 DEF Decodable
      <4> QED  BY <4>2 DEF Decoded, Nothing
    <3> QED  BY <2>1, <2>2, <2>4, <3>1, DayTakes, NotReusedIsBehind
  <2> QED  BY <1>0, <1>1, <2>3, <2>4, DecodesMoves
<1>2. CASE Rejects(f) \/ DecodeFails(f)
  <2>1. /\ Takes(f) /\ ~Reusable(f) /\ build'.failed /\ build'.changed = build.changed
        /\ build'.prints[f] = {} /\ build'.new[f] = build.new[f]
    BY <1>0, <1>2, SkipsMoves
  <2>2. InHand(f)
    BY <2>1 DEF Takes, InHand
  <2> QED  BY <2>1, <2>2, DayTakes, NotReusedIsBehind
<1> QED  BY <1>1, <1>2

\* When all fingerprints are taken and no flight was given up.
LEMMA ReusedIsSaved ==
    ASSUME DayContext, build.at = "print", build.todo = {}, NEW f \in build.found,
           build.prints[f] # {}, f \notin build.changed
    PROVE  build.prints[f] = saved[f] /\ f \in Present(build.new) /\ build.new[f] = detail[f]
<1>1. f \in Flights /\ ~Awaited(f) /\ ~InHand(f)
  BY DayFacts DEF Build, Awaited, InHand
<1>2. f \in Present(build.new)
  BY <1>1 DEF DayContext, DayInv, WhilePrinting
<1> QED  BY <1>1, <1>2 DEF DayContext, PrintsAreRead, WhileDecoding

LEMMA DayNumbers == ASSUME DayContext, Numbers PROVE DayInv'
<1> USE DEF DayInv, Still, Carries, products, images
<1>0. build \in Build /\ build.found \subseteq Flights
  BY DayFacts DEF Build
<1>1. Complete' = Complete /\ \A g \in Flights : There(g)' = There(g)
  BY <1>0, NumbersFields, SameFiles
<1>2. DayIsShown' /\ SavedIsComplete'
  BY <1>0, NumbersFields, DayStays
<1>3. Present(build.new)' = Present(build.new) /\ Present(build'.new) = Present(build.new)
      /\ Present(build.new) \subseteq build.found
  BY <1>0, NumbersFields DEF DayContext, FoundFirst, Present, Proposing
<1>4. FoundFirst'
  BY <1>0, <1>1, <1>3, NumbersFields DEF DayContext, FoundFirst, Proposing
<1>5. \A f \in build.found :
         /\ build.prints[f] # {} \/ GivenUp(f)
         /\ build.prints[f] # {} =>
                saved[f] \subseteq build.prints[f] /\ build.prints[f] \subseteq There(f)
         /\ build.prints[f] # {} => f \in Present(build.new)
         /\ f \in build.changed => saved[f] # There(f)
  BY <1>0, NumbersFields DEF DayContext, WhilePrinting, Awaited, InHand
<1>6. ASSUME NEW f \in build.found, build.prints[f] # {}
      PROVE  Good(file, f, build.prints[f], build.new[f].keys)
  <2>1. CASE f \in build.changed
    BY <1>0, <1>6, <2>1, NumbersFields DEF DayContext, PrintsAreRead, WhileDecoding, GoodIfAny
  <2>2. CASE f \notin build.changed
    BY <1>0, <1>6, <2>2, NumbersFields, ReusedIsSaved
    DEF DayContext, PrintsAreRead, SavedIsShown, Shown, GoodIfAny
  <2> QED  BY <2>1, <2>2
<1>7. ASSUME build.changed = {}, \A f \in build.found : build.prints[f] # {}
      PROVE  Agree(build.found)
  <2>1. \A f \in build.found : ~Awaited(f) /\ saved[f] = build.prints[f]
    BY <1>0, <1>7, NumbersFields, ReusedIsSaved DEF Awaited
  <2> QED  BY <1>0, <1>7, <2>1, NumbersFields DEF DayContext, WhilePrinting
<1>8. ASSUME Settled PROVE build'.changed = {}
  <2>1. ASSUME NEW f \in build.found
        PROVE  /\ build.prints[f] = There(f) /\ saved[f] = There(f) /\ There(f) # {}
               /\ f \notin build.changed
    <3>1. f \in Complete /\ saved[f] = There(f) /\ There(f) # {}
      BY <1>8, DayFacts DEF DayContext, FoundFirst, Settled
    <3>2. build.prints[f] # {} /\ f \notin build.changed
      BY <1>5, <3>1 DEF GivenUp
    <3> QED  BY <1>5, <3>1, <3>2
  <2>2. build.changed = {}
    BY <1>0, <1>3, <2>1, NumbersFields DEF DayContext, ListedIsShown
  <2>3. Agree(build.found) /\ Present(build.new) = build.found
    BY <1>3, <1>5, <1>7, <2>1, <2>2
  <2>4. ASSUME NEW f \in Present(build.new) PROVE Numbered(build.new)[f] = build.new[f]
    <3>1. build.new[f] = detail[f] /\ f \in Flights
      BY <1>0, <2>1, <2>2, <2>3, <2>4, NumbersFields, ReusedIsSaved
    <3>2. build.new[f].number = Rank(f, Present(build.new))
      BY <2>3, <3>1 DEF Agree
    <3>3. build.new[f] \in Product /\ build.new[f] # Nothing
      BY <1>0, <3>1, <2>4 DEF Build, Present
    <3>4. Numbered(build.new)[f] = [build.new[f] EXCEPT !.number = Rank(f, Present(build.new))]
      BY <3>1, <3>3 DEF Numbered
    <3> QED  BY <3>2, <3>3, <3>4 DEF Product
  <2> QED  BY <1>0, <2>2, <2>4, NumbersFields
<1>9. UNCHANGED <<file, saved, summary, detail>> /\ build'.found = build.found
      /\ build'.prints = build.prints /\ build'.failed = build.failed
      /\ \A f \in Flights : GivenUp(f)' <=> GivenUp(f)
  BY <1>0, <1>1, NumbersFields DEF GivenUp
<1>10. WhilePrinting'
  BY <1>0, NumbersFields DEF WhilePrinting
<1>11. WhileReplacing'
  <2>1. Settled' => Settled
    BY <1>1, <1>9, DayFacts DEF Settled
  <2>2. \A f \in build.found : build.prints[f] # {} =>
            f \in Present(build'.new) /\ Good(file, f, build.prints[f], build'.new[f].keys)
    BY <1>0, <1>5, <1>6, NumbersFields
  <2>3. \A f \in Present(build'.new) : build'.new[f].number = Rank(f, Present(build'.new))
    BY <1>0, <1>3, NumbersFields
  <2>4. build'.changed = {} => build.changed = {}
    BY <1>0, NumbersFields
  <2> QED
    BY <1>0, <1>3, <1>5, <1>7, <1>8, <1>9, <2>1, <2>2, <2>3, <2>4, NumbersFields
    DEF WhileReplacing, Agree
<1>12. ASSUME build'.at = "latest" PROVE Present(build.new) = {}
  BY <1>0, <1>12, NumbersFields
<1>13. BeforeState'
  <2>1. ASSUME Present(build.new) = {} PROVE \A f \in build.found : build.prints[f] = {}
    BY <1>5, <2>1
  <2>2. ASSUME Present(build.new) = {}, \A f \in Complete : build.prints[f] = There(f)
        PROVE  Complete = {}
    <3>1. \A f \in Complete : f \in build.found
      BY <1>0, <2>2, DayFacts, NumbersFields DEF DayContext, FoundFirst
    <3> QED  BY <2>1, <2>2, <3>1, DayFacts
  <2>3. \A f \in Complete : f \in Flights
    BY DayFacts
  <2> QED
    BY <1>0, <1>1, <1>5, <1>9, <1>12, <2>1, <2>2, <2>3, NumbersFields DEF BeforeState, Agree
<1>14. BeforeSuccess'
  <2>1. ASSUME build'.at = "latest", ~build.failed PROVE build.found = {}
    BY <1>5, <1>12, <2>1 DEF GivenUp
  <2> QED  BY <1>0, <1>9, <2>1, NumbersFields DEF BeforeSuccess, BuildReportsSuccess
<1> QED  BY <1>2, <1>4, <1>10, <1>11, <1>13, <1>14

LEMMA DayPublishesPlot == ASSUME DayContext, NEW f \in Flights, PublishesPlot(f) PROVE DayInv'
<1> USE DEF DayInv, Carries
<1>0. TypeOK /\ build \in Build /\ build.found \subseteq Flights
  BY DayFacts DEF Build, DayContext
<1>1. Complete' = Complete /\ \A g \in Flights : There(g)' = There(g)
  BY <1>0, PlotFields, SameFiles
<1>2. DayIsShown' /\ SavedIsComplete'
  BY <1>0, PlotFields, DayStays
<1>3. Present(build.new)' = Present(build.new)
      /\ (Settled' <=> Settled) /\ \A g \in Flights : GivenUp(g)' <=> GivenUp(g)
  BY <1>0, <1>1, PlotFields, DayFacts DEF Present, GivenUp, Settled
<1>4. FoundFirst'
  BY <1>0, <1>1, <1>3, PlotFields DEF DayContext, FoundFirst, Proposing
<1>5. WhileReplacing'
  BY <1>0, <1>1, <1>3, PlotFields DEF DayContext, WhileReplacing
<1>6. WhilePrinting' /\ BeforeState' /\ BeforeSuccess'
  BY <1>0, PlotFields DEF WhilePrinting, BeforeState, BeforeSuccess
<1> QED  BY <1>2, <1>4, <1>5, <1>6

LEMMA DayPublishesDetail ==
    ASSUME DayContext, NEW f \in Flights, PublishesDetail(f) PROVE DayInv'
<1> USE DEF DayInv, Carries
<1>0. TypeOK /\ build \in Build /\ build.found \subseteq Flights
  BY DayFacts DEF Build, DayContext
<1>1. Complete' = Complete /\ \A g \in Flights : There(g)' = There(g)
  BY <1>0, DetailFields, SameFiles
<1>2. f \in build.changed /\ f \in Present(build.new)
  BY <1>0, DetailFields DEF DayContext, WhileReplacing, ListedIsShown
<1>3. ~Settled /\ ~Settled'
  BY <1>0, <1>1, <1>2, DetailFields, DayFacts DEF DayContext, WhileReplacing, Settled
<1>4. DayIsShown'
  BY <1>3 DEF DayIsShown
<1>5. f \in Complete /\ Present(detail)' = Present(detail) \cup {f}
  BY <1>0, <1>2, DetailFields DEF Present, DayContext, FoundFirst, Proposing
<1>6. SavedIsComplete'
  BY <1>0, <1>1, <1>5, DetailFields DEF DayContext, SavedIsComplete
<1>7. Present(build.new)' = Present(build.new)
      /\ \A g \in Flights : GivenUp(g)' <=> GivenUp(g)
  BY <1>0, <1>1, DetailFields DEF Present, GivenUp
<1>8. FoundFirst'
  BY <1>0, <1>1, <1>7, DetailFields DEF DayContext, FoundFirst, Proposing
<1>9. WhileReplacing'
  <2>1. /\ UNCHANGED <<file, summary, saved>> /\ build'.found = build.found
        /\ build.at = "detail" /\ build'.todo = build.todo \ {f}
        /\ build'.changed = build.changed /\ build'.failed = build.failed
        /\ build'.prints = build.prints /\ build'.new = build.new
    BY <1>0, DetailFields
  <2>2. build.changed # {}
    BY <1>2
  <2> QED  BY <1>0, <1>1, <1>3, <1>7, <2>1, <2>2 DEF DayContext, WhileReplacing
<1>10. WhilePrinting' /\ BeforeState' /\ BeforeSuccess'
  BY <1>0, DetailFields DEF WhilePrinting, BeforeState, BeforeSuccess
<1> QED  BY <1>4, <1>6, <1>8, <1>9, <1>10

LEMMA DayPublishesSummary == ASSUME DayContext, PublishesSummary PROVE DayInv'
<1> USE DEF DayInv, Carries
<1>0. build \in Build /\ build.found \subseteq Flights
  BY DayFacts DEF Build
<1>1. Complete' = Complete /\ \A g \in Flights : There(g)' = There(g)
  BY <1>0, SummaryFields, SameFiles
<1>2. /\ Settled' <=> Settled
      /\ Present(detail)' = Present(detail) /\ Present(build.new)' = Present(build.new)
      /\ \A g \in Flights : GivenUp(g)' <=> GivenUp(g)
  BY <1>0, <1>1, SummaryFields, DayFacts DEF Settled, Present, GivenUp
<1>3. \A f \in Present(build.new) : build.new[f] = detail[f]
  BY <1>0, SummaryFields DEF DayContext, NeverLess, NewIsMore
<1>4. DayIsShown'
  <2> SUFFICES ASSUME Settled PROVE Agree(Complete)'
    BY <1>2 DEF DayIsShown
  <2>1. build.changed = {} /\ Agree(Complete)
    BY <1>0, SummaryFields DEF DayContext, WhileReplacing, DayIsShown
  <2>2. CASE summary # NoProducts
    BY <1>0, <1>1, <2>1, <2>2, SummaryFields DEF Agree
  <2>3. CASE summary = NoProducts
    <3>1. \A f \in Complete : detail[f] = Nothing
      BY <2>1, <2>3, DayFacts DEF Agree, NoProducts
    <3>2. \A f \in Complete : f \in Present(detail)
      BY DayFacts DEF DayContext, SavedIsComplete, Settled
    <3> QED  BY <1>1, <3>1, <3>2 DEF Present, Agree
  <2> QED  BY <2>2, <2>3
<1>5. SavedIsComplete'
  BY <1>0, <1>1, <1>2, SummaryFields DEF DayContext, SavedIsComplete
<1>6. FoundFirst'
  BY <1>0, <1>1, <1>2, SummaryFields DEF DayContext, FoundFirst, Proposing
<1>7. ASSUME \A f \in build.found : build.prints[f] # {}
      PROVE  /\ build.found = Present(build.new)
             /\ \A f \in build.found : /\ build.new[f] = detail[f] /\ summary'[f] = detail[f]
                                       /\ detail[f].number = Rank(f, build.found)
                                       /\ Good(file, f, build.prints[f], build.new[f].keys)
  <2>1. build.found = Present(build.new)
    BY <1>0, <1>7, SummaryFields DEF DayContext, WhileReplacing, FoundFirst, Proposing
  <2>2. \A f \in build.found : /\ build.new[f].number = Rank(f, build.found)
                               /\ Good(file, f, build.prints[f], build.new[f].keys)
    BY <1>0, <1>7, <2>1, SummaryFields DEF DayContext, WhileReplacing
  <2>3. \A f \in build.found : summary'[f] = detail[f]
    <3>1. CASE build.changed # {} \/ summary = NoProducts
      BY <1>0, <1>3, <2>1, <3>1, SummaryFields
    <3>2. CASE build.changed = {} /\ summary # NoProducts
      BY <1>0, <1>7, <3>2, SummaryFields DEF DayContext, WhileReplacing
    <3> QED  BY <3>1, <3>2
  <2> QED  BY <1>3, <2>1, <2>2, <2>3
<1>8. WhilePrinting' /\ WhileReplacing'
  BY <1>0, SummaryFields DEF WhilePrinting, WhileReplacing
<1>9. BeforeState'
  <2>1. \A f \in build.found : /\ build.prints[f] # {} => f \in Present(detail)
                               /\ build.prints[f] # {} \/ GivenUp(f)
    BY <1>0, <1>3, SummaryFields DEF DayContext, WhileReplacing, Present
  <2>2. ASSUME \A f \in Complete : build.prints[f] = There(f)
        PROVE  Complete = build.found /\ \A f \in build.found : build.prints[f] # {}
    BY <1>0, <2>2, SummaryFields, DayFacts DEF DayContext, FoundFirst
  <2>3. \A f \in Complete : f \in Flights
    BY DayFacts
  <2> QED
    BY <1>0, <1>1, <1>2, <1>7, <2>1, <2>2, <2>3, SummaryFields DEF BeforeState, Agree
<1>10. BeforeSuccess'
  <2>1. ASSUME ~build.failed PROVE \A f \in build.found : build.prints[f] # {}
    BY <1>0, <2>1, SummaryFields DEF DayContext, WhileReplacing, GivenUp
  <2>2. \A f \in Present(build.new) : build.new[f] # Nothing
    BY DEF Present
  <2> QED
    BY <1>0, <1>7, <2>1, <2>2, SummaryFields DEF BeforeSuccess, BuildReportsSuccess, Lists
<1> QED  BY <1>4, <1>5, <1>6, <1>8, <1>9, <1>10

LEMMA DayTransactionFails == ASSUME DayContext, TransactionFails PROVE DayInv'
<1> USE DEF DayInv, Still, Carries, products, images
<1>0. build \in Build /\ build.found \subseteq Flights
  BY DayFacts DEF Build
<1>1. Complete' = Complete /\ \A g \in Flights : There(g)' = There(g)
  BY <1>0, TransactionMoves, SameFiles
<1>2. DayIsShown' /\ SavedIsComplete'
  BY <1>0, TransactionMoves, DayStays
<1>3. \A f \in Flights : build'.prints[f] = {}
  BY <1>0, TransactionMoves DEF NoPrints
<1>4. FoundFirst'
  BY <1>0, <1>1, <1>3, TransactionMoves DEF DayContext, FoundFirst, Proposing
<1>5. BeforeState'
  <2>1. (\A f \in Complete : build'.prints[f] = There(f)) => Complete = {}
    BY <1>3, DayFacts
  <2>2. build'.prints = NoPrints /\ build'.found = build.found
    BY <1>0, TransactionMoves
  <2>3. \A f \in Complete : f \in Flights
    BY DayFacts
  <2> QED  BY <1>0, <1>1, <1>3, <2>1, <2>2, <2>3 DEF BeforeState, Agree
<1>6. WhilePrinting' /\ WhileReplacing' /\ BeforeSuccess'
  BY <1>0, TransactionMoves DEF WhilePrinting, WhileReplacing, BeforeSuccess, BuildReportsSuccess
<1> QED  BY <1>2, <1>4, <1>5, <1>6

LEMMA DayEnding ==
    ASSUME DayContext, CopiesLatest \/ CopyFails \/ WritesCatalog PROVE DayInv'
<1> USE DEF DayInv, Carries, images
<1>0. build \in Build /\ build.found \subseteq Flights
  BY DayFacts DEF Build
<1>1. /\ UNCHANGED <<file, detail, summary, saved>> /\ build'.found = build.found
      /\ build.at \in {"latest", "catalog"} /\ build'.at \in {"catalog", "state"}
      /\ build'.prints = build.prints /\ (build.failed => build'.failed)
  BY <1>0, LatestFields, CatalogFields
<1>2. Complete' = Complete /\ \A g \in Flights : There(g)' = There(g)
  BY <1>1, SameFiles
<1>3. DayIsShown' /\ SavedIsComplete'
  BY <1>1, DayStays
<1>4. FoundFirst'
  BY <1>0, <1>1, <1>2 DEF DayContext, FoundFirst, Proposing
<1>5. BeforeState'
  <2>1. Present(detail)' = Present(detail) /\ \A f \in Flights : GivenUp(f) => GivenUp(f)'
    BY <1>1, <1>2 DEF Present, GivenUp
  <2>2. \A f \in Complete : f \in Flights
    BY DayFacts
  <2> QED  BY <1>0, <1>1, <1>2, <2>1, <2>2 DEF DayContext, BeforeState, Agree
<1>6. WhilePrinting' /\ WhileReplacing'
  BY <1>1 DEF WhilePrinting, WhileReplacing
<1>7. BeforeSuccess'
  <2>1. CASE CopiesLatest \/ CopyFails
    <3> SUFFICES ASSUME ~build'.failed, NEW f \in build.found
                 PROVE  Lists(f, build.new[f], latest[f])'
      BY <1>0, <1>1, <2>1, LatestFields DEF BeforeSuccess, BuildReportsSuccess
    <3>1. Lists(f, build.new[f], summary[f])
      BY <1>0, <1>1, <2>1, LatestFields DEF DayContext, BeforeSuccess, BuildReportsSuccess
    <3>2. Present(build.new) # {} /\ summary # NoProducts
      BY <1>0, <3>1 DEF Lists, Present, NoProducts
    <3> QED  BY <1>0, <1>1, <2>1, <3>1, <3>2, LatestFields DEF Lists
  <2>2. CASE WritesCatalog
    BY <1>0, <1>1, <2>2, CatalogFields DEF DayContext, BeforeSuccess, BuildReportsSuccess, Lists
  <2> QED  BY <2>1, <2>2
<1> QED  BY <1>3, <1>4, <1>5, <1>6, <1>7

LEMMA DaySaves == ASSUME DayContext, SavesState PROVE DayInv'
<1> USE DEF DayInv, Carries, images
<1>0. build \in Build /\ build.found \subseteq Flights
  BY DayFacts DEF Build
<1>1. Complete' = Complete /\ \A g \in Flights : There(g)' = There(g)
  BY <1>0, StateFields, SameFiles
<1>2. DayIsShown'
  <2> SUFFICES ASSUME Settled' PROVE Agree(Complete)
    BY <1>0, <1>1, StateFields DEF DayIsShown, Agree
  <2>1. \A f \in Complete : /\ f \in Flights /\ There(f) # {}
                            /\ There(f) = IF build.prints[f] # {} THEN build.prints[f] ELSE saved[f]
    BY <1>0, <1>1, StateFields, DayFacts DEF Settled
  <2>2. \A f \in Complete : f \in build.found
    BY <1>0, <2>1, StateFields DEF DayContext, FoundFirst
  <2>3. CASE build.prints = NoPrints
    <3>1. \A f \in Complete : saved[f] = There(f)
      BY <2>1, <2>3 DEF NoPrints
    <3> QED  BY <3>1 DEF DayContext, DayIsShown, Settled
  <2>4. CASE build.prints # NoPrints
    <3>1. \A f \in Complete : build.prints[f] = There(f)
      BY <1>0, <2>1, <2>2, <2>4, StateFields DEF DayContext, BeforeState, GivenUp
    <3> QED  BY <1>0, <3>1, StateFields DEF DayContext, BeforeState
  <2> QED  BY <2>3, <2>4
<1>3. SavedIsComplete'
  <2>1. Present(detail)' = Present(detail)
    BY <1>0, StateFields DEF Present
  <2>2. \A f \in Flights : saved'[f] # {} => f \in Present(detail)
    BY <1>0, StateFields DEF DayContext, SavedIsComplete, BeforeState, FoundFirst
  <2> QED  BY <1>1, <2>1, <2>2 DEF DayContext, SavedIsComplete
<1>4. FoundFirst'
  BY <1>0, <1>1, StateFields DEF DayContext, FoundFirst, Proposing
<1>5. WhilePrinting' /\ WhileReplacing' /\ BeforeState'
  BY <1>0, StateFields DEF WhilePrinting, WhileReplacing, BeforeState
<1>6. BeforeSuccess'
  BY <1>0, StateFields DEF DayContext, BeforeSuccess, BuildReportsSuccess, Lists
<1> QED  BY <1>2, <1>3, <1>4, <1>5, <1>6

LEMMA DayEnds == ASSUME DayContext, BuildEnds \/ BuildKilled PROVE DayInv'
<1>1. UNCHANGED <<file, detail, summary, saved>> /\ build' = NoBuild
  BY EndsFields DEF Still, products, images
<1>2. DayIsShown' /\ SavedIsComplete'
  BY <1>1, DayStays
<1> QED
  BY <1>1, <1>2 DEF NoBuild, DayInv, FoundFirst, WhilePrinting, WhileReplacing, BeforeState,
     BeforeSuccess, Proposing

LEMMA DayStep == IngestInv /\ DayContext /\ [Next]_vars => DayInv'
<1> SUFFICES ASSUME IngestInv, DayContext, [Next]_vars PROVE DayInv'
  OBVIOUS
<1>1. CASE UNCHANGED vars \/ Source
  <2>1. \A k \in Keys : file[k][0] # 0 => file'[k][0] = file[k][0]
    BY FilesStay DEF Stamps
  <2> QED  BY <1>1, <2>1, DayKept DEF vars, Source, DayContext
<1>2. CASE BuildStep \/ BuildFault
  BY <1>2, BuildActs, DayBegins, DayPrints, DayDecodes, DayNumbers, DayPublishesPlot,
     DayPublishesDetail, DayPublishesSummary, DayTransactionFails, DayEnding, DaySaves, DayEnds
<1> QED  BY <1>1, <1>2 DEF Next

LEMMA DayInvariant == Spec => []DayContext
<1>1. IngestInv /\ DayContext /\ TypeOK' /\ ListedIsShown' /\ PrintsAreRead' /\ NeverLess'
          /\ [Next]_vars => DayContext'
  BY DayStep DEF DayContext
<1>2. Init => DayInv
  BY DayInit
<1>3. TypeOK /\ ListedIsShown /\ PrintsAreRead /\ NeverLess /\ DayInv => DayContext
  BY DEF DayContext
<1> QED
  BY <1>1, <1>2, <1>3, NeverLessInvariant, NeverLessInit, TypesInit, PrintsInit, PrintsStep,
     ListedInit, ListedStep, FlightTypes, IngestInvariant, PTL DEF Spec

(***************************************************************************)
(* A success that is reported is earned: the sync registered and handed on *)
(* all that it listed, and the build lists every flight it found, read     *)
(* from all that it found of it, in the image under the fixed name, also   *)
(* when it had nothing to redraw after builds that were cut short.         *)
(***************************************************************************)
THEOREM SuccessAlwaysEarned == Spec => SuccessIsEarned
<1>1. ASSUME NothingIsLeft, SyncEnds, ReportsSuccess
      PROVE  \A e \in sync.listed \ sync.left : Delivered(e, rows')
  BY <1>1 DEF NothingIsLeft, SyncEnds, store
<1>2. ASSUME DayContext, BuildEnds, BuildReportsSuccess, NEW f \in build.found
      PROVE  /\ f \in Present(catalog)
             /\ AsGood(f, build.prints[f], catalog[f].keys)
             /\ latest[f] = catalog[f]
  <2>1. f \in Flights
    BY <1>2, DayFacts DEF Build
  <2>2. Lists(f, catalog[f], latest[f])
    BY <1>2 DEF DayContext, DayInv, BeforeSuccess, BuildEnds
  <2> QED  BY <2>1, <2>2, GoodIsAsGood DEF Lists, Present
<1>3. NothingIsLeft /\ DayContext /\ [Next]_vars =>
          [/\ SyncEnds /\ ReportsSuccess => \A e \in sync.listed \ sync.left : Delivered(e, rows')
           /\ BuildEnds /\ BuildReportsSuccess =>
                  \A f \in build.found : /\ f \in Present(catalog)
                                         /\ AsGood(f, build.prints[f], catalog[f].keys)
                                         /\ latest[f] = catalog[f]]_vars
  BY <1>1, <1>2
<1> QED  BY <1>3, LeftInvariant, DayInvariant, PTL DEF Spec, SuccessIsEarned

=============================================================================

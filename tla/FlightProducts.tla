--------------------------- MODULE FlightProducts ---------------------------
(***************************************************************************)
(* The display products of the flights of one day                          *)
(* (aurora-menapia-flight-products.py), built from the canonical files     *)
(* while FlightSync receives them.  A build takes a fingerprint of each    *)
(* bundle, decodes those that differ from its state, numbers the flights   *)
(* of the day, stages every artifact, replaces them one by one, and saves  *)
(* the catalogue, then the state.  It may be killed between any two.       *)
(*                                                                         *)
(* A flight has streams; the file of a stream is a table or, failing that, *)
(* a binary.  Received files do not change, so that the files present are  *)
(* the fingerprint of a bundle, and an artifact is told by the files that  *)
(* it was read from and the number of its flight in the day.               *)
(***************************************************************************)
EXTENDS FlightSync

CONSTANTS
    Flights,        \* 1..N, in the order of their start times
    StreamsOf,      \* flight -> its streams, some, each the set of keys it may have
    Tables,         \* keys of CSV files, which are preferred
    Unreadable      \* bytes that no reading can be made of

ASSUME ProductsAssumption ==
    /\ Flights \subseteq Nat /\ IsFiniteSet(Flights)
    /\ StreamsOf \in [Flights -> SUBSET SUBSET Keys] /\ \A f \in Flights : StreamsOf[f] # {}
    /\ Tables \subseteq Keys /\ Unreadable \subseteq Nat

\* A file name says of which stream and of which kind the file is, and a flight has
\* at most one file of each kind for a stream.
ASSUME OneFileOfEachKind ==
    \A f \in Flights : \A s, t \in StreamsOf[f] :
        /\ s \cap t # {} => s = t
        /\ \A k, l \in s : (k \in Tables <=> l \in Tables) => k = l

VARIABLES
    detail,         \* flight -> published JSON
    plot,           \* flight -> published PNG
    summary,        \* the published image of the day: flight -> what it shows
    latest,         \* the copy of it under a fixed name
    catalog,        \* flight -> its entry
    saved,          \* flight -> fingerprint in the state file
    build           \* the build that holds the lock

images == <<detail, plot, summary>>
products == <<images, latest, catalog, saved>>
vars == <<syncVars, products, build>>

Product == [keys : SUBSET Keys, number : 0..Cardinality(Flights)]
Nothing == [keys |-> {}, number |-> 0]
NoProducts == [f \in Flights |-> Nothing]
NoPrints == [f \in Flights |-> {}]
Present(day) == {f \in Flights : day[f] # Nothing}

\* "found" are the flights discovered; "todo" are those left to decode, then to
\* publish; "before" are the products that the catalogue lists; "new" are the
\* proposals, then the final ones.
NoBuild == [at |-> "idle", found |-> {}, failed |-> FALSE, todo |-> {},
            prints |-> NoPrints, before |-> NoProducts, new |-> NoProducts,
            changed |-> {}]

Build == [at : {"idle", "print", "decode", "publish", "detail",
                "latest", "catalog", "state", "status"},
          found : SUBSET Flights, todo : SUBSET Flights, changed : SUBSET Flights,
          failed : BOOLEAN, prints : [Flights -> SUBSET Keys],
          before : [Flights -> Product], new : [Flights -> Product]]

TypeOK ==
    /\ SyncTypeOK
    /\ {detail, plot, summary, latest, catalog} \subseteq [Flights -> Product]
    /\ saved \in [Flights -> SUBSET Keys] /\ build \in Build

Init ==
    /\ SyncInit
    /\ detail = NoProducts /\ plot = NoProducts
    /\ summary = NoProducts /\ latest = NoProducts /\ catalog = NoProducts
    /\ saved = NoPrints
    /\ build = NoBuild

-----------------------------------------------------------------------------
\* discover_bundles: canonical files only, and a bundle is built once every stream
\* has a file.
There(f) == {k \in UNION StreamsOf[f] : file[k][0] # 0}
Complete == {f \in Flights : \A s \in StreamsOf[f] : s \cap There(f) # {}}

\* The file that each stream is read from, if these are there: the table unless
\* is rejected, else the binary.  The code takes the first of several tables by name;
\* there is one at most.
Readable(k) == file[k][0] \notin Unreadable
Chosen(f, keys) ==
    {k \in keys \cap There(f) :
        /\ Readable(k)
        /\ k \in Tables \/ \A s \in StreamsOf[f] : k \in s =>
               ~\E t \in s \cap keys \cap There(f) \cap Tables : Readable(t)}
Decodable(f) == \A s \in StreamsOf[f] : s \cap Chosen(f, There(f)) # {}

Listed == {f \in Present(catalog) : f \in Present(detail) /\ f \in Present(plot)}

BuildBegins ==
    /\ build.at = "idle"
    /\ LET before == [f \in Flights |-> IF f \in Listed THEN detail[f] ELSE Nothing]
       IN  build' = [NoBuild EXCEPT !.at = "print", !.found = Complete, !.todo = Complete,
                                    !.before = before, !.new = before]
    /\ UNCHANGED <<syncVars, products>>

\* The flights of a day are taken in their order.
IsNextFlight(f) == f \in build.todo /\ \A g \in build.todo : f <= g

Fingerprints(f) ==
    /\ build.at = "print" /\ IsNextFlight(f)
    /\ build' = [build EXCEPT !.at = "decode", !.prints[f] = There(f)]
    /\ UNCHANGED <<syncVars, products>>

Reusable(f) ==
    saved[f] = build.prints[f] /\ f \in Present(detail) /\ f \in Present(plot)

\* Each stream is read from what is there now, which may be more than there was at
\* the fingerprint.  The number is given later.
Decoded(f) == [keys |-> Chosen(f, There(f)), number |-> 0]

Decodes(f) ==
    /\ build.at = "decode" /\ IsNextFlight(f)
    /\ LET next == [build EXCEPT !.at = "print", !.todo = @ \ {f}]
       IN  \/ /\ Reusable(f)
              /\ build' = [next EXCEPT !.new[f] = detail[f]]
           \/ /\ ~Reusable(f) /\ Decodable(f)
              /\ build' = [next EXCEPT !.new[f] = Decoded(f), !.changed = @ \cup {f}]
    /\ UNCHANGED <<syncVars, products>>

\* A flight that cannot be decoded keeps its previous product, if it has one.
Skips(f) == build' = [build EXCEPT !.at = "print", !.todo = @ \ {f},
                                   !.prints[f] = {}, !.failed = TRUE]

Rejects(f) ==
    /\ build.at = "decode" /\ IsNextFlight(f)
    /\ ~Reusable(f) /\ ~Decodable(f) /\ Skips(f)
    /\ UNCHANGED <<syncVars, products>>

DecodeFails(f) ==
    /\ Fails
    /\ build.at = "decode" /\ IsNextFlight(f)
    /\ ~Reusable(f) /\ Skips(f)
    /\ UNCHANGED <<upstream, stamp, store, sync, products>>

\* The place of the flight among those of the day.
Rank(f, flights) == Cardinality({g \in flights : g <= f})
Numbered(day) ==
    [f \in Flights |->
        IF day[f] = Nothing THEN Nothing
        ELSE [day[f] EXCEPT !.number = Rank(f, Present(day))]]

\* Every image of the day is rendered beside its place before any is replaced;
\* a rendering that fails is a transaction that fails at its beginning.
Numbers ==
    /\ build.at = "print" /\ build.todo = {}
    /\ LET new == Numbered(build.new)
           changed == build.changed \cup {f \in Present(new) : new[f] # build.new[f]}
       IN  build' = [build EXCEPT
               !.at = IF Present(new) = {} THEN "latest" ELSE "publish",
               !.new = new, !.changed = changed, !.todo = changed]
    /\ UNCHANGED <<syncVars, products>>

-----------------------------------------------------------------------------
PublishesPlot_Second(f) ==
    /\ build.at = "publish" /\ IsNextFlight(f)
    /\ detail' = [detail EXCEPT ![f] = build.new[f]]
    /\ build' = [build EXCEPT !.at = "detail"]
    /\ UNCHANGED <<syncVars, plot, summary, latest, catalog, saved>>

PublishesPlot(f) ==
    /\ build.at = "publish" /\ IsNextFlight(f)
    /\ plot' = [plot EXCEPT ![f] = build.new[f]]
    /\ build' = [build EXCEPT !.at = "detail"]
    /\ UNCHANGED <<syncVars, detail, summary, latest, catalog, saved>>

PublishesDetail(f) ==
    /\ build.at = "detail" /\ IsNextFlight(f)
    /\ detail' = [detail EXCEPT ![f] = build.new[f]]
    /\ build' = [build EXCEPT !.at = "publish", !.todo = @ \ {f}]
    /\ UNCHANGED <<syncVars, plot, summary, latest, catalog, saved>>

PublishesSummary ==
    /\ build.at = "publish" /\ build.todo = {}
    /\ summary' = IF build.changed # {} \/ summary = NoProducts THEN build.new ELSE summary
    /\ build' = [build EXCEPT !.at = "latest"]
    /\ UNCHANGED <<syncVars, detail, plot, latest, catalog, saved>>

\* What was replaced before a failure stays replaced; the catalogue keeps the
\* previous products and the fingerprints are not saved.
TransactionFails_Saves ==
    /\ Fails
    /\ build.at \in {"publish", "detail"}
    /\ build' = [build EXCEPT !.at = "latest", !.todo = {}, !.failed = TRUE,
                              !.new = build.before]
    /\ UNCHANGED <<upstream, stamp, store, sync, products>>

TransactionFails_Drops ==
    /\ Fails
    /\ build.at \in {"publish", "detail"}
    /\ build' = [build EXCEPT !.at = "latest", !.todo = {}, !.failed = TRUE,
                              !.new = NoProducts, !.prints = NoPrints]
    /\ UNCHANGED <<upstream, stamp, store, sync, products>>

TransactionFails ==
    /\ Fails
    /\ build.at \in {"publish", "detail"}
    /\ build' = [build EXCEPT !.at = "latest", !.todo = {}, !.failed = TRUE,
                              !.new = build.before, !.prints = NoPrints]
    /\ UNCHANGED <<upstream, stamp, store, sync, products>>

CopiesLatest ==
    /\ build.at = "latest"
    /\ latest' = IF Present(build.new) # {} /\ summary # NoProducts THEN summary ELSE latest
    /\ build' = [build EXCEPT !.at = "catalog"]
    /\ UNCHANGED <<syncVars, images, catalog, saved>>

CopyFails ==
    /\ Fails
    /\ build.at = "latest"
    /\ build' = [build EXCEPT !.at = "catalog", !.failed = TRUE]
    /\ UNCHANGED <<upstream, stamp, store, sync, products>>

WritesCatalog ==
    /\ build.at = "catalog" /\ catalog' = build.new
    /\ build' = [build EXCEPT !.at = "state"]
    /\ UNCHANGED <<syncVars, images, latest, saved>>

SavesState ==
    /\ build.at = "state"
    /\ saved' = [f \in Flights |->
                    IF build.prints[f] # {} THEN build.prints[f] ELSE saved[f]]
    /\ build' = [build EXCEPT !.at = "status"]
    /\ UNCHANGED <<syncVars, images, latest, catalog>>

BuildReportsSuccess == ~build.failed

BuildEnds ==
    /\ build.at = "status" /\ build' = NoBuild
    /\ UNCHANGED <<syncVars, products>>

\* An error that the build does not handle ends it as a kill does.
BuildKilled ==
    /\ Fails
    /\ build.at # "idle" /\ build' = NoBuild
    /\ UNCHANGED <<upstream, stamp, store, sync, products>>

BuildStep ==
    \/ BuildBegins \/ Numbers \/ PublishesSummary \/ CopiesLatest
    \/ WritesCatalog \/ SavesState \/ BuildEnds
    \/ \E f \in Flights : \/ Fingerprints(f) \/ Decodes(f) \/ Rejects(f)
                          \/ PublishesPlot(f) \/ PublishesDetail(f)

BuildFault ==
    \/ TransactionFails \/ CopyFails \/ BuildKilled
    \/ \E f \in Flights : DecodeFails(f)

Source ==
    /\ \/ \E k \in Keys : Uploads(k)
       \/ SyncStep \/ SyncFault
    /\ UNCHANGED <<products, build>>

Next == Source \/ BuildStep \/ BuildFault

\* Both services are started again by their timers.
Spec == Init /\ [][Next]_vars
FairSpec == Spec /\ WF_vars(SyncStep /\ UNCHANGED <<products, build>>)
                 /\ WF_vars(BuildStep)

-----------------------------------------------------------------------------
\* What was read from "keys" may follow, or be the same as, what was read from "old".
AsGood(f, old, keys) ==
    \E S \in SUBSET There(f) : old \subseteq S /\ keys = Chosen(f, S)

(***************************************************************************)
(* A flight whose fingerprint is in the state file has a product decoded   *)
(* from at least those files: otherwise its later builds would reuse a     *)
(* stale product for ever.  Files arrive between the fingerprint and the   *)
(* decoding, a flight may fail, a day may fail after some of its images.   *)
(***************************************************************************)
SavedIsDecoded ==
    \A f \in Flights : saved[f] # {} => /\ AsGood(f, saved[f], detail[f].keys)
                                        /\ AsGood(f, saved[f], plot[f].keys)

(***************************************************************************)
(* A reader never finds a flight without its plot: neither by the details  *)
(* nor by the catalogue, whatever build was cut short.                     *)
(***************************************************************************)
ReadersFindPlots ==
    Present(catalog) \subseteq Present(detail) /\ Present(detail) \subseteq Present(plot)

(***************************************************************************)
(* A flight that is listed stays listed and in the image of the day, and   *)
(* what it shows is never replaced by what was read from less: a failed    *)
(* decoding or a failed day keeps what was there, and a table is never     *)
(* given up for a binary.  (The plot may be, when a build was killed       *)
(* between the plot and the detail.)                                       *)
(***************************************************************************)
ProductsNeverShrink ==
    [][\A f \in Present(catalog) : /\ AsGood(f, detail[f].keys, detail'[f].keys)
                                   /\ AsGood(f, catalog[f].keys, catalog'[f].keys)
                                   /\ AsGood(f, summary[f].keys, summary'[f].keys)]_vars

(***************************************************************************)
(* The success that the monitor reads is earned: a sync that reports it    *)
(* has registered and handed on every object that it listed, but for the   *)
(* backlog that it reports with it, and a build that reports it lists      *)
(* every flight it found, read from all that it found of it, and shows it  *)
(* in the image under the fixed name, although the bucket and the files    *)
(* have changed since.                                                     *)
(***************************************************************************)
SuccessIsEarned ==
    [][/\ SyncEnds /\ ReportsSuccess =>
              \A e \in sync.listed \ sync.left : Delivered(e, rows')
       /\ BuildEnds /\ BuildReportsSuccess =>
              \A f \in build.found : /\ f \in Present(catalog)
                                     /\ AsGood(f, build.prints[f], catalog[f].keys)
                                     /\ latest[f] = catalog[f]]_vars

(***************************************************************************)
(* Once the provider is done and faults stop, the last version of every    *)
(* object is registered and handed to the dispatcher, however small a run  *)
(* may be, and every flight that can be decoded is in the catalogue with   *)
(* its number of the day, read from the best of its files; the images show *)
(* the same.  A file that cannot be read holds up no other flight.         *)
(***************************************************************************)
FlightsCatchUp ==
    <>[](LET flights == {f \in Complete : Decodable(f)}
             day == [f \in Flights |->
                        IF f \in flights
                        THEN [keys |-> Chosen(f, There(f)), number |-> Rank(f, flights)]
                        ELSE Nothing]
         IN  /\ \A e \in Listing : Delivered(e, rows)
             /\ catalog = day /\ detail = day /\ plot = day
             /\ summary = day /\ latest = day)

=============================================================================

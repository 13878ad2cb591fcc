------------------------------ MODULE Listing -------------------------------
(***************************************************************************)
(* A client lists a bucket page by page while others write to it           *)
(* (backend/listing.go with ListObjects, ListObjectsV2 and                 *)
(* ListObjectVersions, and listBucketObjectEntries of the admin API).  A   *)
(* page is filled from several batches, each a query of its own, and a     *)
(* page starts where the marker of the one before it says: nothing is held *)
(* between two queries.                                                    *)
(*                                                                         *)
(* A key is a number.  Keys that share the part up to the delimiter form a *)
(* folder: 21, 22, ... are in folder 20, which sorts before them, and 30   *)
(* is the first key after it (PrefixUpperBound).                           *)
(***************************************************************************)
EXTENDS Integers, FiniteSets, SequencesExt

CONSTANTS
  Keys,          \* the keys that may exist
  Stamps,        \* creation times of versions
  Starts,        \* what is listed and the rows there at first: [kind, rows]
  PrefixKey,     \* the key that equals the prefix asked for
  BatchSize,     \* listingBatchSize, adminObjectListingBatchSize
  PageSizes,     \* max-keys
  MaxWrites      \* writes during the walk

None == 0

VARIABLES
  kind,          \* which listing is walked
  grouped,       \* a delimiter was given
  size,          \* max-keys of every page
  live,          \* rows the queries see: current objects, or all versions
  page,          \* the page being filled
  listed,        \* entries returned so far, over all pages
  steady,        \* rows that have been there since the walk began
  excused,       \* rows of a key whose marker version was deleted before its page
  writes

vars == <<kind, grouped, size, live, page, listed, steady, excused, writes>>

Row(k, at) == [key |-> k, at |-> at]
AllRows == [key : Keys, at : Stamps]
First == CHOOSE t \in Stamps : \A u \in Stamps : t <= u

\* A page that starts after a marker.
PageAfter(k, v) ==
  [pc |-> "batch", after |-> k, cursor |-> k, cursorV |-> v, incl |-> FALSE,
   last |-> k, lastV |-> v, items |-> <<>>, skip |-> None, full |-> FALSE]

Init ==
  /\ \E s \in Starts : kind = s.kind /\ live = s.rows
  /\ grouped \in BOOLEAN
  /\ size \in PageSizes
  /\ page = PageAfter(None, None)
  /\ listed = <<>>
  /\ steady = live
  /\ excused = {}
  /\ writes = MaxWrites

-----------------------------------------------------------------------------
(***************************************************************************)
(* One batch.                                                              *)
(***************************************************************************)

\* listingCommonPrefix, adminListingCommonPrefix; PrefixUpperBound.
InFolder(k) == grouped /\ k % 10 # 0
Folder(k) == 10 * (k \div 10)
UpperBound(folder) == folder + 10

Before(a, b) == a.key < b.key \/ (a.key = b.key /\ a.at > b.at)
VersionOf(row) == IF kind = "versions" THEN row.at ELSE None

\* listCurrentVersionsByBucket and listVersionsByBucket: rows after the cursor, or at
\* it.  A version marker that is gone is a cursor after its key.
MarkerGone == page.cursorV # None /\ Row(page.cursor, page.cursorV) \notin live
AfterCursor(row) ==
  \/ row.key > page.cursor
  \/ page.incl /\ row.key = page.cursor
  \/ /\ page.cursorV # None /\ ~MarkerGone
     /\ row.key = page.cursor /\ row.at < page.cursorV
Batch ==
  LET found == {row \in live : AfterCursor(row)}
      n == Min({Cardinality(found), BatchSize})
  IN [i \in 1 .. n |->
        CHOOSE row \in found : Cardinality({q \in found : Before(q, row)}) = i - 1]

Full(pg) == Len(pg.items) >= size
Stop(pg) == [pg EXCEPT !.full = TRUE]
Passes(pg, row) == [pg EXCEPT !.last = row.key, !.lastV = VersionOf(row)]
Lists(pg, row, entry) == [Passes(pg, row) EXCEPT !.items = Append(@, entry)]
FolderEntry(k) == [key |-> Folder(k), at |-> None]
FolderListed(pg, k) == FolderEntry(k) \in Range(pg.items)
NewFolder(pg, k) == ~FolderListed(pg, k) /\ Folder(k) > pg.after

\* listCurrentObjects and listVersions: the loop over the rows of a batch.  Behind a
\* folder the rows up to its upper bound are skipped, in this batch and by the next.
AfterUpperBound(pg, k) ==                                          \* a mutant
  [pg EXCEPT !.cursor = UpperBound(Folder(k)), !.cursorV = None, !.incl = FALSE,
             !.skip = UpperBound(Folder(k))]
ToUpperBound(pg, k) ==
  [pg EXCEPT !.cursor = UpperBound(Folder(k)), !.cursorV = None, !.incl = TRUE,
             !.skip = UpperBound(Folder(k))]
TakeRow(pg, row) ==
  LET here == [pg EXCEPT !.cursor = row.key, !.cursorV = VersionOf(row), !.incl = FALSE]
      k == row.key
  IN CASE pg.full \/ k < pg.skip -> pg
       [] ~(pg.full \/ k < pg.skip) /\ InFolder(k) /\ NewFolder(pg, k) ->
            IF Full(pg) THEN Stop(here)
            ELSE ToUpperBound(Lists(here, row, FolderEntry(k)), k)
       [] ~(pg.full \/ k < pg.skip) /\ InFolder(k) /\ ~NewFolder(pg, k) ->
            ToUpperBound(Passes(here, row), k)
       [] OTHER -> IF Full(pg) THEN Stop(here) ELSE Lists(here, row, row)

\* listBucketObjectEntries and adminListingAdvancePastCurrentPrefix: the rows of a
\* folder are passed one by one; only at the end of a full batch does the next start
\* at the upper bound.  The entry that equals the prefix is not shown.
TakeAdminRow(pg, row, atEnd) ==
  LET here == [pg EXCEPT !.cursor = row.key, !.incl = FALSE]
      k == row.key
      past(p) == IF atEnd
                 THEN [p EXCEPT !.cursor = UpperBound(Folder(k)), !.incl = TRUE]
                 ELSE p
  IN CASE pg.full -> pg
       [] ~pg.full /\ k = PrefixKey -> Passes(here, row)
       [] ~pg.full /\ k # PrefixKey /\ InFolder(k) /\ NewFolder(pg, k) ->
            IF Full(pg) THEN Stop(here) ELSE past(Lists(here, row, FolderEntry(k)))
       [] ~pg.full /\ k # PrefixKey /\ InFolder(k) /\ ~NewFolder(pg, k) ->
            past(Passes(here, row))
       [] OTHER -> IF Full(pg) THEN Stop(here) ELSE Lists(here, row, row)

Filled(rows) ==
  LET start == [page EXCEPT !.skip = None]
      Admin(pg, i) == TakeAdminRow(pg, rows[i], i = BatchSize)
      Plain(pg, i) == TakeRow(pg, rows[i])
      order == [i \in DOMAIN rows |-> i]
  IN IF kind = "admin" THEN FoldLeft(Admin, start, order) ELSE FoldLeft(Plain, start, order)

\* A short batch is the last one; a page that overflows says where the next starts.
ReadBatch ==
  /\ page.pc = "batch"
  /\ \E rows \in {Batch} : \E pg \in {Filled(rows)} :
       LET over == pg.full \/ Len(rows) < BatchSize
       IN page' = [pg EXCEPT !.pc = IF over THEN "answer" ELSE "batch"]
  /\ excused' = IF MarkerGone THEN excused \cup {r \in live : r.key = page.cursor} ELSE excused
  /\ UNCHANGED <<kind, grouped, size, live, listed, steady, writes>>

\* The answer; a truncated one carries the marker the client continues from.
Answer ==
  /\ page.pc = "answer"
  /\ listed' = listed \o page.items
  /\ page' = IF page.full THEN PageAfter(page.last, page.lastV)
             ELSE [page EXCEPT !.pc = "done"]
  /\ UNCHANGED <<kind, grouped, size, live, steady, excused, writes>>

\* Another request writes or deletes a key, or adds or deletes a version.
Write ==
  /\ writes > 0 /\ writes' = writes - 1 /\ page.pc # "done"
  /\ \/ \E r \in AllRows \ live : (kind = "versions" \/ r.at = First) /\ live' = live \cup {r}
     \/ \E r \in live : live' = live \ {r}
  /\ steady' = steady \cap live'
  /\ UNCHANGED <<kind, grouped, size, page, listed, excused>>

Next == ReadBatch \/ Answer \/ Write
Spec == Init /\ [][Next]_vars
\* The client goes on until it has an answer that is not truncated.
FairSpec == Spec /\ WF_vars(ReadBatch \/ Answer)

-----------------------------------------------------------------------------
(***************************************************************************)
(* Properties.                                                             *)
(***************************************************************************)

TypeOK ==
  /\ live \subseteq AllRows /\ steady \subseteq live
  /\ Len(page.items) <= size
  /\ page.pc \in {"batch", "answer", "done"}

Shows(row) ==
  IF InFolder(row.key) /\ ~(kind = "admin" /\ row.key = PrefixKey)
  THEN FolderEntry(row.key) ELSE row

\* The pages together list every object, version or folder at most once and in
\* order, and a walk that has ended has listed each row that was there all along,
\* itself or its folder, whatever was written between two batches or two pages.
\* Versions of a key whose marker version was deleted before the page that starts
\* from it are the one exception.
WalkComplete ==
  /\ TypeOK
  /\ \A i \in 1 .. Len(listed) - 1 : Before(listed[i], listed[i + 1])
  /\ page.pc = "done" =>
       \A r \in steady \ excused :
         (kind = "admin" /\ r.key = PrefixKey) \/ Shows(r) \in Range(listed)

\* Every page moves the marker, so a walk ends.
Ended == page.pc = "done"
WalkEnds == <>Ended

=============================================================================

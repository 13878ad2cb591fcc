-------------------------- MODULE MCStorageRemoval --------------------------
(* Two contents on one data set. *)
EXTENDS StorageRemoval

Left(f, c, r) == [faults |-> f, crashes |-> c, retries |-> r]

Plain ==
    [pieces |-> 2, queue |-> 2, contents |-> Contents, old |-> {}, shared |-> {}, known |-> Contents,
     left |-> Left(1, 0, 0)]

Alone == [Plain EXCEPT !.contents = {1}, !.known = {1}, !.left = Left(1, 1, 1)]

\* Batches of one that compete for a queue of one; batches of two of which the
\* provider knows all, some or no pieces; a piece still shared; and one content
\* under more faults, of which an earlier release may have sent the deletion.
MCStarts ==
    {[Plain EXCEPT !.pieces = 1, !.queue = 1],
     [Plain EXCEPT !.known = {1}, !.left = Left(0, 0, 1)],
     [Plain EXCEPT !.known = {}, !.left = Left(0, 0, 0)],
     [Plain EXCEPT !.shared = {1}, !.left = Left(0, 0, 0)],
     Alone,
     [Alone EXCEPT !.known = {}, !.left = Left(1, 0, 0)],
     [Alone EXCEPT !.old = {1}, !.left = Left(1, 0, 1)]}
=============================================================================

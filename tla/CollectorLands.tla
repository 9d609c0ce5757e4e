--------------------------- MODULE CollectorLands ---------------------------
(***************************************************************************)
(* The collector implements the landing zone the parser reads: the pass    *)
(* of Landing is that of the collector holding the session's lock, and     *)
(* everything about sources and cursors is invisible.  With writes that    *)
(* fail this does not hold: see the runs on spent sequences.               *)
(***************************************************************************)
EXTENDS Collector

SeqsOf(q) == {q[i].seq : i \in DOMAIN q}

Stage ==
    IF lock = None THEN "idle"
    ELSE CASE pc[lock] = "load"   -> "idle"
           [] pc[lock] = "loaded" -> "begun"
           [] pc[lock] = "commit" -> "dirty"
           [] pc[lock] = "mark"   -> "written"
           [] pc[lock] = "finish" -> "saved"
           [] OTHER -> IF dirty[lock] THEN "dirty" ELSE "clean"

Numbers == {f.seq : f \in landed}
Entries == IF ixFile = NoIndex THEN None ELSE SeqsOf(ixFile)
Loaded  == IF Stage = "idle" THEN NoMark ELSE mark[lock]
Held    == IF Stage \in {"idle", "begun"} THEN {} ELSE SeqsOf(ix[lock])

Zone == INSTANCE Landing WITH
    Seqs    <- Nat \ {0},
    landed  <- Numbers,
    entries <- Entries,
    indexed <- ixMark,
    stage   <- Stage,
    loaded  <- Loaded,
    ix      <- Held

\* Whatever the sources do and wherever a pass is interrupted, the landing zone changes
\* only as the parser expects: evidence lands in sequence and stays, and the index is
\* carried forward by one pass at a time, entries first and watermark second.
LandsInOrder == Zone!LandingSpec
=============================================================================

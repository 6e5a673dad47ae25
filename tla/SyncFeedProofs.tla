--------------------------- MODULE SyncFeedProofs ---------------------------
(***************************************************************************)
(* Proofs about SyncFeed, for every number of entities, sessions and       *)
(* devices, every page size and every bound: a pull never skips a change.  *)
(***************************************************************************)
EXTENDS SyncFeed, FiniteSetTheorems, TLAPS

-----------------------------------------------------------------------------
(* The inductive invariant.  NoSkippedChange speaks of applied answers     *)
(* only; what makes it inductive is what is known of answers on their way  *)
(* and of changes not yet committed.                                       *)

\* Committed rows agree with their source and carry values already drawn.
FeedMatchesSource ==
  \A e \in Entities :
    /\ feed[e].seq < nextSeq /\ source[e].ver < nextSeq
    /\ feed[e].op = "none" => feed[e].seq = 0
    /\ feed[e].op # "none" => source[e].ver = feed[e].seq

\* Every cursor a pull holds or hands out has been drawn already.
CursorsDrawn ==
  \A d \in Devices : cursor[d] < nextSeq /\ horizon[d] < nextSeq /\ next[d] < nextSeq

\* In-flight values have been drawn, and exceed the version they replace.
InFlightDrawn ==
  \A s \in Sessions : \A e \in Entities :
    /\ ~Touches(s, e) => pending[s][e].seq = 0
    /\ Touches(s, e) => /\ pending[s][e].seq < nextSeq
                        /\ pending[s][e].seq > source[e].ver

\* An entity's row is written by one open transaction at most.
RowLocks ==
  \A s, t \in Sessions : \A e \in Entities : Touches(s, e) /\ Touches(t, e) => s = t

\* A page read from the feed holds every row up to the cursor it hands out,
\* and a row of the page that is still below that cursor has not changed.
PageCovers ==
  \A d \in Devices : pc[d] \in {"project", "page"} => \A e \in Entities :
    /\ (feed[e].seq > cursor[d] /\ feed[e].seq <= next[d]) => page[d][e] = feed[e]
    /\ (page[d][e].op # "none" /\ feed[e].seq <= next[d])
         => feed[e].op = "none" \/ feed[e] = page[d][e]

\* An answer on its way brings the device up to the cursor it hands out.
AnswerCovers ==
  \A d \in Devices : \A e \in Entities :
    /\ (pc[d] = "page" /\ page[d][e].op # "none" /\ feed[e].seq <= next[d])
         => UpToRow(e, answer[d][e])
    /\ (pc[d] = "full" /\ feed[e].seq <= next[d]) => UpToRow(e, answer[d][e])

IInv ==
  /\ TypeOK
  /\ FeedMatchesSource
  /\ CursorsDrawn
  /\ InFlightDrawn
  /\ RowLocks
  /\ InFlightAboveCursors
  /\ PageCovers
  /\ AnswerCovers
  /\ NoSkippedChange

-----------------------------------------------------------------------------
(* Type correctness.                                                       *)

LEMMA TypeInit == Init => TypeOK
<1>1. 0 \in Seqs /\ 1 \in 1 .. MaxSeq + 1 /\ NoRow \in Rows
  BY NumbersAssumption DEF Seqs, Rows, NoRow, Ops
<1> QED
  BY <1>1 DEF Init, TypeOK, NoRows, NoOps, Nothing, Ops, Steps

LEMMA EmitType ==
  ASSUME NEW s \in Sessions, NEW e \in Entities, NEW op \in {"upsert", "delete"},
         TypeOK, EmitRow(s, e, op)
  PROVE  TypeOK'
<1>1. [seq |-> nextSeq, op |-> op] \in Rows
  BY NumbersAssumption DEF EmitRow, TypeOK, Rows, Seqs, Ops
<1>2. pending' \in [Sessions -> [Entities -> Rows]]
  BY <1>1 DEF EmitRow, TypeOK
<1>3. nextSeq' \in 1 .. MaxSeq + 1
  BY NumbersAssumption DEF EmitRow, TypeOK
<1> QED
  BY <1>2, <1>3 DEF EmitRow, TypeOK, pull, device

LEMMA WriterType ==
  ASSUME NEW s \in Sessions, TypeOK, Writer(s)
  PROVE  TypeOK'
<1> USE NumbersAssumption
<1>0. NoRows \in [Entities -> Rows]
  BY DEF NoRows, NoRow, Rows, Seqs, Ops
<1>1. ASSUME NEW e \in Entities, Write(s, e) \/ SweepEmit(s, e) PROVE TypeOK'
  <2>1. sweep[s][e] \in {"none", "upsert", "delete"}
    BY <1>1 DEF TypeOK, Ops
  <2> QED
    BY <1>1, <2>1, EmitType DEF Write, SweepEmit
<1>2. CASE Commit(s)
  <2>1. feed' \in [Entities -> Rows]
    BY <1>2 DEF Commit, TypeOK
  <2>2. source' \in [Entities -> [ver : Seqs, live : BOOLEAN]]
    <3>1. \A e \in Entities : source[e] \in [ver : Seqs, live : BOOLEAN] /\ pending[s][e].seq \in Seqs
      BY DEF TypeOK, Rows
    <3>2. CASE Sweeps(s)
      BY <1>2, <3>1, <3>2 DEF Commit
    <3>3. CASE ~Sweeps(s)
      BY <1>2, <3>1, <3>3 DEF Commit
    <3> QED
      BY <3>2, <3>3
  <2>3. pending' \in [Sessions -> [Entities -> Rows]]
    BY <1>0, <1>2 DEF Commit, TypeOK
  <2>4. sweep' \in [Sessions -> [Entities -> Ops]]
    BY <1>2 DEF Commit, TypeOK, NoOps, Ops
  <2> QED
    BY <1>2, <2>1, <2>2, <2>3, <2>4 DEF Commit, TypeOK, pull, device
<1>3. CASE Rollback(s)
  BY <1>0, <1>3 DEF Rollback, TypeOK, NoOps, Ops, pull, device
<1>4. CASE SweepScan(s)
  <2>1. sweep' \in [Sessions -> [Entities -> Ops]]
    <3>1. \A f \in [Entities -> Ops] : [sweep EXCEPT ![s] = f] \in [Sessions -> [Entities -> Ops]]
      BY DEF TypeOK
    <3>2. [e \in Entities |-> IF e \in TimeBased /\ feed[e].op = "upsert" /\ ~source[e].live
                              THEN "delete" ELSE "none"] \in [Entities -> Ops]
      BY DEF Ops
    <3>3. [e \in Entities |-> IF feed[e].op = "none" /\ source[e].live THEN "upsert" ELSE "none"]
            \in [Entities -> Ops]
      BY DEF Ops
    <3> QED
      BY <1>4, <3>1, <3>2, <3>3 DEF SweepScan
  <2> QED
    BY <1>4, <2>1 DEF SweepScan, TypeOK, pull, device
<1> QED
  BY <1>1, <1>2, <1>3, <1>4 DEF Writer

LEMMA HousekeepingType ==
  ASSUME TypeOK, Housekeeping
  PROVE  TypeOK'
<1> USE NumbersAssumption
<1>1. ASSUME NEW e \in Entities, AgeOut(e) PROVE TypeOK'
  <2>1. source' = [source EXCEPT ![e].live = FALSE] /\ source \in [Entities -> [ver : Seqs, live : BOOLEAN]]
    BY <1>1 DEF AgeOut, TypeOK
  <2>2. source' \in [Entities -> [ver : Seqs, live : BOOLEAN]]
    BY <2>1
  <2> QED
    BY <1>1, <2>2 DEF AgeOut, TypeOK, pull, device
<1>2. CASE \E e \in Entities : AgeTombstone(e)
  BY <1>2, SetsAssumption DEF AgeTombstone, TypeOK, pull, device
<1>3. CASE PurgeTombstones
  <2>1. NoRow \in Rows
    BY DEF NoRow, Rows, Seqs, Ops
  <2>2. feed' \in [Entities -> Rows]
    BY <1>3, <2>1 DEF PurgeTombstones, TypeOK
  <2>3. unraised' \in Seqs
    BY <1>3 DEF PurgeTombstones, TypeOK, Rows
  <2> QED
    BY <1>3, <2>2, <2>3 DEF PurgeTombstones, TypeOK, pull, device
<1>4. CASE RaiseWatermark
  BY <1>4 DEF RaiseWatermark, TypeOK, Seqs, pull, device
<1>5. CASE SweepFails
  BY <1>5 DEF SweepFails, TypeOK, Seqs, pull, device
<1> QED
  BY <1>1, <1>2, <1>3, <1>4, <1>5 DEF Housekeeping

LEMMA SeqsOfFeed == TypeOK => FeedSeqs \subseteq Seqs
  BY NumbersAssumption DEF TypeOK, FeedSeqs, Rows, Seqs

LEMMA ServeType ==
  ASSUME NEW d \in Devices, TypeOK, Serve(d)
  PROVE  TypeOK'
<1> USE NumbersAssumption
<1>0. NoRow \in Rows /\ 0 \in Seqs
  BY DEF NoRow, Rows, Seqs, Ops
<1>1. CASE PullCheck(d)
  BY <1>1 DEF PullCheck, TypeOK, Steps, database, device
<1>2. CASE PullHorizon(d)
  <2>1. horizon' \in [Devices -> Seqs]
    BY <1>2, SeqsOfFeed DEF PullHorizon, TypeOK
  <2> QED
    BY <1>2, <2>1 DEF PullHorizon, TypeOK, Steps, database, device
<1>3. CASE PullRows(d)
  <2>1. page' \in [Devices -> [Entities -> Rows]]
    BY <1>0, <1>3 DEF PullRows, TypeOK
  <2>2. more' \in [Devices -> BOOLEAN]
    BY <1>3 DEF PullRows, TypeOK
  <2>3. next' \in [Devices -> Seqs]
    <3>1. \A e \in FirstRows(d) : feed[e].seq \in Seqs
      BY DEF FirstRows, TypeOK, Rows
    <3> QED
      BY <1>3, <3>1 DEF PullRows, TypeOK
  <2> QED
    BY <1>3, <2>1, <2>2, <2>3 DEF PullRows, TypeOK, Steps, database, device
<1>4. CASE PullProject(d)
  <2>1. answer' \in [Devices -> [Entities -> Seqs]]
    BY <1>0, <1>4 DEF PullProject, Projected, TypeOK
  <2>2. checksum' \in [Devices -> SUBSET (Entities \X Seqs)]
    <3>1. Counted(d) \in SUBSET (Entities \X Seqs)
      BY DEF Counted, TypeOK, Rows
    <3> QED
      BY <1>4, <3>1 DEF PullProject, TypeOK
  <2> QED
    BY <1>4, <2>1, <2>2 DEF PullProject, TypeOK, Steps, database, device
<1>5. CASE FullHorizon(d)
  <2>1. horizon' \in [Devices -> Seqs]
    BY <1>5, SeqsOfFeed DEF FullHorizon, TypeOK
  <2> QED
    BY <1>5, <2>1 DEF FullHorizon, TypeOK, Steps, database, device
<1>6. CASE FullSnapshot(d)
  <2>1. page' \in [Devices -> [Entities -> Rows]]
    BY <1>0, <1>6 DEF FullSnapshot, TypeOK
  <2>2. answer' \in [Devices -> [Entities -> Seqs]]
    BY <1>0, <1>6 DEF FullSnapshot, TypeOK
  <2>3. checksum' \in [Devices -> SUBSET (Entities \X Seqs)]
    <3>1. Counted(d) \in SUBSET (Entities \X Seqs)
      BY DEF Counted, TypeOK, Rows
    <3> QED
      BY <1>6, <3>1 DEF FullSnapshot, TypeOK
  <2>4. more' \in [Devices -> BOOLEAN] /\ next' \in [Devices -> Seqs]
    BY <1>6 DEF FullSnapshot, TypeOK
  <2> QED
    BY <1>6, <2>1, <2>2, <2>3, <2>4 DEF FullSnapshot, TypeOK, Steps, database, device
<1> QED
  BY <1>1, <1>2, <1>3, <1>4, <1>5, <1>6 DEF Serve

LEMMA EndPullType ==
  ASSUME NEW d \in Devices, TypeOK, EndPull(d)
  PROVE  /\ pc' \in [Devices -> Steps]
         /\ horizon' \in [Devices -> Seqs]
         /\ page' \in [Devices -> [Entities -> Rows]]
         /\ more' \in [Devices -> BOOLEAN]
         /\ next' \in [Devices -> Seqs]
         /\ answer' \in [Devices -> [Entities -> Seqs]]
         /\ checksum' \in [Devices -> SUBSET (Entities \X Seqs)]
<1>1. 0 \in Seqs /\ NoRows \in [Entities -> Rows] /\ Nothing \in [Entities -> Seqs]
  BY NumbersAssumption DEF Seqs, NoRows, NoRow, Rows, Ops, Nothing
<1> QED
  BY <1>1 DEF EndPull, TypeOK, Steps

LEMMA DeviceType ==
  ASSUME NEW d \in Devices, TypeOK, Apply(d) \/ Lose(d)
  PROVE  TypeOK'
<1>0. 0 \in Seqs
  BY NumbersAssumption DEF Seqs
<1>1. CASE ApplyResync(d)
  BY <1>1, EndPullType DEF ApplyResync, TypeOK, database
<1>2. CASE ApplyPage(d)
  <2>1. heldVer' \in [Devices -> [Entities -> Seqs]]
    BY <1>2 DEF ApplyPage, TypeOK
  <2>2. heldSeq' \in [Devices -> [Entities -> Seqs]]
    BY <1>0, <1>2 DEF ApplyPage, TypeOK, Rows
  <2>3. cursor' \in [Devices -> Seqs]
    BY <1>2 DEF ApplyPage, TypeOK
  <2> QED
    BY <1>2, <2>1, <2>2, <2>3, EndPullType DEF ApplyPage, TypeOK, database
<1>3. CASE ApplyFull(d)
  <2>1. heldVer' \in [Devices -> [Entities -> Seqs]] /\ cursor' \in [Devices -> Seqs]
    BY <1>3 DEF ApplyFull, TypeOK
  <2>2. heldSeq' \in [Devices -> [Entities -> Seqs]]
    BY <1>3 DEF ApplyFull, TypeOK, Rows
  <2>3. mode' \in [Devices -> {"full", "pull"}]
    BY <1>3 DEF ApplyFull, TypeOK
  <2> QED
    BY <1>3, <2>1, <2>2, <2>3, EndPullType DEF ApplyFull, TypeOK, database
<1>4. CASE Lose(d)
  BY <1>4, EndPullType DEF Lose, TypeOK, database, device
<1> QED
  BY <1>1, <1>2, <1>3, <1>4 DEF Apply

LEMMA TypeStep == TypeOK /\ [Next]_vars => TypeOK'
<1>1. TypeOK /\ UNCHANGED vars => TypeOK'
  BY DEF TypeOK, vars, database, pull, device
<1> QED
  BY <1>1, WriterType, HousekeepingType, ServeType, DeviceType DEF Next

\* Every variable of the feed and of the pulls keeps its type, for any number
\* of sessions, devices and entities.
THEOREM TypeCorrect == Spec => []TypeOK
  BY TypeInit, TypeStep, PTL DEF Spec

-----------------------------------------------------------------------------
(* The order of in-flight values, cursors and rows.                        *)

LEMMA InvInit == Init => IInv
<1>0. Init => TypeOK
  BY TypeInit
<1>1. Init => FeedMatchesSource /\ CursorsDrawn /\ InFlightDrawn /\ RowLocks
  BY DEF Init, FeedMatchesSource, CursorsDrawn, InFlightDrawn, RowLocks, Touches, NoRows, NoRow
<1>2. Init => InFlightAboveCursors /\ PageCovers /\ AnswerCovers
  BY DEF Init, InFlightAboveCursors, PageCovers, AnswerCovers, Touches, NoRows, NoRow
<1>3. Init => NoSkippedChange
  BY DEF Init, NoSkippedChange, UpToRow, NoRows, NoRow
<1> QED
  BY <1>0, <1>1, <1>2, <1>3 DEF IInv

\* An emitted row gets a value above everything drawn so far; nothing a
\* device was told can change.
LEMMA EmitInv ==
  ASSUME NEW s \in Sessions, NEW e \in Entities, NEW op \in {"upsert", "delete"},
         IInv, EmitRow(s, e, op)
  PROVE  IInv'
<1> USE NumbersAssumption
<1>t. TypeOK /\ TypeOK'
  BY EmitType DEF IInv
<1>0. /\ nextSeq \in Nat /\ nextSeq' = nextSeq + 1
      /\ \A f \in Entities : feed[f].seq \in Nat /\ source[f].ver \in Nat
      /\ \A d \in Devices : cursor[d] \in Nat /\ horizon[d] \in Nat /\ next[d] \in Nat
      /\ \A t \in Sessions : \A f \in Entities : pending[t][f].seq \in Nat
  BY <1>t DEF TypeOK, Rows, Seqs, EmitRow
<1>1. UNCHANGED <<feed, source, purged, aged, unraised, pull, device>>
  BY DEF EmitRow
<1>2. \A t \in Sessions : \A f \in Entities :
        pending'[t][f] = IF t = s /\ f = e THEN [seq |-> nextSeq, op |-> op] ELSE pending[t][f]
  BY <1>t DEF EmitRow, TypeOK
<1>3. \A t \in Sessions : \A f \in Entities :
        Touches(t, f)' <=> (t = s /\ f = e) \/ Touches(t, f)
  BY <1>2 DEF Touches
<1>4. FeedMatchesSource'
  BY <1>0, <1>1 DEF IInv, FeedMatchesSource
<1>5. CursorsDrawn'
  BY <1>0, <1>1 DEF IInv, CursorsDrawn, pull, device
<1>6. InFlightDrawn'
  BY <1>0, <1>1, <1>2, <1>3 DEF IInv, InFlightDrawn, FeedMatchesSource
<1>7. RowLocks'
  BY <1>3 DEF IInv, RowLocks, EmitRow, CanLock
<1>8. InFlightAboveCursors'
  BY <1>0, <1>1, <1>2, <1>3 DEF IInv, InFlightAboveCursors, CursorsDrawn, pull, device
<1>9. PageCovers' /\ AnswerCovers' /\ NoSkippedChange'
  BY <1>1 DEF IInv, PageCovers, AnswerCovers, NoSkippedChange, UpToRow, pull, device
<1> QED
  BY <1>t, <1>4, <1>5, <1>6, <1>7, <1>8, <1>9 DEF IInv

\* A commit moves its entities' rows above every cursor handed out or held.
LEMMA CommitInv ==
  ASSUME NEW s \in Sessions, IInv, Commit(s)
  PROVE  IInv'
<1> USE NumbersAssumption
<1>t. TypeOK /\ TypeOK'
  BY WriterType DEF IInv, Writer
<1>0. /\ nextSeq \in Nat
      /\ \A f \in Entities : feed[f].seq \in Nat /\ source[f].ver \in Nat /\ feed'[f].seq \in Nat
      /\ \A d \in Devices : cursor[d] \in Nat /\ horizon[d] \in Nat /\ next[d] \in Nat
      /\ \A t \in Sessions : \A f \in Entities : pending[t][f].seq \in Nat
  BY <1>t DEF TypeOK, Rows, Seqs
<1>1. UNCHANGED <<purged, nextSeq, unraised, pull, device>>
  BY DEF Commit
<1>2. \A f \in Entities :
        /\ Touches(s, f) => /\ feed'[f] = pending[s][f]
                            /\ source'[f].ver = pending[s][f].seq
        /\ ~Touches(s, f) => feed'[f] = feed[f] /\ source'[f] = source[f]
  BY DEF Commit
<1>3. \A t \in Sessions : \A f \in Entities :
        pending'[t][f] = IF t = s THEN NoRow ELSE pending[t][f]
  BY <1>t DEF Commit, TypeOK, NoRows
<1>4. \A t \in Sessions : \A f \in Entities : Touches(t, f)' <=> t # s /\ Touches(t, f)
  BY <1>3 DEF Touches, NoRow
<1>5. \A f \in Entities : Touches(s, f) =>
        /\ pending[s][f].op \in {"upsert", "delete"}
        /\ pending[s][f].seq < nextSeq
        /\ \A d \in Devices : /\ pending[s][f].seq > cursor[d]
                              /\ pending[s][f].seq > next[d]
  BY <1>t DEF IInv, InFlightDrawn, InFlightAboveCursors, Touches, TypeOK, Rows, Ops
<1>6. FeedMatchesSource'
  BY <1>0, <1>1, <1>2, <1>5 DEF IInv, FeedMatchesSource
<1>7. CursorsDrawn'
  BY <1>1 DEF IInv, CursorsDrawn, pull, device
<1>8. RowLocks' /\ InFlightAboveCursors'
  BY <1>1, <1>3, <1>4 DEF IInv, RowLocks, InFlightAboveCursors, pull, device
<1>9. InFlightDrawn'
  <2>1. \A t \in Sessions : \A f \in Entities : Touches(t, f)' => source'[f] = source[f]
    BY <1>2, <1>4 DEF IInv, RowLocks
  <2> QED
    BY <1>0, <1>1, <1>3, <1>4, <2>1 DEF IInv, InFlightDrawn, NoRow
<1>10. PageCovers' /\ AnswerCovers'
  <2>1. \A f \in Entities : \A d \in Devices :
          feed'[f].seq <= next'[d] => feed'[f] = feed[f] /\ source'[f] = source[f]
    BY <1>0, <1>1, <1>2, <1>5 DEF pull
  <2> QED
    BY <1>1, <2>1 DEF IInv, PageCovers, AnswerCovers, UpToRow, pull, device
<1>11. NoSkippedChange'
  <2>1. \A f \in Entities : \A d \in Devices :
          feed'[f].seq <= cursor'[d] => feed'[f] = feed[f] /\ source'[f] = source[f]
    BY <1>0, <1>1, <1>2, <1>5 DEF device
  <2> QED
    BY <1>1, <2>1 DEF IInv, NoSkippedChange, UpToRow, device
<1> QED
  BY <1>t, <1>6, <1>7, <1>8, <1>9, <1>10, <1>11 DEF IInv

LEMMA RollbackInv ==
  ASSUME NEW s \in Sessions, IInv, Rollback(s)
  PROVE  IInv'
<1>t. TypeOK /\ TypeOK'
  BY WriterType DEF IInv, Writer
<1>1. UNCHANGED <<feed, source, purged, aged, nextSeq, unraised, pull, device>>
  BY DEF Rollback
<1>2. \A t \in Sessions : \A f \in Entities :
        pending'[t][f] = IF t = s THEN NoRow ELSE pending[t][f]
  BY <1>t DEF Rollback, TypeOK, NoRows
<1>3. \A t \in Sessions : \A f \in Entities : Touches(t, f)' <=> t # s /\ Touches(t, f)
  BY <1>2 DEF Touches, NoRow
<1>4. InFlightDrawn' /\ RowLocks' /\ InFlightAboveCursors'
  BY <1>1, <1>2, <1>3 DEF IInv, InFlightDrawn, RowLocks, InFlightAboveCursors, NoRow, pull, device
<1>5. FeedMatchesSource' /\ CursorsDrawn' /\ PageCovers' /\ AnswerCovers' /\ NoSkippedChange'
  BY <1>1 DEF IInv, FeedMatchesSource, CursorsDrawn, PageCovers, AnswerCovers, NoSkippedChange,
              UpToRow, pull, device
<1> QED
  BY <1>t, <1>4, <1>5 DEF IInv

-----------------------------------------------------------------------------
(* Housekeeping: rows disappear or entities die, nothing moves upwards.    *)

LEMMA AgeOutInv ==
  ASSUME NEW e \in Entities, IInv, AgeOut(e)
  PROVE  IInv'
<1>t. TypeOK /\ TypeOK'
  BY HousekeepingType DEF IInv, Housekeeping
<1>1. UNCHANGED <<feed, purged, aged, nextSeq, pending, unraised, pull, device>>
  BY DEF AgeOut
<1>2. \A f \in Entities : /\ source'[f].ver = source[f].ver
                          /\ source'[f].live => source[f].live
  BY <1>t DEF AgeOut, TypeOK
<1>3. FeedMatchesSource'
  BY <1>1, <1>2 DEF IInv, FeedMatchesSource
<1>4. CursorsDrawn' /\ RowLocks' /\ InFlightAboveCursors' /\ PageCovers'
  BY <1>1 DEF IInv, CursorsDrawn, RowLocks, InFlightAboveCursors, PageCovers,
              Touches, pull, device
<1>5. InFlightDrawn'
  BY <1>1, <1>2 DEF IInv, InFlightDrawn, Touches
<1>6. AnswerCovers' /\ NoSkippedChange'
  BY <1>1, <1>2 DEF IInv, AnswerCovers, NoSkippedChange, UpToRow, pull, device
<1> QED
  BY <1>t, <1>3, <1>4, <1>5, <1>6 DEF IInv

\* A purged row stops asking anything of a device: its seq becomes 0.
LEMMA PurgeInv ==
  ASSUME IInv, PurgeTombstones
  PROVE  IInv'
<1> USE NumbersAssumption
<1>t. TypeOK /\ TypeOK'
  BY HousekeepingType DEF IInv, Housekeeping
<1>0. /\ \A f \in Entities : feed[f].seq \in Nat /\ source[f].ver \in Nat
      /\ \A d \in Devices : cursor[d] \in Nat /\ next[d] \in Nat
      /\ \A t \in Sessions : \A f \in Entities : pending[t][f].seq \in Nat
      /\ nextSeq \in Nat /\ nextSeq > 0
  BY <1>t DEF TypeOK, Rows, Seqs
<1>1. UNCHANGED <<source, purged, nextSeq, pending, pull, device>>
  BY DEF PurgeTombstones
<1>2. \A f \in Entities : \/ feed'[f] = feed[f]
                          \/ feed'[f] = NoRow /\ \A t \in Sessions : ~Touches(t, f)
  BY DEF PurgeTombstones, Unlocked
<1>3. FeedMatchesSource'
  BY <1>0, <1>1, <1>2 DEF IInv, FeedMatchesSource, NoRow
<1>4. InFlightDrawn'
  BY <1>0, <1>1, <1>2 DEF IInv, InFlightDrawn, Touches
<1>5. CursorsDrawn' /\ RowLocks' /\ InFlightAboveCursors'
  BY <1>1 DEF IInv, CursorsDrawn, RowLocks, InFlightAboveCursors, Touches, pull, device
<1>6. PageCovers'
  BY <1>0, <1>1, <1>2 DEF IInv, PageCovers, NoRow, pull, device
<1>7. AnswerCovers' /\ NoSkippedChange'
  BY <1>0, <1>1, <1>2 DEF IInv, AnswerCovers, NoSkippedChange, UpToRow, NoRow, pull, device
<1> QED
  BY <1>t, <1>3, <1>4, <1>5, <1>6, <1>7 DEF IInv

LEMMA QuietInv ==
  ASSUME IInv, TypeOK', UNCHANGED <<feed, source, nextSeq, pending, pull, device>>
  PROVE  IInv'
<1>1. FeedMatchesSource' /\ CursorsDrawn' /\ InFlightDrawn' /\ RowLocks' /\ InFlightAboveCursors'
  BY DEF IInv, FeedMatchesSource, CursorsDrawn, InFlightDrawn, RowLocks, InFlightAboveCursors,
         Touches, pull, device
<1>2. PageCovers' /\ AnswerCovers' /\ NoSkippedChange'
  BY DEF IInv, PageCovers, AnswerCovers, NoSkippedChange, UpToRow, pull, device
<1> QED
  BY <1>1, <1>2 DEF IInv

-----------------------------------------------------------------------------
(* The server's side of a pull.                                            *)

\* What a pull's own statements leave as it was.
LEMMA ServeKeeps ==
  ASSUME IInv, UNCHANGED <<database, device>>
  PROVE  FeedMatchesSource' /\ InFlightDrawn' /\ RowLocks' /\ NoSkippedChange'
BY DEF IInv, FeedMatchesSource, InFlightDrawn, RowLocks, NoSkippedChange, UpToRow, Touches,
       database, device

LEMMA PullCheckInv ==
  ASSUME NEW d \in Devices, IInv, PullCheck(d)
  PROVE  IInv'
<1>t. TypeOK /\ TypeOK'
  BY ServeType DEF IInv, Serve
<1>1. UNCHANGED <<horizon, page, more, next, answer, checksum, database, device>>
  BY DEF PullCheck
<1>2. \A c \in Devices : pc'[c] = pc[c] \/ pc'[c] \in {"resync", "horizon"}
  BY <1>t DEF PullCheck, TypeOK
<1>3. CursorsDrawn' /\ InFlightAboveCursors'
  BY <1>1 DEF IInv, CursorsDrawn, InFlightAboveCursors, Touches, database, device
<1>4. PageCovers' /\ AnswerCovers'
  BY <1>1, <1>2 DEF IInv, PageCovers, AnswerCovers, UpToRow, database, device
<1> QED
  BY <1>t, <1>1, <1>3, <1>4, ServeKeeps DEF IInv

\* sync_safe_horizon: its answer has been drawn, and no transaction in flight
\* holds a value at or below it.
LEMMA SafeHorizonIsSafe ==
  ASSUME IInv, NEW since \in Seqs, NEW h \in Seqs, SafeHorizon(since, h), since < nextSeq,
         \A s \in Sessions : \A e \in Entities : Touches(s, e) => pending[s][e].seq > since
  PROVE  /\ h < nextSeq
         /\ \A s \in Sessions : \A e \in Entities : Touches(s, e) => pending[s][e].seq > h
<1> USE NumbersAssumption
<1>1. \A q \in FeedSeqs : q < nextSeq
  BY DEF FeedSeqs, IInv, FeedMatchesSource, TypeOK
<1>2. CASE KeyIsFree
  BY <1>1, <1>2 DEF SafeHorizon, IsHead, KeyIsFree, HoldsKey
<1>3. CASE ~KeyIsFree
  BY <1>3 DEF SafeHorizon
<1> QED
  BY <1>2, <1>3

LEMMA PullHorizonInv ==
  ASSUME NEW d \in Devices, IInv, PullHorizon(d)
  PROVE  IInv'
<1>t. TypeOK /\ TypeOK'
  BY ServeType DEF IInv, Serve
<1>1. UNCHANGED <<page, more, next, answer, checksum, database, device>>
  BY DEF PullHorizon
<1>2. PICK h \in Seqs : SafeHorizon(cursor[d], h) /\ horizon' = [horizon EXCEPT ![d] = h]
  BY <1>t, SeqsOfFeed DEF PullHorizon, TypeOK
<1>3. /\ h < nextSeq
      /\ \A s \in Sessions : \A e \in Entities : Touches(s, e) => pending[s][e].seq > h
  <2>1. cursor[d] \in Seqs /\ cursor[d] < nextSeq
    BY DEF IInv, TypeOK, CursorsDrawn
  <2>2. \A s \in Sessions : \A e \in Entities : Touches(s, e) => pending[s][e].seq > cursor[d]
    BY DEF IInv, InFlightAboveCursors
  <2> QED
    BY <1>2, <2>1, <2>2, SafeHorizonIsSafe
<1>4. \A c \in Devices : horizon'[c] = horizon[c] \/ horizon'[c] = h
  BY <1>t, <1>2 DEF TypeOK
<1>5. \A c \in Devices : pc'[c] = pc[c] \/ pc'[c] = "rows"
  BY <1>t DEF PullHorizon, TypeOK
<1>6. CursorsDrawn'
  BY <1>1, <1>3, <1>4 DEF IInv, CursorsDrawn, database, device
<1>7. InFlightAboveCursors'
  <2>1. \A s \in Sessions : \A e \in Entities :
          /\ Touches(s, e)' <=> Touches(s, e)
          /\ pending'[s][e] = pending[s][e]
    BY <1>1 DEF Touches, database
  <2>2. cursor' = cursor /\ next' = next
    BY <1>1 DEF device
  <2> QED
    BY <1>3, <1>4, <2>1, <2>2 DEF IInv, InFlightAboveCursors
<1>8. PageCovers' /\ AnswerCovers'
  BY <1>1, <1>5 DEF IInv, PageCovers, AnswerCovers, UpToRow, database, device
<1> QED
  BY <1>t, <1>1, <1>6, <1>7, <1>8, ServeKeeps DEF IInv

\* The first Limit rows in seq order: closed downwards.
LEMMA FirstRowsClosed ==
  ASSUME TypeOK, NEW d \in Devices, NEW last \in FirstRows(d), NEW e \in Entities,
         InRange(d, e), feed[e].seq <= feed[last].seq
  PROVE  e \in FirstRows(d)
<1> DEFINE Below(g) == {f \in Entities : InRange(d, f) /\ feed[f].seq < feed[g].seq}
<1>1. last \in Entities /\ Cardinality(Below(last)) < Limit
  BY DEF FirstRows
<1>2. IsFiniteSet(Below(last)) /\ IsFiniteSet(Below(e))
  BY FS_Subset, SetsAssumption
<1>3. Below(e) \subseteq Below(last)
  BY <1>1, NumbersAssumption DEF TypeOK, Rows, Seqs
<1>4. Cardinality(Below(e)) <= Cardinality(Below(last))
  BY <1>2, <1>3, FS_Subset
<1>5. Cardinality(Below(e)) \in Nat /\ Cardinality(Below(last)) \in Nat
  BY <1>2, FS_CardinalityType
<1>6. Cardinality(Below(e)) < Limit
  <2> HIDE DEF Below
  <2> QED BY <1>1, <1>4, <1>5, NumbersAssumption
<1> QED
  BY <1>6 DEF FirstRows

LEMMA PullRowsInv ==
  ASSUME NEW d \in Devices, IInv, PullRows(d)
  PROVE  IInv'
<1> USE NumbersAssumption
<1>t. TypeOK /\ TypeOK'
  BY ServeType DEF IInv, Serve
<1>0. /\ nextSeq \in Nat
      /\ \A f \in Entities : feed[f].seq \in Nat
      /\ \A c \in Devices : cursor[c] \in Nat /\ horizon[c] \in Nat /\ next[c] \in Nat /\ next'[c] \in Nat
      /\ \A s \in Sessions : \A f \in Entities : pending[s][f].seq \in Nat
  BY <1>t DEF TypeOK, Rows, Seqs
<1>1. UNCHANGED <<horizon, answer, checksum, database, device>>
  BY DEF PullRows
<1>2. \A c \in Devices \ {d} : /\ page'[c] = page[c] /\ next'[c] = next[c] /\ pc'[c] = pc[c]
  BY <1>t DEF PullRows, TypeOK
<1>3. /\ pc'[d] = "project"
      /\ \A e \in Entities : page'[d][e] = IF e \in FirstRows(d) THEN feed[e] ELSE NoRow
  BY <1>t DEF PullRows, TypeOK
<1>4. \A e \in Entities : InRange(d, e) /\ feed[e].seq <= next'[d] => e \in FirstRows(d)
  <2>1. CASE \E e \in Entities : InRange(d, e) /\ e \notin FirstRows(d)
    <3>1. PICK last \in FirstRows(d) : next' = [next EXCEPT ![d] = feed[last].seq]
      BY <2>1 DEF PullRows
    <3> QED
      BY <1>t, <3>1, FirstRowsClosed DEF TypeOK
  <2> QED
    BY <2>1
<1>5. next'[d] <= horizon[d]
  <2>1. \A e \in FirstRows(d) : feed[e].seq <= horizon[d]
    BY DEF FirstRows, InRange
  <2> QED
    BY <1>t, <1>0, <2>1 DEF PullRows, TypeOK
<1>6. \A e \in Entities : feed[e].seq > 0 => feed[e].op # "none"
  BY <1>0 DEF IInv, FeedMatchesSource
<1>7. CursorsDrawn'
  BY <1>0, <1>1, <1>2, <1>5 DEF IInv, CursorsDrawn, database, device
<1>8. InFlightAboveCursors'
  <2>1. \A s \in Sessions : \A e \in Entities :
          /\ Touches(s, e)' <=> Touches(s, e)
          /\ pending'[s][e] = pending[s][e]
    BY <1>1 DEF Touches, database
  <2>2. \A c \in Devices : cursor'[c] = cursor[c] /\ horizon'[c] = horizon[c]
    BY <1>1 DEF device
  <2> QED
    BY <1>0, <1>2, <1>5, <2>1, <2>2 DEF IInv, InFlightAboveCursors
<1>9. PageCovers'
  <2>1. ASSUME NEW c \in Devices \ {d}, NEW e \in Entities, pc'[c] \in {"project", "page"}
        PROVE  /\ (feed'[e].seq > cursor'[c] /\ feed'[e].seq <= next'[c]) => page'[c][e] = feed'[e]
               /\ (page'[c][e].op # "none" /\ feed'[e].seq <= next'[c])
                    => feed'[e].op = "none" \/ feed'[e] = page'[c][e]
    BY <1>1, <1>2, <2>1 DEF IInv, PageCovers, database, device
  <2>2. ASSUME NEW e \in Entities
        PROVE  /\ (feed'[e].seq > cursor'[d] /\ feed'[e].seq <= next'[d]) => page'[d][e] = feed'[e]
               /\ (page'[d][e].op # "none" /\ feed'[e].seq <= next'[d])
                    => feed'[e].op = "none" \/ feed'[e] = page'[d][e]
    <3>1. feed' = feed /\ cursor' = cursor
      BY <1>1 DEF database, device
    <3>2. feed[e].seq > cursor[d] /\ feed[e].seq <= next'[d] => InRange(d, e)
      BY <1>0, <1>5, <1>6 DEF InRange
    <3> QED
      BY <1>3, <1>4, <3>1, <3>2 DEF NoRow
  <2> QED
    BY <2>1, <2>2 DEF PageCovers
<1>10. AnswerCovers'
  BY <1>1, <1>2, <1>3 DEF IInv, AnswerCovers, UpToRow, database, device
<1> QED
  BY <1>t, <1>1, <1>7, <1>8, <1>9, <1>10, ServeKeeps DEF IInv

\* The projection is taken after the rows were read: what it shows of a row
\* that is still the feed's is that row's version, or its absence.
LEMMA PullProjectInv ==
  ASSUME NEW d \in Devices, IInv, PullProject(d)
  PROVE  IInv'
<1> USE NumbersAssumption
<1>t. TypeOK /\ TypeOK'
  BY ServeType DEF IInv, Serve
<1>0. \A f \in Entities : /\ feed[f].seq \in Nat /\ source[f].ver \in Nat
                          /\ feed[f].op \in {"none", "upsert", "delete"}
  BY <1>t DEF TypeOK, Rows, Ops, Seqs
<1>1. UNCHANGED <<horizon, page, more, next, database, device>>
  BY DEF PullProject
<1>2. \A c \in Devices \ {d} : pc'[c] = pc[c] /\ answer'[c] = answer[c]
  BY <1>t DEF PullProject, TypeOK
<1>3. /\ pc[d] = "project" /\ pc'[d] = "page"
      /\ \A e \in Entities : answer'[d][e] = IF page[d][e].op = "upsert" THEN Projected(e) ELSE 0
  BY <1>t DEF PullProject, TypeOK
<1>4. CursorsDrawn' /\ InFlightAboveCursors'
  BY <1>1 DEF IInv, CursorsDrawn, InFlightAboveCursors, Touches, database, device
<1>5. PageCovers'
  BY <1>1, <1>2, <1>3 DEF IInv, PageCovers, database, device
<1>6. AnswerCovers'
  <2>1. ASSUME NEW e \in Entities, page[d][e].op # "none", feed[e].seq <= next[d]
        PROVE  UpToRow(e, answer'[d][e])
    <3>1. feed[e].op = "none" \/ feed[e] = page[d][e]
      BY <1>3, <2>1 DEF IInv, PageCovers
    <3>2. CASE feed[e].op = "none"
      BY <3>2 DEF UpToRow
    <3>3. CASE feed[e].op = "delete"
      BY <1>3, <3>1, <3>3 DEF UpToRow
    <3>4. CASE feed[e].op = "upsert"
      <4>1. answer'[d][e] = Projected(e) /\ source[e].ver = feed[e].seq
        BY <1>3, <3>1, <3>4 DEF IInv, FeedMatchesSource
      <4> QED
        BY <1>0, <3>4, <4>1 DEF UpToRow, Projected
    <3> QED
      BY <1>0, <3>2, <3>3, <3>4
  <2>2. \A e \in Entities : UpToRow(e, answer'[d][e]) <=> UpToRow(e, answer[d][e])'
    BY <1>1 DEF UpToRow, database
  <2>3. \A c \in Devices \ {d} : \A e \in Entities :
          UpToRow(e, answer[c][e]) <=> UpToRow(e, answer[c][e])'
    BY <1>1, <1>2 DEF UpToRow, database
  <2> QED
    BY <1>1, <1>2, <1>3, <2>1, <2>2, <2>3 DEF IInv, AnswerCovers, database
<1> QED
  BY <1>t, <1>1, <1>4, <1>5, <1>6, ServeKeeps DEF IInv

LEMMA FullHorizonInv ==
  ASSUME NEW d \in Devices, IInv, FullHorizon(d)
  PROVE  IInv'
<1> USE NumbersAssumption
<1>t. TypeOK /\ TypeOK'
  BY ServeType DEF IInv, Serve
<1>1. UNCHANGED <<page, more, next, answer, checksum, database, device>>
  BY DEF FullHorizon
<1>2. PICK h \in Seqs : SafeHorizon(0, h) /\ horizon' = [horizon EXCEPT ![d] = h]
  BY <1>t, SeqsOfFeed DEF FullHorizon
<1>3. /\ h < nextSeq
      /\ \A s \in Sessions : \A e \in Entities : Touches(s, e) => pending[s][e].seq > h
  <2>1. 0 \in Seqs /\ 0 < nextSeq
    BY <1>t DEF TypeOK, Seqs
  <2>2. \A s \in Sessions : \A e \in Entities : Touches(s, e) => pending[s][e].seq > 0
    BY <1>t DEF IInv, InFlightDrawn, TypeOK, Rows, Seqs
  <2> QED
    BY <1>2, <2>1, <2>2, SafeHorizonIsSafe
<1>4. \A c \in Devices : horizon'[c] = horizon[c] \/ horizon'[c] = h
  BY <1>t, <1>2 DEF TypeOK
<1>5. \A c \in Devices : pc'[c] = pc[c] \/ pc'[c] = "snapshot"
  BY <1>t DEF FullHorizon, TypeOK
<1>6. CursorsDrawn'
  BY <1>1, <1>3, <1>4 DEF IInv, CursorsDrawn, database, device
<1>7. InFlightAboveCursors'
  <2>1. \A s \in Sessions : \A e \in Entities :
          /\ Touches(s, e)' <=> Touches(s, e)
          /\ pending'[s][e] = pending[s][e]
    BY <1>1 DEF Touches, database
  <2>2. cursor' = cursor /\ next' = next
    BY <1>1 DEF device
  <2> QED
    BY <1>3, <1>4, <2>1, <2>2 DEF IInv, InFlightAboveCursors
<1>8. PageCovers' /\ AnswerCovers'
  BY <1>1, <1>5 DEF IInv, PageCovers, AnswerCovers, UpToRow, database, device
<1> QED
  BY <1>t, <1>1, <1>6, <1>7, <1>8, ServeKeeps DEF IInv

LEMMA FullSnapshotInv ==
  ASSUME NEW d \in Devices, IInv, FullSnapshot(d)
  PROVE  IInv'
<1> USE NumbersAssumption
<1>t. TypeOK /\ TypeOK'
  BY ServeType DEF IInv, Serve
<1>0. \A f \in Entities : /\ feed[f].seq \in Nat /\ source[f].ver \in Nat
                          /\ feed[f].op \in {"none", "upsert", "delete"}
  BY <1>t DEF TypeOK, Rows, Ops, Seqs
<1>1. UNCHANGED <<horizon, database, device>>
  BY DEF FullSnapshot
<1>2. \A c \in Devices \ {d} : /\ pc'[c] = pc[c] /\ answer'[c] = answer[c]
                               /\ page'[c] = page[c] /\ next'[c] = next[c]
  BY <1>t DEF FullSnapshot, TypeOK
<1>3. /\ pc'[d] = "full" /\ next'[d] = horizon[d]
      /\ \A e \in Entities : answer'[d][e] =
           IF feed[e].op = "upsert" /\ feed[e].seq <= horizon[d] /\ source[e].live
           THEN source[e].ver ELSE 0
  BY <1>t DEF FullSnapshot, TypeOK
<1>4. CursorsDrawn'
  BY <1>1, <1>2, <1>3 DEF IInv, CursorsDrawn, database, device
<1>5. InFlightAboveCursors'
  <2>1. \A s \in Sessions : \A e \in Entities :
          /\ Touches(s, e)' <=> Touches(s, e)
          /\ pending'[s][e] = pending[s][e]
    BY <1>1 DEF Touches, database
  <2>2. cursor' = cursor /\ horizon' = horizon
    BY <1>1 DEF device
  <2> QED
    BY <1>2, <1>3, <2>1, <2>2 DEF IInv, InFlightAboveCursors
<1>6. PageCovers'
  BY <1>1, <1>2, <1>3 DEF IInv, PageCovers, database, device
<1>7. AnswerCovers'
  <2>1. ASSUME NEW e \in Entities, feed[e].seq <= next'[d]
        PROVE  UpToRow(e, answer'[d][e])
    <3>1. feed[e].op = "upsert" => source[e].ver = feed[e].seq
      BY DEF IInv, FeedMatchesSource
    <3> QED
      BY <1>0, <1>3, <2>1, <3>1 DEF UpToRow
  <2>2. \A e \in Entities : UpToRow(e, answer'[d][e]) <=> UpToRow(e, answer[d][e])'
    BY <1>1 DEF UpToRow, database
  <2>3. \A c \in Devices \ {d} : \A e \in Entities :
          UpToRow(e, answer[c][e]) <=> UpToRow(e, answer[c][e])'
    BY <1>1, <1>2 DEF UpToRow, database
  <2> QED
    BY <1>1, <1>2, <1>3, <2>1, <2>2, <2>3 DEF IInv, AnswerCovers, database
<1> QED
  BY <1>t, <1>1, <1>4, <1>5, <1>6, <1>7, ServeKeeps DEF IInv

-----------------------------------------------------------------------------
(* The device's side of a pull.                                            *)

\* Whatever ends an exchange leaves the other pulls, and what is committed or
\* in flight in the database, as they were.
LEMMA EndPullInv ==
  ASSUME NEW d \in Devices, IInv, TypeOK', EndPull(d), UNCHANGED database,
         \A c \in Devices \ {d} : cursor'[c] = cursor[c] /\ heldVer'[c] = heldVer[c],
         cursor'[d] \in {cursor[d], next[d]},
         \A e \in Entities : feed[e].seq <= cursor'[d] => UpToRow(e, heldVer'[d][e])
  PROVE  IInv'
<1> USE NumbersAssumption
<1>t. TypeOK /\ TypeOK'
  BY DEF IInv
<1>0. /\ \A s \in Sessions : \A e \in Entities : pending[s][e].seq \in Nat
      /\ nextSeq \in Nat /\ nextSeq > 0
  BY <1>t DEF TypeOK, Rows, Seqs
<1>1. /\ \A c \in Devices \ {d} : /\ pc'[c] = pc[c] /\ horizon'[c] = horizon[c]
                                  /\ page'[c] = page[c] /\ next'[c] = next[c]
                                  /\ answer'[c] = answer[c]
      /\ pc'[d] = "idle" /\ horizon'[d] = 0 /\ next'[d] = 0
  BY <1>t DEF EndPull, TypeOK
<1>2. \A s \in Sessions : \A e \in Entities :
        /\ Touches(s, e)' <=> Touches(s, e)
        /\ pending'[s][e] = pending[s][e]
  BY DEF Touches, database
<1>3. FeedMatchesSource' /\ InFlightDrawn' /\ RowLocks'
  BY DEF IInv, FeedMatchesSource, InFlightDrawn, RowLocks, Touches, database
<1>4. CursorsDrawn'
  BY <1>0, <1>1 DEF IInv, CursorsDrawn, database
<1>5. InFlightAboveCursors'
  <2>1. \A s \in Sessions : \A e \in Entities : Touches(s, e) => pending[s][e].seq > 0
    BY <1>0, <1>t DEF IInv, InFlightDrawn, TypeOK, Rows, Seqs
  <2> QED
    BY <1>1, <1>2, <2>1 DEF IInv, InFlightAboveCursors
<1>6. PageCovers'
  BY <1>1 DEF IInv, PageCovers, database
<1>7. AnswerCovers'
  <2>1. \A c \in Devices \ {d} : \A e \in Entities :
          UpToRow(e, answer[c][e]) <=> UpToRow(e, answer[c][e])'
    BY <1>1 DEF UpToRow, database
  <2> QED
    BY <1>1, <2>1 DEF IInv, AnswerCovers, database
<1>8. NoSkippedChange'
  <2>1. \A c \in Devices \ {d} : \A e \in Entities :
          UpToRow(e, heldVer[c][e]) <=> UpToRow(e, heldVer[c][e])'
    BY DEF UpToRow, database
  <2>2. \A e \in Entities : UpToRow(e, heldVer'[d][e]) <=> UpToRow(e, heldVer[d][e])'
    BY DEF UpToRow, database
  <2> QED
    BY <2>1, <2>2 DEF IInv, NoSkippedChange, database
<1> QED
  BY <1>t, <1>3, <1>4, <1>5, <1>6, <1>7, <1>8 DEF IInv

\* The page holds every row between the old cursor and the new one, so what it
\* does not name was up to date already.
LEMMA ApplyPageInv ==
  ASSUME NEW d \in Devices, IInv, ApplyPage(d)
  PROVE  IInv'
<1> USE NumbersAssumption
<1>t. TypeOK /\ TypeOK'
  BY DeviceType DEF IInv, Apply
<1>1. /\ \A c \in Devices \ {d} : cursor'[c] = cursor[c] /\ heldVer'[c] = heldVer[c]
      /\ cursor'[d] = next[d]
      /\ \A e \in Entities : heldVer'[d][e] =
            IF page[d][e].op = "none" THEN heldVer[d][e] ELSE answer[d][e]
  BY <1>t DEF ApplyPage, TypeOK
<1>2. ASSUME NEW e \in Entities, feed[e].seq <= next[d]
      PROVE  UpToRow(e, heldVer'[d][e])
  <2>1. CASE page[d][e].op # "none"
    BY <1>1, <1>2, <2>1 DEF IInv, AnswerCovers, ApplyPage
  <2>2. CASE page[d][e].op = "none"
    <3>1. feed[e].seq > cursor[d] => page[d][e] = feed[e] /\ feed[e].op # "none"
      BY <1>t, <1>2 DEF IInv, PageCovers, ApplyPage, FeedMatchesSource, TypeOK, Rows, Seqs
    <3>2. feed[e].seq <= cursor[d]
      BY <1>t, <2>2, <3>1 DEF TypeOK, Rows, Seqs
    <3> QED
      BY <1>1, <2>2, <3>2 DEF IInv, NoSkippedChange
  <2> QED
    BY <2>1, <2>2
<1> QED
  BY <1>t, <1>1, <1>2, EndPullInv DEF ApplyPage

LEMMA ApplyFullInv ==
  ASSUME NEW d \in Devices, IInv, ApplyFull(d)
  PROVE  IInv'
<1>t. TypeOK /\ TypeOK'
  BY DeviceType DEF IInv, Apply
<1>1. /\ \A c \in Devices \ {d} : cursor'[c] = cursor[c] /\ heldVer'[c] = heldVer[c]
      /\ cursor'[d] = next[d] /\ heldVer'[d] = answer[d]
  BY <1>t DEF ApplyFull, TypeOK
<1>2. \A e \in Entities : feed[e].seq <= next[d] => UpToRow(e, heldVer'[d][e])
  BY <1>1 DEF IInv, AnswerCovers, ApplyFull
<1> QED
  BY <1>t, <1>1, <1>2, EndPullInv DEF ApplyFull

LEMMA DropInv ==
  ASSUME NEW d \in Devices, IInv, ApplyResync(d) \/ Lose(d)
  PROVE  IInv'
<1>t. TypeOK /\ TypeOK'
  BY DeviceType DEF IInv, Apply
<1>1. EndPull(d) /\ UNCHANGED <<cursor, heldVer, database>>
  BY DEF ApplyResync, Lose, device
<1>2. \A e \in Entities : feed[e].seq <= cursor[d] => UpToRow(e, heldVer[d][e])
  BY DEF IInv, NoSkippedChange
<1> QED
  BY <1>t, <1>1, <1>2, EndPullInv

-----------------------------------------------------------------------------
LEMMA InvStep == IInv /\ [Next]_vars => IInv'
<1> SUFFICES ASSUME IInv, [Next]_vars
             PROVE  IInv'
  OBVIOUS
<1>t. TypeOK'
  BY TypeStep DEF IInv
<1>1. CASE UNCHANGED vars
  BY <1>1, <1>t, QuietInv DEF vars, database
<1>2. ASSUME NEW s \in Sessions, Writer(s) PROVE IInv'
  <2>1. ASSUME NEW e \in Entities, Write(s, e) \/ SweepEmit(s, e) PROVE IInv'
    <3>1. sweep[s][e] \in {"none", "upsert", "delete"}
      BY DEF IInv, TypeOK, Ops
    <3> QED
      BY <2>1, <3>1, EmitInv DEF Write, SweepEmit
  <2>2. CASE SweepScan(s)
    BY <1>t, <2>2, QuietInv DEF SweepScan
  <2> QED
    BY <1>2, <2>1, <2>2, CommitInv, RollbackInv DEF Writer
<1>3. CASE Housekeeping
  <2>1. ASSUME NEW e \in Entities, AgeTombstone(e) PROVE IInv'
    BY <1>t, <2>1, QuietInv DEF AgeTombstone
  <2>2. CASE RaiseWatermark \/ SweepFails
    BY <1>t, <2>2, QuietInv DEF RaiseWatermark, SweepFails
  <2> QED
    BY <1>3, <2>1, <2>2, AgeOutInv, PurgeInv DEF Housekeeping
<1>4. ASSUME NEW d \in Devices, Serve(d) PROVE IInv'
  BY <1>4, PullCheckInv, PullHorizonInv, PullRowsInv, PullProjectInv, FullHorizonInv,
     FullSnapshotInv DEF Serve
<1>5. ASSUME NEW d \in Devices, Apply(d) \/ Lose(d) PROVE IInv'
  BY <1>5, ApplyPageInv, ApplyFullInv, DropInv DEF Apply
<1> QED
  BY <1>1, <1>2, <1>3, <1>4, <1>5 DEF Next

\* However many tills pull, and however transactions, purges, pages and lost
\* answers interleave, a device has applied every change its cursor passed.
THEOREM NothingSkipped == Spec => []NoSkippedChange
<1>1. IInv => NoSkippedChange
  BY DEF IInv
<1> QED
  BY <1>1, InvInit, InvStep, PTL DEF Spec

\* No transaction can still commit a change at or below a cursor, a horizon or
\* a `next` any pull has seen: what sync_safe_horizon is for.
THEOREM HorizonIsSafe == Spec => []InFlightAboveCursors
<1>1. IInv => InFlightAboveCursors
  BY DEF IInv
<1> QED
  BY <1>1, InvInit, InvStep, PTL DEF Spec

-----------------------------------------------------------------------------
(* Versions only move forward, and SyncFeed implements FeedContract.       *)

\* Devices hold, and answers carry, committed versions; an answer on its way
\* is no older than what its device holds.
CommittedOnly ==
  \A d \in Devices : \A e \in Entities :
    /\ heldVer[d][e] <= source[e].ver
    /\ answer[d][e] <= source[e].ver
    /\ (pc[d] \in {"page", "full"} /\ answer[d][e] # 0) => heldVer[d][e] <= answer[d][e]

LEMMA CommittedInit == Init => CommittedOnly
  BY DEF Init, CommittedOnly, Nothing

LEMMA SourceForward ==
  ASSUME IInv, [Next]_vars
  PROVE  \A e \in Entities : source[e].ver <= source'[e].ver
<1> USE NumbersAssumption
<1>0. TypeOK /\ \A e \in Entities : source[e].ver \in Nat
  BY DEF IInv, TypeOK, Seqs
<1>1. ASSUME NEW s \in Sessions, Writer(s) PROVE \A e \in Entities : source[e].ver <= source'[e].ver
  <2>1. CASE Commit(s)
    <3>1. \A e \in Entities : Touches(s, e) => pending[s][e].seq > source[e].ver /\ pending[s][e].seq \in Nat
      BY <1>0 DEF IInv, InFlightDrawn, TypeOK, Rows, Seqs
    <3> QED
      BY <1>0, <2>1, <3>1 DEF Commit
  <2>2. CASE UNCHANGED source
    BY <1>0, <2>2
  <2> QED
    BY <1>1, <2>1, <2>2 DEF Writer, Write, SweepScan, SweepEmit, EmitRow, Rollback
<1>2. ASSUME NEW e \in Entities, AgeOut(e) PROVE \A f \in Entities : source[f].ver <= source'[f].ver
  BY <1>0, <1>2 DEF AgeOut, TypeOK
<1>3. CASE UNCHANGED source
  BY <1>0, <1>3
<1>4. ASSUME NEW d \in Devices, Serve(d) PROVE UNCHANGED source
  BY <1>4 DEF Serve, PullCheck, PullHorizon, PullRows, PullProject, FullHorizon, FullSnapshot,
              database
<1>5. ASSUME NEW d \in Devices, Apply(d) \/ Lose(d) PROVE UNCHANGED source
  BY <1>5 DEF Apply, ApplyResync, ApplyPage, ApplyFull, Lose, database
<1>6. Housekeeping => UNCHANGED source \/ \E e \in Entities : AgeOut(e)
  BY DEF Housekeeping, AgeTombstone, PurgeTombstones, RaiseWatermark, SweepFails
<1>7. UNCHANGED vars => UNCHANGED source
  BY DEF vars, database
<1> QED
  BY <1>1, <1>2, <1>3, <1>4, <1>5, <1>6, <1>7 DEF Next

\* What one step of a pull does to the answers and to what devices hold.
LEMMA CommittedServe ==
  ASSUME NEW d \in Devices, IInv, CommittedOnly, Serve(d)
  PROVE  CommittedOnly'
<1> USE NumbersAssumption
<1>t. TypeOK /\ TypeOK'
  BY ServeType DEF IInv
<1>0. \A c \in Devices : \A e \in Entities : /\ heldVer[c][e] \in Nat /\ answer[c][e] \in Nat
                                             /\ source[e].ver \in Nat
  BY <1>t DEF TypeOK, Seqs
<1>1. UNCHANGED <<source, heldVer>>
  BY DEF Serve, PullCheck, PullHorizon, PullRows, PullProject, FullHorizon, FullSnapshot,
         database, device
<1>2. CASE PullProject(d) \/ FullSnapshot(d)
  <2>1. \A c \in Devices \ {d} : answer'[c] = answer[c] /\ pc'[c] = pc[c]
    BY <1>t, <1>2 DEF PullProject, FullSnapshot, TypeOK
  <2>2. \A e \in Entities : answer'[d][e] \in {0, source[e].ver}
    BY <1>t, <1>2 DEF PullProject, FullSnapshot, Projected, TypeOK
  <2> QED
    BY <1>0, <1>1, <2>1, <2>2 DEF CommittedOnly
<1>3. CASE PullCheck(d) \/ PullHorizon(d) \/ PullRows(d) \/ FullHorizon(d)
  <2>1. /\ answer' = answer
        /\ \A c \in Devices : pc'[c] = pc[c] \/ pc'[c] \notin {"page", "full"}
    BY <1>t, <1>3 DEF PullCheck, PullHorizon, PullRows, FullHorizon, TypeOK
  <2> QED
    BY <1>1, <2>1 DEF CommittedOnly
<1> QED
  BY <1>2, <1>3 DEF Serve

LEMMA CommittedApply ==
  ASSUME NEW d \in Devices, IInv, CommittedOnly, Apply(d) \/ Lose(d)
  PROVE  CommittedOnly'
<1> USE NumbersAssumption
<1>t. TypeOK /\ TypeOK'
  BY DeviceType DEF IInv
<1>0. \A c \in Devices : \A e \in Entities : /\ heldVer[c][e] \in Nat /\ answer[c][e] \in Nat
                                             /\ source[e].ver \in Nat
  BY <1>t DEF TypeOK, Seqs
<1>1. EndPull(d) /\ UNCHANGED source
  BY DEF Apply, ApplyResync, ApplyPage, ApplyFull, Lose, database
<1>2. \A c \in Devices \ {d} : pc'[c] = pc[c] /\ answer'[c] = answer[c] /\ heldVer'[c] = heldVer[c]
  BY <1>t DEF Apply, ApplyResync, ApplyPage, ApplyFull, Lose, EndPull, TypeOK, device
<1>3. pc'[d] = "idle" /\ answer'[d] = Nothing
  BY <1>t, <1>1 DEF EndPull, TypeOK
<1>4. \A e \in Entities : heldVer'[d][e] \in {heldVer[d][e], answer[d][e]}
  BY <1>t DEF Apply, ApplyResync, ApplyPage, ApplyFull, Lose, TypeOK, device
<1> QED
  BY <1>0, <1>1, <1>2, <1>3, <1>4 DEF CommittedOnly, Nothing

LEMMA CommittedStep == IInv /\ CommittedOnly /\ [Next]_vars => CommittedOnly'
<1> SUFFICES ASSUME IInv, CommittedOnly, [Next]_vars
             PROVE  CommittedOnly'
  OBVIOUS
<1> USE NumbersAssumption
<1>t. TypeOK /\ TypeOK'
  BY TypeStep DEF IInv
<1>0. \A d \in Devices : \A e \in Entities :
        /\ heldVer[d][e] \in Nat /\ answer[d][e] \in Nat
        /\ source[e].ver \in Nat /\ source'[e].ver \in Nat
  BY <1>t DEF TypeOK, Seqs
<1>1. CASE UNCHANGED <<pull, device>>
  BY <1>0, <1>1, SourceForward DEF CommittedOnly, pull, device
<1>2. ASSUME NEW d \in Devices, Serve(d) \/ Apply(d) \/ Lose(d) PROVE CommittedOnly'
  BY <1>2, CommittedServe, CommittedApply
<1>3. \/ UNCHANGED <<pull, device>>
      \/ \E d \in Devices : Serve(d) \/ Apply(d) \/ Lose(d)
  BY DEF Next, Writer, Write, SweepScan, SweepEmit, EmitRow, Commit, Rollback, Housekeeping, AgeOut,
         AgeTombstone, PurgeTombstones, RaiseWatermark, SweepFails, vars
<1> QED
  BY <1>1, <1>2, <1>3

\* A device never goes back to an older version of an entity.
THEOREM VersionsMoveForward == Spec => NeverOlder
<1>1. TypeOK /\ CommittedOnly /\ [Next]_vars
        => [\A d \in Devices : \A e \in Entities :
              heldVer'[d][e] # 0 => heldVer'[d][e] >= heldVer[d][e]]_vars
  <2> SUFFICES ASSUME TypeOK, CommittedOnly, Next, NEW d \in Devices, NEW e \in Entities,
                      heldVer'[d][e] # 0
               PROVE  heldVer'[d][e] >= heldVer[d][e]
    OBVIOUS
  <2>0. heldVer[d][e] \in Nat /\ answer[d][e] \in Nat
    BY NumbersAssumption DEF TypeOK, Seqs
  <2>1. ASSUME NEW c \in Devices, Apply(c)
        PROVE  \/ heldVer'[d][e] = heldVer[d][e]
               \/ (heldVer'[d][e] = answer[d][e] /\ pc[d] \in {"page", "full"})
    <3>1. CASE ApplyResync(c)
      BY <3>1 DEF ApplyResync
    <3>2. CASE ApplyPage(c)
      <4>1. CASE c = d
        BY <3>2, <4>1 DEF ApplyPage, TypeOK
      <4>2. CASE c # d
        BY <3>2, <4>2 DEF ApplyPage, TypeOK
      <4> QED
        BY <4>1, <4>2
    <3>3. CASE ApplyFull(c)
      <4>1. CASE c = d
        BY <3>3, <4>1 DEF ApplyFull, TypeOK
      <4>2. CASE c # d
        BY <3>3, <4>2 DEF ApplyFull, TypeOK
      <4> QED
        BY <4>1, <4>2
    <3> QED
      BY <2>1, <3>1, <3>2, <3>3 DEF Apply
  <2>2. (\E c \in Devices : Apply(c)) \/ UNCHANGED heldVer
    <3>1. ASSUME NEW s \in Sessions, Writer(s) PROVE UNCHANGED heldVer
      BY <3>1 DEF Writer, Write, SweepScan, SweepEmit, EmitRow, Commit, Rollback, device
    <3>2. Housekeeping => UNCHANGED heldVer
      BY DEF Housekeeping, AgeOut, AgeTombstone, PurgeTombstones, RaiseWatermark, SweepFails, device
    <3>3. ASSUME NEW c \in Devices, Serve(c) \/ Lose(c) PROVE UNCHANGED heldVer
      BY <3>3 DEF Serve, PullCheck, PullHorizon, PullRows, PullProject, FullHorizon, FullSnapshot,
                  Lose, device
    <3> QED
      BY <3>1, <3>2, <3>3 DEF Next
  <2> QED
    BY <2>0, <2>1, <2>2 DEF CommittedOnly
<1>2. IInv => TypeOK
  BY DEF IInv
<1> QED
  BY <1>1, <1>2, InvInit, InvStep, CommittedInit, CommittedStep, PTL DEF Spec, NeverOlder

-----------------------------------------------------------------------------
(* Refinement: each step is a step of the contract, or leaves it as it is.  *)

LEMMA ContractInit == Init => Contract!Init
  BY DEF Init, Contract!Init, NoRows, NoRow, Nothing

LEMMA CommitPublishes ==
  ASSUME NEW s \in Sessions, IInv, Commit(s)
  PROVE  Contract!Publish
<1> USE NumbersAssumption
<1>t. TypeOK
  BY DEF IInv
<1>0. \A e \in Entities : /\ feed[e].seq \in Nat /\ source[e].ver \in Nat
                          /\ pending[s][e].seq \in Nat
  BY <1>t DEF TypeOK, Rows, Seqs
<1>1. UNCHANGED <<cursor, heldVer>>
  BY DEF Commit, device
<1>2. ASSUME NEW e \in Entities, Touches(s, e)
      PROVE  /\ feed'[e] = pending[s][e]
             /\ source'[e].ver = feed'[e].seq
             /\ feed'[e].seq > feed[e].seq
             /\ \A d \in Devices : feed'[e].seq > cursor[d]
  <2>1. pending[s][e].seq > source[e].ver /\ feed[e].seq <= source[e].ver
    BY <1>0, <1>2 DEF IInv, InFlightDrawn, FeedMatchesSource
  <2>2. feed'[e] = pending[s][e]
    BY <1>2 DEF Commit
  <2>3. source'[e].ver = feed'[e].seq
    BY <1>2, <2>2 DEF Commit
  <2>4. \A d \in Devices : pending[s][e].seq > cursor[d]
    BY <1>2 DEF IInv, InFlightAboveCursors
  <2> QED
    BY <1>0, <2>1, <2>2, <2>3, <2>4
<1>3. ASSUME NEW e \in Entities, ~Touches(s, e)
      PROVE  feed'[e] = feed[e] /\ source'[e] = source[e]
  BY <1>3 DEF Commit
<1> QED
  BY <1>1, <1>2, <1>3 DEF Contract!Publish

LEMMA ApplyDelivers ==
  ASSUME NEW d \in Devices, IInv, IInv', CommittedOnly', ApplyPage(d) \/ ApplyFull(d)
  PROVE  Contract!Deliver(d)
<1>t. TypeOK
  BY DEF IInv
<1>1. UNCHANGED <<feed, source>>
  BY DEF ApplyPage, ApplyFull, database
<1>2. \A c \in Devices \ {d} : cursor'[c] = cursor[c] /\ heldVer'[c] = heldVer[c]
  BY <1>t DEF ApplyPage, ApplyFull, TypeOK
<1>3. \A e \in Entities : heldVer'[d][e] <= source[e].ver
  BY <1>1 DEF CommittedOnly
<1>4. \A e \in Entities : feed[e].seq <= cursor'[d] => Contract!Reflects(e, heldVer'[d][e])
  <2>1. ASSUME NEW e \in Entities, feed[e].seq <= cursor'[d] PROVE UpToRow(e, heldVer'[d][e])
    BY <1>1, <2>1 DEF IInv, NoSkippedChange, UpToRow
  <2>2. \A e \in Entities : feed[e].op \in {"none", "upsert", "delete"}
    BY <1>t DEF TypeOK, Rows, Ops
  <2> QED
    BY <2>1, <2>2 DEF UpToRow, Contract!Reflects
<1> QED
  BY <1>1, <1>2, <1>3, <1>4 DEF Contract!Deliver

\* Only tombstones grow old, so only tombstones are purged.
AgedAreTombstones == \A e \in aged : e \in Entities /\ feed[e].op = "delete"

LEMMA AgedStep == TypeOK /\ AgedAreTombstones /\ [Next]_vars => AgedAreTombstones'
<1> SUFFICES ASSUME TypeOK, AgedAreTombstones, [Next]_vars
             PROVE  AgedAreTombstones'
  OBVIOUS
<1>1. ASSUME NEW s \in Sessions, Writer(s) PROVE AgedAreTombstones'
  <2>1. CASE Commit(s)
    BY <2>1 DEF Commit, AgedAreTombstones
  <2>2. CASE ~Commit(s)
    BY <1>1, <2>2 DEF Writer, Write, SweepScan, SweepEmit, EmitRow, Rollback, AgedAreTombstones
  <2> QED
    BY <2>1, <2>2
<1>2. ASSUME Housekeeping PROVE AgedAreTombstones'
  <2>1. ASSUME NEW e \in Entities, AgeOut(e) \/ AgeTombstone(e) PROVE AgedAreTombstones'
    BY <2>1 DEF AgeOut, AgeTombstone, AgedAreTombstones, TypeOK
  <2>2. CASE PurgeTombstones
    BY <2>2 DEF PurgeTombstones, AgedAreTombstones
  <2>3. CASE RaiseWatermark \/ SweepFails
    BY <2>3 DEF RaiseWatermark, SweepFails, AgedAreTombstones
  <2> QED
    BY <1>2, <2>1, <2>2, <2>3 DEF Housekeeping
<1>3. ASSUME NEW d \in Devices, Serve(d) \/ Apply(d) \/ Lose(d) PROVE AgedAreTombstones'
  BY <1>3 DEF Serve, PullCheck, PullHorizon, PullRows, PullProject, FullHorizon, FullSnapshot,
              Apply, ApplyResync, ApplyPage, ApplyFull, Lose, database, AgedAreTombstones
<1>4. CASE UNCHANGED vars
  BY <1>4 DEF vars, database, AgedAreTombstones
<1> QED
  BY <1>1, <1>2, <1>3, <1>4 DEF Next

LEMMA PurgeForgets ==
  ASSUME TypeOK, AgedAreTombstones, PurgeTombstones
  PROVE  Contract!Forget
BY DEF PurgeTombstones, AgedAreTombstones, Contract!Forget, NoRow, device

LEMMA AgeOutExpires ==
  ASSUME NEW e \in Entities, AgeOut(e)
  PROVE  Contract!Expire
BY DEF AgeOut, Contract!Expire, device

LEMMA StepImplements ==
  ASSUME IInv, IInv', CommittedOnly', AgedAreTombstones, Next
  PROVE  [Contract!Next]_(Contract!vars)
<1>t. TypeOK
  BY DEF IInv
<1>1. ASSUME NEW s \in Sessions, Writer(s) PROVE [Contract!Next]_(Contract!vars)
  <2>1. CASE Commit(s)
    BY <2>1, CommitPublishes DEF Contract!Next
  <2>2. CASE ~Commit(s)
    BY <1>1, <2>2 DEF Writer, Write, SweepScan, SweepEmit, EmitRow, Rollback, device, Contract!vars
  <2> QED
    BY <2>1, <2>2
<1>2. ASSUME Housekeeping PROVE [Contract!Next]_(Contract!vars)
  <2>1. ASSUME NEW e \in Entities, AgeOut(e) PROVE Contract!Next
    BY <2>1, AgeOutExpires DEF Contract!Next
  <2>2. CASE PurgeTombstones
    BY <1>t, <2>2, PurgeForgets DEF Contract!Next
  <2>3. ASSUME NEW e \in Entities, AgeTombstone(e) PROVE UNCHANGED Contract!vars
    BY <2>3 DEF AgeTombstone, device, Contract!vars
  <2>4. CASE RaiseWatermark \/ SweepFails
    BY <2>4 DEF RaiseWatermark, SweepFails, device, Contract!vars
  <2> QED
    BY <1>2, <2>1, <2>2, <2>3, <2>4 DEF Housekeeping
<1>3. ASSUME NEW d \in Devices, Serve(d) PROVE UNCHANGED Contract!vars
  BY <1>3 DEF Serve, PullCheck, PullHorizon, PullRows, PullProject, FullHorizon, FullSnapshot,
              database, device, Contract!vars
<1>4. ASSUME NEW d \in Devices, Apply(d) \/ Lose(d) PROVE [Contract!Next]_(Contract!vars)
  <2>1. CASE ApplyPage(d) \/ ApplyFull(d)
    BY <2>1, ApplyDelivers DEF Contract!Next
  <2>2. CASE ApplyResync(d) \/ Lose(d)
    BY <2>2 DEF ApplyResync, Lose, database, device, Contract!vars
  <2> QED
    BY <1>4, <2>1, <2>2 DEF Apply
<1> QED
  BY <1>1, <1>2, <1>3, <1>4 DEF Next

\* The pull, statement by statement, implements the contract: whatever the
\* device applies brings it up to every published change below its cursor,
\* every later change lands above it, and only tombstones are forgotten.
THEOREM Implements == Spec => MeetsContract
<1>1. Init => AgedAreTombstones
  BY DEF Init, AgedAreTombstones
<1>2. IInv => TypeOK
  BY DEF IInv
<1>3. IInv /\ IInv' /\ CommittedOnly' /\ AgedAreTombstones /\ [Next]_vars
        => [Contract!Next]_(Contract!vars)
  <2> SUFFICES ASSUME IInv, IInv', CommittedOnly', AgedAreTombstones, [Next]_vars
               PROVE  [Contract!Next]_(Contract!vars)
    OBVIOUS
  <2>1. CASE Next
    BY <2>1, StepImplements
  <2>2. CASE UNCHANGED vars
    BY <2>2 DEF vars, database, device, Contract!vars
  <2> QED
    BY <2>1, <2>2
<1> QED
  BY <1>1, <1>2, <1>3, ContractInit, InvInit, InvStep, CommittedInit, CommittedStep, AgedStep, PTL
     DEF Spec, MeetsContract, Contract!Spec

-----------------------------------------------------------------------------
(* The checksums of an answer.  They are counted after the rows were read,  *)
(* in a snapshot in which both may have moved; the horizon is what makes   *)
(* the count and the device's set meet all the same.                       *)

\* A row of the feed carries a value drawn from the sequence, never 0.
RowsNumbered == \A e \in Entities : feed[e].op # "none" => feed[e].seq > 0

\* Only the clock takes an entity out of its live set behind the feed's back,
\* and only for those entities has a sweep anything to emit.
ClockOnly ==
  /\ \A e \in Entities \ TimeBased :
       /\ source[e].live <=> feed[e].op = "upsert"
       /\ \A s \in Sessions : sweep[s][e] = "none"
  /\ \A s \in Sessions : \A e \in Entities :
       Sweeps(s) /\ Touches(s, e) => sweep[s][e] # "none"

\* The row of entity e is one a checksum up to q counts.
Countable(e, q) == feed[e].op = "upsert" /\ source[e].live /\ feed[e].seq <= q

\* What a device holds of a row below its cursor bears the row's number.
HeldAtRow ==
  \A d \in Devices : \A e \in Entities :
    Countable(e, cursor[d]) => heldSeq[d][e] = feed[e].seq

\* The last page hands the horizon out.
LastAtHorizon ==
  \A d \in Devices : pc[d] = "project" /\ ~more[d] => next[d] = horizon[d]

\* A snapshot brings each row with the row's number.
SnapshotStamped ==
  \A d \in Devices : \A e \in Entities :
    pc[d] = "full" /\ answer[d][e] # 0 /\ Countable(e, next[d])
      => page[d][e].seq = feed[e].seq

\* A last answer counts each countable row up to the cursor it hands out ...
CountsAll ==
  \A d \in Devices : \A e \in Entities :
    pc[d] \in {"page", "full"} /\ ~more[d] /\ Countable(e, next[d])
      => <<e, feed[e].seq>> \in checksum[d]

\* ... and nothing else than what it brings or the device holds already.
CountsHeld ==
  \A d \in Devices : \A e \in Entities : \A q \in Seqs :
    pc[d] \in {"page", "full"} /\ ~more[d] /\ <<e, q>> \in checksum[d] =>
      IF pc[d] = "page" /\ page[d][e].op = "none"
      THEN heldVer[d][e] # 0 /\ heldSeq[d][e] = q
      ELSE answer[d][e] # 0 /\ page[d][e].seq = q

Counting ==
  /\ RowsNumbered /\ ClockOnly /\ HeldAtRow /\ LastAtHorizon
  /\ SnapshotStamped /\ CountsAll /\ CountsHeld

LEMMA CountingInit == Init => Counting
<1> SUFFICES ASSUME Init PROVE Counting
  OBVIOUS
<1>1. \A e \in Entities : feed[e] = NoRow /\ source[e].live = FALSE /\ NoRow.op = "none"
  BY DEF Init, NoRows, NoRow
<1>2. \A s \in Sessions : \A e \in Entities : sweep[s][e] = "none"
  BY DEF Init, NoOps
<1>3. ClockOnly
  BY <1>1, <1>2 DEF ClockOnly, Sweeps
<1>4. RowsNumbered /\ HeldAtRow /\ SnapshotStamped /\ CountsAll
  BY <1>1 DEF RowsNumbered, HeldAtRow, SnapshotStamped, CountsAll, Countable
<1>5. LastAtHorizon /\ CountsHeld
  BY DEF Init, LastAtHorizon, CountsHeld
<1> QED
  BY <1>3, <1>4, <1>5 DEF Counting

LEMMA NumberedStep ==
  ASSUME IInv, RowsNumbered, [Next]_vars
  PROVE  RowsNumbered'
<1> USE NumbersAssumption
<1>0. TypeOK
  BY DEF IInv
<1>1. ASSUME NEW s \in Sessions, Writer(s) PROVE RowsNumbered'
  <2>1. CASE Commit(s)
    <3>1. \A e \in Entities : /\ pending[s][e].seq \in Nat /\ source[e].ver \in Nat
                              /\ Touches(s, e) => pending[s][e].seq > source[e].ver
      BY <1>0 DEF IInv, InFlightDrawn, TypeOK, Rows, Seqs
    <3>2. \A e \in Entities : feed'[e] = IF Touches(s, e) THEN pending[s][e] ELSE feed[e]
      BY <2>1 DEF Commit
    <3> QED
      BY <3>1, <3>2 DEF RowsNumbered
  <2>2. CASE UNCHANGED feed
    BY <2>2 DEF RowsNumbered
  <2> QED
    BY <1>1, <2>1, <2>2 DEF Writer, Write, SweepScan, SweepEmit, EmitRow, Rollback
<1>2. CASE PurgeTombstones
  BY <1>2 DEF PurgeTombstones, RowsNumbered, NoRow
<1>3. CASE UNCHANGED feed
  BY <1>3 DEF RowsNumbered
<1>4. Housekeeping => PurgeTombstones \/ UNCHANGED feed
  BY DEF Housekeeping, AgeOut, AgeTombstone, RaiseWatermark, SweepFails
<1>5. ASSUME NEW d \in Devices, Serve(d) \/ Apply(d) \/ Lose(d) PROVE UNCHANGED feed
  BY <1>5 DEF Serve, PullCheck, PullHorizon, PullRows, PullProject, FullHorizon, FullSnapshot,
              Apply, ApplyResync, ApplyPage, ApplyFull, Lose, database
<1> QED
  BY <1>1, <1>2, <1>3, <1>4, <1>5 DEF Next, vars, database

LEMMA ClockStep == TypeOK /\ AgedAreTombstones /\ ClockOnly /\ [Next]_vars => ClockOnly'
<1> SUFFICES ASSUME TypeOK, AgedAreTombstones, ClockOnly, [Next]_vars
             PROVE  ClockOnly'
  OBVIOUS
<1>1. CASE UNCHANGED <<feed, source, pending, sweep>>
  BY <1>1 DEF ClockOnly, Sweeps, Touches
<1>2. ASSUME NEW s \in Sessions, Writer(s) PROVE ClockOnly'
  <2>1. ASSUME NEW e \in Entities, NEW op \in Ops, EmitRow(s, e, op),
               ~Sweeps(s) \/ sweep[s][e] # "none"
        PROVE  ClockOnly'
    <3>1. /\ UNCHANGED <<feed, source, sweep>>
          /\ \A t \in Sessions : \A f \in Entities :
               (t # s \/ f # e) => pending'[t][f] = pending[t][f]
      BY <2>1 DEF EmitRow, TypeOK
    <3>2. \A t \in Sessions : Sweeps(t)' <=> Sweeps(t)
      BY <3>1 DEF Sweeps
    <3>3. ASSUME NEW t \in Sessions, NEW f \in Entities, Sweeps(t)', Touches(t, f)'
          PROVE  sweep'[t][f] # "none"
      <4>1. CASE t = s /\ f = e
        BY <2>1, <3>1, <3>2, <3>3, <4>1
      <4>2. CASE t # s \/ f # e
        BY <3>1, <3>2, <3>3, <4>2 DEF ClockOnly, Touches
      <4> QED
        BY <4>1, <4>2
    <3> QED
      BY <3>1, <3>3 DEF ClockOnly
  <2>2. CASE SweepScan(s)
    <3>1. /\ UNCHANGED <<feed, source, pending>>
          /\ \A e \in Entities : ~Touches(s, e)
          /\ \A t \in Sessions \ {s} : sweep'[t] = sweep[t]
          /\ \A t \in Sessions : ~Sweeps(t)
      BY <2>2 DEF SweepScan, HoldsKey, TypeOK
    <3>2. \A e \in Entities \ TimeBased : sweep'[s][e] = "none"
      <4>2. CASE sweep' = [sweep EXCEPT ![s] = [e \in Entities |->
                   IF e \in TimeBased /\ feed[e].op = "upsert" /\ ~source[e].live
                   THEN "delete" ELSE "none"]]
        BY <4>2 DEF TypeOK
      <4>3. CASE sweep' = [sweep EXCEPT ![s] = [e \in Entities |->
                   IF feed[e].op = "none" /\ source[e].live THEN "upsert" ELSE "none"]]
        <5>1. \A e \in Entities \ TimeBased : ~(feed[e].op = "none" /\ source[e].live)
          BY DEF ClockOnly
        <5>2. \A e \in Entities :
                sweep'[s][e] = IF feed[e].op = "none" /\ source[e].live THEN "upsert" ELSE "none"
          BY <4>3 DEF TypeOK
        <5> QED
          BY <5>1, <5>2
      <4> QED
        BY <2>2, <4>2, <4>3 DEF SweepScan
    <3> QED
      BY <3>1, <3>2 DEF ClockOnly, Sweeps, Touches
  <2>3. CASE Commit(s)
    <3>1. ASSUME NEW e \in Entities \ TimeBased
          PROVE  source'[e].live <=> feed'[e].op = "upsert"
      <4>1. Touches(s, e) => ~Sweeps(s)
        BY <3>1 DEF ClockOnly
      <4>2. CASE Touches(s, e)
        BY <2>3, <4>1, <4>2 DEF Commit
      <4>3. CASE ~Touches(s, e)
        BY <2>3, <4>3 DEF Commit, ClockOnly
      <4> QED
        BY <4>2, <4>3
    <3>2. /\ \A e \in Entities : sweep'[s][e] = "none"
          /\ \A t \in Sessions \ {s} : sweep'[t] = sweep[t] /\ pending'[t] = pending[t]
      BY <2>3 DEF Commit, NoOps, TypeOK
    <3> QED
      BY <3>1, <3>2 DEF ClockOnly, Sweeps, Touches
  <2>4. CASE Rollback(s)
    <3>1. /\ \A e \in Entities : sweep'[s][e] = "none"
          /\ \A t \in Sessions \ {s} : sweep'[t] = sweep[t] /\ pending'[t] = pending[t]
          /\ UNCHANGED <<feed, source>>
      BY <2>4 DEF Rollback, NoOps, TypeOK
    <3> QED
      BY <3>1 DEF ClockOnly, Sweeps, Touches
  <2>5. ASSUME NEW e \in Entities, Write(s, e) \/ SweepEmit(s, e) PROVE ClockOnly'
    <3>1. "upsert" \in Ops /\ "delete" \in Ops /\ sweep[s][e] \in Ops
      BY DEF Ops, TypeOK
    <3>2. CASE Write(s, e)
      BY <2>1, <3>1, <3>2 DEF Write
    <3>3. CASE SweepEmit(s, e)
      BY <2>1, <3>1, <3>3 DEF SweepEmit
    <3> QED
      BY <2>5, <3>2, <3>3
  <2> QED
    BY <1>2, <2>2, <2>3, <2>4, <2>5 DEF Writer
<1>3. ASSUME NEW e \in Entities, AgeOut(e) PROVE ClockOnly'
  <2>1. /\ e \in TimeBased /\ UNCHANGED <<feed, pending, sweep>>
        /\ \A f \in Entities \ TimeBased : source'[f] = source[f]
    BY <1>3 DEF AgeOut, TypeOK
  <2> QED
    BY <2>1 DEF ClockOnly, Sweeps, Touches
<1>4. CASE PurgeTombstones
  <2>1. /\ UNCHANGED <<source, pending, sweep>>
        /\ \A e \in Entities : feed'[e] = feed[e] \/ (e \in aged /\ feed'[e] = NoRow)
    BY <1>4 DEF PurgeTombstones
  <2>2. \A e \in Entities \ TimeBased : source[e].live <=> feed'[e].op = "upsert"
    BY <2>1 DEF ClockOnly, AgedAreTombstones, NoRow
  <2> QED
    BY <2>1, <2>2 DEF ClockOnly, Sweeps, Touches
<1>5. \/ UNCHANGED <<feed, source, pending, sweep>> \/ PurgeTombstones
      \/ (\E s \in Sessions : Writer(s)) \/ (\E e \in Entities : AgeOut(e))
  BY DEF Next, Housekeeping, AgeTombstone, RaiseWatermark, SweepFails, Serve, PullCheck, PullHorizon,
         PullRows, PullProject, FullHorizon, FullSnapshot, Apply, ApplyResync, ApplyPage, ApplyFull,
         Lose, vars, database
<1> QED
  BY <1>1, <1>2, <1>3, <1>4, <1>5

-----------------------------------------------------------------------------
\* What the writers, the clock and the sweeper may do to a row: leave it, take
\* it out of its live set, purge it, or stamp it above every pull's cursors.
LEMMA RowsMoveUp ==
  ASSUME IInv, [Next]_vars, UNCHANGED <<pull, device>>
  PROVE  \A e \in Entities :
           \/ feed'[e] = feed[e] /\ (source'[e].live => source[e].live)
           \/ feed'[e].op = "none"
           \/ \A d \in Devices : /\ feed'[e].seq > cursor[d]
                                 /\ feed'[e].seq > next[d]
<1>t. TypeOK
  BY DEF IInv
<1> DEFINE Moved(e) == \/ feed'[e] = feed[e] /\ (source'[e].live => source[e].live)
                       \/ feed'[e].op = "none"
                       \/ \A d \in Devices : /\ feed'[e].seq > cursor[d]
                                             /\ feed'[e].seq > next[d]
<1>1. UNCHANGED <<feed, source>> => \A e \in Entities : Moved(e)
  OBVIOUS
<1>2. ASSUME NEW s \in Sessions, Commit(s), NEW e \in Entities PROVE Moved(e)
  <2>1. CASE Touches(s, e)
    <3>1. feed'[e] = pending[s][e]
      BY <1>2, <2>1 DEF Commit
    <3> QED
      BY <2>1, <3>1 DEF IInv, InFlightAboveCursors
  <2>2. CASE ~Touches(s, e)
    BY <1>2, <2>2 DEF Commit
  <2> QED
    BY <2>1, <2>2
<1>3. ASSUME NEW f \in Entities, AgeOut(f), NEW e \in Entities PROVE Moved(e)
  <2>1. feed' = feed /\ (source'[e] = source[e] \/ ~source'[e].live)
    BY <1>t, <1>3 DEF AgeOut, TypeOK
  <2> QED
    BY <2>1
<1>4. ASSUME PurgeTombstones, NEW e \in Entities PROVE Moved(e)
  BY <1>4 DEF PurgeTombstones, NoRow
<1>5. \/ UNCHANGED <<feed, source>> \/ PurgeTombstones
      \/ (\E s \in Sessions : Commit(s)) \/ (\E e \in Entities : AgeOut(e))
  BY DEF Next, Writer, Write, SweepScan, SweepEmit, EmitRow, Rollback, Housekeeping, AgeTombstone,
         RaiseWatermark, SweepFails, Serve, PullCheck, PullHorizon,
         PullRows, PullProject, FullHorizon, FullSnapshot, Apply, ApplyResync, ApplyPage, ApplyFull,
         Lose, vars, database
<1> HIDE DEF Moved
<1>6. \A e \in Entities : Moved(e)
  BY <1>1, <1>2, <1>3, <1>4, <1>5
<1> QED
  BY <1>6 DEF Moved

\* A row still countable below a cursor after such a step was so before it.
LEMMA CountingQuiet ==
  ASSUME IInv, Counting, [Next]_vars, UNCHANGED <<pull, device>>
  PROVE  HeldAtRow' /\ LastAtHorizon' /\ SnapshotStamped' /\ CountsAll' /\ CountsHeld'
<1> USE NumbersAssumption
<1>t. TypeOK /\ TypeOK'
  BY TypeStep DEF IInv
<1>u. UNCHANGED <<pc, horizon, page, more, next, answer, checksum, cursor, heldSeq, heldVer>>
  BY DEF pull, device
<1>1. \A e \in Entities : feed'[e].seq \in Nat
  BY <1>t DEF TypeOK, Rows, Seqs
<1>2. \A d \in Devices : cursor[d] \in Nat /\ next[d] \in Nat
  BY <1>t DEF TypeOK, Seqs
<1>3. ASSUME NEW d \in Devices, NEW e \in Entities, NEW q \in {cursor[d], next[d]},
             Countable(e, q)'
      PROVE  Countable(e, q) /\ feed'[e] = feed[e]
  <2>1. feed'[e].op = "upsert" /\ source'[e].live /\ feed'[e].seq <= q
    BY <1>u, <1>3 DEF Countable
  <2> QED
    BY <1>1, <1>2, <2>1, RowsMoveUp DEF Countable
<1>4. HeldAtRow'
  BY <1>u, <1>3 DEF Counting, HeldAtRow
<1>5. SnapshotStamped'
  BY <1>u, <1>3 DEF Counting, SnapshotStamped
<1>6. CountsAll'
  BY <1>u, <1>3 DEF Counting, CountsAll
<1>7. LastAtHorizon' /\ CountsHeld'
  BY <1>u DEF Counting, LastAtHorizon, CountsHeld
<1> QED
  BY <1>4, <1>5, <1>6, <1>7

\* The statements before the count leave what is known of answers alone.
LEMMA CountingServe ==
  ASSUME NEW d \in Devices, IInv, Counting,
         PullCheck(d) \/ PullHorizon(d) \/ PullRows(d) \/ FullHorizon(d)
  PROVE  HeldAtRow' /\ LastAtHorizon' /\ SnapshotStamped' /\ CountsAll' /\ CountsHeld'
<1>t. TypeOK
  BY DEF IInv
<1>1. /\ UNCHANGED <<feed, source, cursor, heldSeq, heldVer, answer, checksum>>
      /\ \A c \in Devices \ {d} : /\ pc'[c] = pc[c] /\ page'[c] = page[c] /\ more'[c] = more[c]
                                  /\ next'[c] = next[c] /\ horizon'[c] = horizon[c]
      /\ pc'[d] \notin {"page", "full"}
  <2>1. CASE PullCheck(d) \/ PullHorizon(d) \/ FullHorizon(d)
    BY <1>t, <2>1 DEF PullCheck, PullHorizon, FullHorizon, TypeOK, database, device
  <2>2. CASE PullRows(d)
    BY <1>t, <2>2 DEF PullRows, TypeOK, database, device
  <2> QED
    BY <2>1, <2>2
<1>2. pc'[d] = "project" /\ ~more'[d] => next'[d] = horizon'[d]
  <2>1. CASE PullCheck(d) \/ PullHorizon(d) \/ FullHorizon(d)
    BY <1>t, <2>1 DEF PullCheck, PullHorizon, FullHorizon, TypeOK
  <2>2. CASE PullRows(d)
    BY <1>t, <2>2 DEF PullRows, TypeOK
  <2> QED
    BY <2>1, <2>2
<1>4. HeldAtRow'
  BY <1>1 DEF Counting, HeldAtRow, Countable
<1>5. LastAtHorizon'
  BY <1>1, <1>2 DEF Counting, LastAtHorizon
<1>6. SnapshotStamped'
  BY <1>1 DEF Counting, SnapshotStamped, Countable
<1>7. CountsAll'
  BY <1>1 DEF Counting, CountsAll, Countable
<1>8. CountsHeld'
  BY <1>1 DEF Counting, CountsHeld
<1> QED
  BY <1>4, <1>5, <1>6, <1>7, <1>8

\* The count of an incremental answer: a row it counts is on the page as the
\* count sees it, or below the cursor and held at its number.
LEMMA PageCount ==
  ASSUME NEW d \in Devices, IInv, Counting, PullProject(d), ~more[d],
         NEW e \in Entities, Countable(e, next[d])
  PROVE  IF page[d][e].op = "none"
         THEN heldVer[d][e] # 0 /\ heldSeq[d][e] = feed[e].seq
         ELSE answer'[d][e] # 0 /\ page[d][e].seq = feed[e].seq
<1> USE NumbersAssumption
<1>t. TypeOK
  BY DEF IInv
<1>0. /\ feed[e].seq \in Nat /\ source[e].ver \in Nat /\ heldVer[d][e] \in Nat
      /\ cursor[d] \in Nat /\ next[d] \in Nat
      /\ feed[e] \in Rows /\ page[d][e] \in Rows
  BY <1>t DEF TypeOK, Rows, Seqs
<1>1. /\ feed[e].op = "upsert" /\ source[e].live /\ feed[e].seq <= next[d]
      /\ feed[e].seq > 0 /\ source[e].ver = feed[e].seq
  BY DEF Countable, Counting, RowsNumbered, IInv, FeedMatchesSource
<1>2. CASE page[d][e].op = "none"
  <2>1. feed[e].seq <= cursor[d]
    BY <1>0, <1>1, <1>2 DEF PullProject, IInv, PageCovers
  <2>2. UpToRow(e, heldVer[d][e])
    BY <2>1 DEF IInv, NoSkippedChange
  <2>3. heldVer[d][e] # 0
    BY <1>0, <1>1, <2>2 DEF UpToRow
  <2>4. heldSeq[d][e] = feed[e].seq
    BY <1>1, <2>1 DEF Counting, HeldAtRow, Countable
  <2> QED
    BY <1>2, <2>3, <2>4
<1>3. CASE page[d][e].op # "none"
  <2>1. page[d][e] = feed[e]
    BY <1>0, <1>1, <1>3 DEF PullProject, IInv, PageCovers
  <2>2. answer'[d][e] = source[e].ver
    BY <1>t, <1>1, <2>1 DEF PullProject, Projected, TypeOK
  <2> QED
    BY <1>0, <1>1, <1>3, <2>1, <2>2
<1> QED
  BY <1>2, <1>3

LEMMA CountingProject ==
  ASSUME NEW d \in Devices, IInv, Counting, PullProject(d)
  PROVE  HeldAtRow' /\ LastAtHorizon' /\ SnapshotStamped' /\ CountsAll' /\ CountsHeld'
<1>t. TypeOK
  BY DEF IInv
<1>1. /\ UNCHANGED <<feed, source, cursor, heldSeq, heldVer, page, more, next, horizon>>
      /\ \A c \in Devices \ {d} : /\ pc'[c] = pc[c] /\ answer'[c] = answer[c]
                                  /\ checksum'[c] = checksum[c]
      /\ pc[d] = "project" /\ pc'[d] = "page"
      /\ ~more[d] => checksum'[d] = Counted(d) /\ next[d] = horizon[d]
  BY <1>t DEF PullProject, TypeOK, database, device, Counting, LastAtHorizon
<1>2. ~more[d] => checksum'[d] =
        {<<e, feed[e].seq>> : e \in {f \in Entities : Countable(f, next[d])}}
  BY <1>1 DEF Counted, Countable
<1>3. HeldAtRow'
  BY <1>1 DEF Counting, HeldAtRow, Countable
<1>4. LastAtHorizon'
  BY <1>1 DEF Counting, LastAtHorizon
<1>5. SnapshotStamped'
  BY <1>1 DEF Counting, SnapshotStamped, Countable
<1>6. CountsAll'
  <2>1. ASSUME NEW e \in Entities, ~more[d], Countable(e, next[d])
        PROVE  <<e, feed[e].seq>> \in checksum'[d]
    BY <1>2, <2>1
  <2> QED
    BY <1>1, <2>1 DEF Counting, CountsAll, Countable
<1>7. CountsHeld'
  <2>1. ASSUME NEW e \in Entities, NEW q \in Seqs, ~more[d], <<e, q>> \in checksum'[d]
        PROVE  IF page[d][e].op = "none"
               THEN heldVer[d][e] # 0 /\ heldSeq[d][e] = q
               ELSE answer'[d][e] # 0 /\ page[d][e].seq = q
    <3>1. Countable(e, next[d]) /\ q = feed[e].seq
      BY <1>2, <2>1
    <3> QED
      BY <2>1, <3>1, PageCount
  <2> QED
    BY <1>1, <2>1 DEF Counting, CountsHeld
<1> QED
  BY <1>3, <1>4, <1>5, <1>6, <1>7

LEMMA CountingSnapshot ==
  ASSUME NEW d \in Devices, IInv, Counting, FullSnapshot(d)
  PROVE  HeldAtRow' /\ LastAtHorizon' /\ SnapshotStamped' /\ CountsAll' /\ CountsHeld'
<1> USE NumbersAssumption
<1>t. TypeOK
  BY DEF IInv
<1>1. /\ UNCHANGED <<feed, source, cursor, heldSeq, heldVer, horizon>>
      /\ \A c \in Devices \ {d} : /\ pc'[c] = pc[c] /\ answer'[c] = answer[c]
                                  /\ checksum'[c] = checksum[c] /\ page'[c] = page[c]
                                  /\ more'[c] = more[c] /\ next'[c] = next[c]
      /\ pc'[d] = "full" /\ next'[d] = horizon[d] /\ checksum'[d] = Counted(d)
  BY <1>t DEF FullSnapshot, TypeOK, database, device
<1>2. \A e \in Entities :
        /\ answer'[d][e] = IF Countable(e, horizon[d]) THEN source[e].ver ELSE 0
        /\ page'[d][e] = IF Countable(e, horizon[d]) THEN feed[e] ELSE NoRow
  BY <1>t DEF FullSnapshot, Countable, TypeOK
<1>3. checksum'[d] = {<<e, feed[e].seq>> : e \in {f \in Entities : Countable(f, horizon[d])}}
  BY <1>1 DEF Counted, Countable
<1>4. \A e \in Entities : Countable(e, horizon[d]) => source[e].ver # 0
  <2>1. \A e \in Entities : feed[e].op = "upsert" => source[e].ver = feed[e].seq /\ feed[e].seq > 0
    BY DEF IInv, FeedMatchesSource, Counting, RowsNumbered
  <2>2. \A e \in Entities : feed[e].seq \in Nat
    BY <1>t DEF TypeOK, Rows, Seqs
  <2> QED
    BY <2>1, <2>2 DEF Countable
<1>5. HeldAtRow' /\ LastAtHorizon'
  BY <1>1 DEF Counting, HeldAtRow, LastAtHorizon, Countable
<1>6. SnapshotStamped'
  <2>1. \A e \in Entities : answer'[d][e] # 0 => page'[d][e].seq = feed[e].seq
    BY <1>2
  <2> QED
    BY <1>1, <2>1 DEF Counting, SnapshotStamped, Countable
<1>7. CountsAll'
  <2>1. ASSUME NEW e \in Entities, Countable(e, horizon[d])
        PROVE  <<e, feed[e].seq>> \in checksum'[d]
    BY <1>3, <2>1
  <2> QED
    BY <1>1, <2>1 DEF Counting, CountsAll, Countable
<1>8. CountsHeld'
  <2>1. ASSUME NEW e \in Entities, NEW q \in Seqs, <<e, q>> \in checksum'[d]
        PROVE  answer'[d][e] # 0 /\ page'[d][e].seq = q
    <3>1. Countable(e, horizon[d]) /\ q = feed[e].seq
      BY <1>3, <2>1
    <3> QED
      BY <1>2, <1>4, <3>1
  <2> QED
    BY <1>1, <2>1 DEF Counting, CountsHeld
<1> QED
  BY <1>5, <1>6, <1>7, <1>8

-----------------------------------------------------------------------------
\* When a pull ends only its own device's set is new.
LEMMA CountingEnd ==
  ASSUME NEW d \in Devices, IInv, Counting, EndPull(d), UNCHANGED database,
         \A c \in Devices \ {d} : /\ cursor'[c] = cursor[c] /\ heldSeq'[c] = heldSeq[c]
                                  /\ heldVer'[c] = heldVer[c],
         \A e \in Entities : Countable(e, cursor'[d]) => heldSeq'[d][e] = feed[e].seq
  PROVE  HeldAtRow' /\ LastAtHorizon' /\ SnapshotStamped' /\ CountsAll' /\ CountsHeld'
<1>t. TypeOK
  BY DEF IInv
<1>1. /\ UNCHANGED <<feed, source>> /\ pc'[d] = "idle"
      /\ \A c \in Devices \ {d} : /\ pc'[c] = pc[c] /\ answer'[c] = answer[c]
                                  /\ checksum'[c] = checksum[c] /\ page'[c] = page[c]
                                  /\ more'[c] = more[c] /\ next'[c] = next[c]
                                  /\ horizon'[c] = horizon[c]
  BY <1>t DEF EndPull, TypeOK, database
<1>2. HeldAtRow'
  BY <1>1 DEF Counting, HeldAtRow, Countable
<1>3. LastAtHorizon' /\ CountsHeld'
  BY <1>1 DEF Counting, LastAtHorizon, CountsHeld
<1>4. SnapshotStamped' /\ CountsAll'
  BY <1>1 DEF Counting, SnapshotStamped, CountsAll, Countable
<1> QED
  BY <1>2, <1>3, <1>4

\* A countable row at or below a cursor is held: nothing has been skipped.
LEMMA CountableIsHeld ==
  ASSUME NEW d \in Devices, IInv', RowsNumbered', UNCHANGED <<feed, source>>,
         NEW e \in Entities, Countable(e, cursor'[d])
  PROVE  heldVer'[d][e] # 0
<1> USE NumbersAssumption
<1>1. UpToRow(e, heldVer[d][e])'
  BY DEF IInv, NoSkippedChange, Countable
<1>2. feed[e].seq > 0 /\ feed[e].seq \in Nat
  BY DEF RowsNumbered, IInv, TypeOK, Rows, Seqs, Countable
<1>3. heldVer'[d][e] \in Nat
  BY DEF IInv, TypeOK, Seqs
<1> QED
  BY <1>1, <1>2, <1>3 DEF UpToRow, Countable

\* What applying a page does to one entity of the device's set.
LEMMA PageApplied ==
  ASSUME NEW d \in Devices, TypeOK, ApplyPage(d), NEW e \in Entities
  PROVE  /\ page[d][e].op = "none" => /\ heldVer'[d][e] = heldVer[d][e]
                                      /\ heldSeq'[d][e] = heldSeq[d][e]
         /\ page[d][e].op # "none" => heldVer'[d][e] = answer[d][e]
         /\ page[d][e].op # "none" /\ answer[d][e] # 0 => heldSeq'[d][e] = page[d][e].seq
<1>1. heldVer'[d][e] = IF page[d][e].op = "none" THEN heldVer[d][e] ELSE answer[d][e]
  BY DEF ApplyPage, TypeOK
<1>2. heldSeq'[d][e] = IF page[d][e].op = "none" THEN heldSeq[d][e]
                       ELSE IF answer[d][e] = 0 THEN 0 ELSE page[d][e].seq
  BY DEF ApplyPage, TypeOK
<1> QED
  BY <1>1, <1>2

LEMMA CountingApply ==
  ASSUME NEW d \in Devices, IInv, IInv', Counting, RowsNumbered', Apply(d) \/ Lose(d)
  PROVE  HeldAtRow' /\ LastAtHorizon' /\ SnapshotStamped' /\ CountsAll' /\ CountsHeld'
<1> USE NumbersAssumption
<1>t. TypeOK
  BY DEF IInv
<1>0. \A e \in Entities : /\ feed[e].seq \in Nat /\ cursor[d] \in Nat /\ next[d] \in Nat
                          /\ feed[e] \in Rows
  BY <1>t DEF TypeOK, Rows, Seqs
<1>e. EndPull(d) /\ UNCHANGED database /\ UNCHANGED <<feed, source>>
  BY DEF Apply, ApplyResync, ApplyPage, ApplyFull, Lose, database
<1>1. CASE ApplyPage(d)
  <2>1. /\ cursor'[d] = next[d] /\ pc[d] = "page"
        /\ \A c \in Devices \ {d} : /\ cursor'[c] = cursor[c] /\ heldSeq'[c] = heldSeq[c]
                                    /\ heldVer'[c] = heldVer[c]
    BY <1>t, <1>1 DEF ApplyPage, TypeOK
  <2>2. ASSUME NEW e \in Entities, Countable(e, next[d])
        PROVE  heldSeq'[d][e] = feed[e].seq
    <3>1. heldVer'[d][e] # 0
      BY <1>e, <2>1, <2>2, CountableIsHeld
    <3>2. CASE page[d][e].op = "none"
      <4>1. feed[e].seq <= next[d] /\ feed[e].op = "upsert"
        BY <2>2 DEF Countable
      <4>2. ~(feed[e].seq > cursor[d] /\ feed[e].seq <= next[d])
        BY <2>1, <3>2, <4>1 DEF IInv, PageCovers
      <4>3. feed[e].seq <= cursor[d]
        BY <1>0, <4>1, <4>2
      <4> QED
        BY <1>1, <1>t, <2>2, <3>2, <4>3, PageApplied DEF Counting, HeldAtRow, Countable
    <3>3. CASE page[d][e].op # "none"
      <4>1. page[d][e] = feed[e]
        BY <2>1, <2>2, <3>3 DEF IInv, PageCovers, Countable
      <4> QED
        BY <1>1, <1>t, <3>1, <3>3, <4>1, PageApplied
    <3> QED
      BY <3>2, <3>3
  <2> QED
    BY <1>e, <2>1, <2>2, CountingEnd
<1>2. CASE ApplyFull(d)
  <2>1. /\ cursor'[d] = next[d] /\ pc[d] = "full" /\ heldVer'[d] = answer[d]
        /\ \A e \in Entities : heldSeq'[d][e] = page[d][e].seq
        /\ \A c \in Devices \ {d} : /\ cursor'[c] = cursor[c] /\ heldSeq'[c] = heldSeq[c]
                                    /\ heldVer'[c] = heldVer[c]
    BY <1>t, <1>2 DEF ApplyFull, TypeOK
  <2>2. ASSUME NEW e \in Entities, Countable(e, next[d])
        PROVE  heldSeq'[d][e] = feed[e].seq
    <3>1. answer[d][e] # 0
      BY <1>e, <2>1, <2>2, CountableIsHeld
    <3> QED
      BY <2>1, <2>2, <3>1 DEF Counting, SnapshotStamped
  <2> QED
    BY <1>e, <2>1, <2>2, CountingEnd
<1>3. CASE ApplyResync(d) \/ Lose(d)
  <2>1. UNCHANGED <<cursor, heldSeq, heldVer>>
    BY <1>3 DEF ApplyResync, Lose, device
  <2>2. \A e \in Entities : Countable(e, cursor[d]) => heldSeq[d][e] = feed[e].seq
    BY DEF Counting, HeldAtRow
  <2> QED
    BY <1>e, <2>1, <2>2, CountingEnd
<1> QED
  BY <1>1, <1>2, <1>3 DEF Apply

LEMMA CountingStep ==
  IInv /\ IInv' /\ AgedAreTombstones /\ Counting /\ [Next]_vars => Counting'
<1> SUFFICES ASSUME IInv, IInv', AgedAreTombstones, Counting, [Next]_vars
             PROVE  Counting'
  OBVIOUS
<1>1. RowsNumbered' /\ ClockOnly'
  BY NumberedStep, ClockStep DEF IInv, Counting
<1>2. HeldAtRow' /\ LastAtHorizon' /\ SnapshotStamped' /\ CountsAll' /\ CountsHeld'
  <2>1. CASE UNCHANGED <<pull, device>>
    BY <2>1, CountingQuiet
  <2>2. ASSUME NEW d \in Devices, Serve(d)
        PROVE  HeldAtRow' /\ LastAtHorizon' /\ SnapshotStamped' /\ CountsAll' /\ CountsHeld'
    BY <2>2, CountingServe, CountingProject, CountingSnapshot DEF Serve
  <2>3. ASSUME NEW d \in Devices, Apply(d) \/ Lose(d)
        PROVE  HeldAtRow' /\ LastAtHorizon' /\ SnapshotStamped' /\ CountsAll' /\ CountsHeld'
    BY <1>1, <2>3, CountingApply
  <2>4. \/ UNCHANGED <<pull, device>>
        \/ \E d \in Devices : Serve(d) \/ Apply(d) \/ Lose(d)
    BY DEF Next, Writer, Write, SweepScan, SweepEmit, EmitRow, Commit, Rollback, Housekeeping, AgeOut,
           AgeTombstone, PurgeTombstones, RaiseWatermark, SweepFails, vars
  <2> QED
    BY <2>1, <2>2, <2>3, <2>4
<1> QED
  BY <1>1, <1>2 DEF Counting

\* A last answer explains what its device holds once the answer is applied.
LEMMA AnswerExplains ==
  ASSUME NEW d \in Devices, IInv, IInv', Counting, Counting',
         ApplyPage(d) \/ ApplyFull(d), ~more[d]
  PROVE  /\ checksum[d] \subseteq Digest(d)'
         /\ \A e \in Entities :
              heldVer'[d][e] # 0 /\ <<e, heldSeq'[d][e]>> \notin checksum[d]
                => MayBeUncounted(d, e)
<1> USE NumbersAssumption
<1>t. TypeOK
  BY DEF IInv
<1>0. \A e \in Entities : feed[e].seq \in Nat /\ next[d] \in Nat /\ feed[e].op \in Ops
  BY <1>t DEF TypeOK, Rows, Seqs
<1>1. /\ cursor'[d] = next[d] /\ pc[d] \in {"page", "full"} /\ UNCHANGED <<feed, source>>
  BY <1>t DEF ApplyPage, ApplyFull, TypeOK, database
<1>2. ASSUME NEW e \in Entities, NEW q \in Seqs, <<e, q>> \in checksum[d]
      PROVE  heldVer'[d][e] # 0 /\ heldSeq'[d][e] = q
  <2>1. IF pc[d] = "page" /\ page[d][e].op = "none"
        THEN heldVer[d][e] # 0 /\ heldSeq[d][e] = q
        ELSE answer[d][e] # 0 /\ page[d][e].seq = q
    BY <1>1, <1>2 DEF Counting, CountsHeld
  <2>2. CASE ApplyPage(d)
    <3>1. pc[d] = "page"
      BY <2>2 DEF ApplyPage
    <3> QED
      BY <1>t, <2>1, <2>2, <3>1, PageApplied
  <2>3. CASE ApplyFull(d)
    <3>1. heldVer'[d][e] = answer[d][e] /\ heldSeq'[d][e] = page[d][e].seq /\ pc[d] = "full"
      BY <1>t, <2>3 DEF ApplyFull, TypeOK
    <3> QED
      BY <2>1, <3>1
  <2> QED
    BY <2>2, <2>3
<1>3. checksum[d] \subseteq Digest(d)'
  <2>1. checksum[d] \subseteq Entities \X Seqs
    BY <1>t DEF TypeOK
  <2>2. ASSUME NEW p \in checksum[d] PROVE p \in Digest(d)'
    <3>1. PICK e \in Entities, q \in Seqs : p = <<e, q>>
      BY <2>1, <2>2
    <3> QED
      BY <1>2, <3>1 DEF Digest
  <2> QED
    BY <2>2
<1>4. ASSUME NEW e \in Entities, heldVer'[d][e] # 0, <<e, heldSeq'[d][e]>> \notin checksum[d],
             feed[e].seq <= next[d], feed[e].op # "none"
      PROVE  e \in TimeBased /\ ~source[e].live
  <2>1. feed[e].op = "upsert"
    <3>1. UpToRow(e, heldVer[d][e])'
      BY <1>1, <1>4 DEF IInv, NoSkippedChange
    <3> QED
      BY <1>0, <1>1, <1>4, <3>1 DEF UpToRow, Ops
  <2>2. ~source[e].live
    <3>1. SUFFICES ASSUME Countable(e, next[d]) PROVE FALSE
      BY <1>4, <2>1 DEF Countable
    <3>2. Countable(e, cursor[d])'
      BY <1>1, <3>1 DEF Countable
    <3>3. heldSeq'[d][e] = feed[e].seq
      BY <1>1, <3>2 DEF Counting, HeldAtRow
    <3> QED
      BY <1>1, <1>4, <3>1, <3>3 DEF Counting, CountsAll
  <2> QED
    BY <2>1, <2>2 DEF Counting, ClockOnly
<1>5. \A e \in Entities :
        heldVer'[d][e] # 0 /\ <<e, heldSeq'[d][e]>> \notin checksum[d] => MayBeUncounted(d, e)
  BY <1>0, <1>4 DEF MayBeUncounted
<1> QED
  BY <1>3, <1>5

\* Whatever was written, swept, purged or lost between the rows of an answer
\* and its checksums, a mismatch on the device is one the feed explains.
THEOREM MismatchesExplained == Spec => MismatchIsExplained
<1>1. IInv /\ IInv' /\ Counting /\ Counting' /\ [Next]_vars
        => [\A d \in Devices : (ApplyPage(d) \/ ApplyFull(d)) /\ ~more[d] =>
              /\ checksum[d] \subseteq Digest(d)'
              /\ \A e \in Entities :
                   heldVer'[d][e] # 0 /\ <<e, heldSeq'[d][e]>> \notin checksum[d]
                     => MayBeUncounted(d, e)]_vars
  BY AnswerExplains
<1>2. Init => AgedAreTombstones
  BY DEF Init, AgedAreTombstones
<1>3. IInv => TypeOK
  BY DEF IInv
<1> QED
  BY <1>1, <1>2, <1>3, AgedStep, InvInit, InvStep, CountingInit, CountingStep, PTL
     DEF Spec, MismatchIsExplained
=============================================================================

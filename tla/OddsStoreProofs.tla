--------------------------- MODULE OddsStoreProofs ---------------------------
(***************************************************************************)
(* The prior and the close survive compaction and pruning: for any widths, *)
(* leads, ages and retentions that fit together as the assumption says,    *)
(* and any interleaving of the sync, the daily job, the backfill and moved *)
(* kickoffs.                                                               *)
(***************************************************************************)
EXTENDS OddsStore, FiniteSetTheorems, WellFoundedInduction, TLAPS

\* A bucket is the last multiple of the width.
LEMMA BucketIs ==
  ASSUME NEW t \in Time
  PROVE  Bucket(t) \in Time /\ Bucket(t) <= t /\ t < Bucket(t) + Width
<1>1. t \in Nat /\ Width \in Nat \ {0}
  BY OddsStoreAssumption DEF Time
<1>2. t % Width \in Nat /\ t % Width < Width
  BY <1>1
<1>3. t % Width <= t
  <2>1. t = Width * (t \div Width) + (t % Width) /\ t \div Width \in Nat
    BY <1>1
  <2>2. Width * (t \div Width) \in Nat
    BY <1>1, <2>1
  <2> QED BY <1>1, <1>2, <2>1, <2>2
<1> QED BY <1>1, <1>2, <1>3, OddsStoreAssumption DEF Bucket, Time

\* Rows, as records.
LEMMA RowType ==
  ASSUME NEW r \in Snapshot
  PROVE  /\ r.inplay \in BOOLEAN /\ r.bucket \in Time /\ r.captured \in Time
         /\ r.answered \in Time \cup {None} /\ r.source \in {"hkjc", "football_data"}
         /\ r.bucket \in Nat /\ r.captured \in Nat
BY OddsStoreAssumption DEF Snapshot, Time

\* If something was captured before a cutoff, something was captured last.
LEMMA LatestExists ==
  ASSUME NEW set, set \subseteq Snapshot, NEW cutoff \in Int,
         NEW r \in set, r.captured < cutoff
  PROVE  \E s \in LatestBefore(set, cutoff) : s.captured >= r.captured
<1> DEFINE Before == {s \in set : s.captured < cutoff}
           Left == {k \in Nat : \E s \in Before : s.captured + k = MaxTime}
<1>1. \A s \in Before : s.captured \in Nat /\ s.captured <= MaxTime /\ MaxTime \in Nat
  BY RowType, OddsStoreAssumption DEF Time
<1>2. \A s \in Before : MaxTime - s.captured \in Left
  BY <1>1
<1>3. PICK k \in Left : \A m \in Left : ~ (<<m, k>> \in OpToRel(<, Nat))
  <2>1. Left # {} /\ Left \subseteq Nat
    BY <1>2
  <2> HIDE DEF Left
  <2> QED BY <2>1, NatLessThanWellFounded, WFMin
<1>4. \A m \in Left : k <= m
  <2>1. SUFFICES ASSUME NEW m \in Left, m < k PROVE FALSE
    OBVIOUS
  <2>2. <<m, k>> \in OpToRel(<, Nat)
    BY <2>1 DEF OpToRel
  <2> QED BY <1>3, <2>2
<1>5. PICK s \in Before : s.captured + k = MaxTime
  BY <1>3
<1>6. \A q \in Before : q.captured <= s.captured
  BY <1>1, <1>2, <1>4, <1>5
<1> QED BY <1>5, <1>6 DEF LatestBefore

\* Of rows there is a first one captured.
LEMMA FirstExists ==
  ASSUME NEW set, set \subseteq Snapshot, set # {}
  PROVE  \E e \in set : \A s \in set : e.captured <= s.captured
<1> DEFINE Times == {k \in Nat : \E s \in set : s.captured = k}
<1>1. \A s \in set : s.captured \in Nat /\ s.captured \in Times
  BY RowType
<1>2. PICK k \in Times : \A m \in Times : ~ (<<m, k>> \in OpToRel(<, Nat))
  <2>1. Times # {} /\ Times \subseteq Nat
    BY <1>1
  <2> HIDE DEF Times
  <2> QED BY <2>1, NatLessThanWellFounded, WFMin
<1>3. \A m \in Times : k <= m
  <2>1. SUFFICES ASSUME NEW m \in Times, m < k PROVE FALSE
    OBVIOUS
  <2>2. <<m, k>> \in OpToRel(<, Nat)
    BY <2>1 DEF OpToRel
  <2> QED BY <1>2, <2>2
<1>4. PICK e \in set : e.captured = k
  BY <1>2
<1> QED BY <1>1, <1>3, <1>4

\* What lies between the start of a bucket and a time of the bucket is of the bucket.
LEMMA SameBucket ==
  ASSUME NEW x \in Time, NEW y \in Time, Bucket(y) <= x, x <= y
  PROVE  Bucket(x) = Bucket(y)
<1>1. x \in Nat /\ y \in Nat /\ Width \in Nat \ {0}
  BY OddsStoreAssumption DEF Time
<1> DEFINE a == x \div Width
           b == y \div Width
<1>2. /\ a \in Nat /\ b \in Nat
      /\ x = Width * a + (x % Width) /\ y = Width * b + (y % Width)
      /\ x % Width \in 0 .. Width - 1 /\ y % Width \in 0 .. Width - 1
  BY <1>1
<1>3. Width * a \in Nat /\ Width * b \in Nat
  BY <1>1, <1>2
<1>4. Bucket(x) = Width * a /\ Bucket(y) = Width * b
  BY <1>1, <1>2, <1>3 DEF Bucket
<1>5. Width * b < Width * a + Width /\ Width * a < Width * b + Width
  BY <1>1, <1>2, <1>3, <1>4
<1> HIDE DEF a, b
<1>6. ~(a < b)
  <2>1. SUFFICES ASSUME a < b PROVE FALSE
    OBVIOUS
  <2>2. b - a - 1 \in Nat
    BY <1>2, <2>1
  <2>3. Width * (b - a - 1) \in Nat /\ Width * b = Width * a + Width + Width * (b - a - 1)
    BY <1>1, <1>2, <2>2
  <2> QED BY <1>1, <1>3, <1>5, <2>3
<1>7. ~(b < a)
  <2>1. SUFFICES ASSUME b < a PROVE FALSE
    OBVIOUS
  <2>2. a - b - 1 \in Nat
    BY <1>2, <2>1
  <2>3. Width * (a - b - 1) \in Nat /\ Width * a = Width * b + Width + Width * (a - b - 1)
    BY <1>1, <1>2, <2>2
  <2> QED BY <1>1, <1>3, <1>5, <2>3
<1> QED BY <1>2, <1>4, <1>6, <1>7

-----------------------------------------------------------------------------
(* What the writers of the table do.                                       *)

\* A capture takes over the row of its bucket, or makes one.
LEMMA UpsertDoes ==
  ASSUME TypeOK, fetch # None, NEW f \in BOOLEAN, rows' = Upsert(rows, f, fetch, clock)
  PROVE  LET key == <<f, Bucket(fetch)>>
         IN  /\ rows' \subseteq Snapshot /\ IsFiniteSet(rows')
             /\ \A r, s \in rows' : Key(r) = Key(s) => r = s
             /\ \A r \in rows : Key(r) # key => r \in rows'
             /\ \A r \in rows : Key(r) = key =>
                  \E s \in rows' : Key(s) = key /\ s.captured = fetch /\ s.source = r.source
             /\ \A r \in rows' :
                  \/ r \in rows /\ Key(r) # key
                  \/ /\ Key(r) = key /\ r.captured = fetch /\ r.answered = clock
                     /\ r.inplay = f /\ r.bucket = Bucket(fetch)
                     /\ r.source = "hkjc" \/ \E o \in rows : Key(o) = key /\ r.source = o.source
<1> DEFINE key == <<f, Bucket(fetch)>>
           old == {r \in rows : Key(r) = key}
           fresh == [inplay |-> f, bucket |-> Bucket(fetch), captured |-> fetch,
                     answered |-> clock, source |-> "hkjc"]
           taken(r) == [r EXCEPT !.captured = fetch, !.answered = clock]
<1>0. fetch \in Time /\ clock \in Time /\ Bucket(fetch) \in Time /\ IsFiniteSet(rows)
  BY BucketIs DEF TypeOK
<1>1. CASE old = {}
  <2>1. rows' = rows \cup {fresh}
    BY <1>1 DEF Upsert
  <2>2. fresh \in Snapshot /\ Key(fresh) = key
    BY <1>0 DEF Snapshot, Key
  <2>3. \A r \in rows : Key(r) # key
    BY <1>1
  <2>4. IsFiniteSet(rows')
    BY <1>0, <2>1, FS_AddElement
  <2>5. /\ fresh.captured = fetch /\ fresh.answered = clock /\ fresh.source = "hkjc"
        /\ fresh.inplay = f /\ fresh.bucket = Bucket(fetch)
    OBVIOUS
  <2> HIDE DEF fresh, key, old
  <2>6. \A r, s \in rows' : Key(r) = Key(s) => r = s
    BY <2>1, <2>2, <2>3 DEF TypeOK
  <2> QED BY <2>1, <2>2, <2>3, <2>4, <2>5, <2>6 DEF TypeOK, key
<1>2. CASE old # {}
  <2>1. PICK o \in rows : Key(o) = key
    BY <1>2
  <2>2. old = {o}
    BY <2>1 DEF TypeOK
  <2>3. rows' = (rows \ {o}) \cup {taken(o)}
    <3>1. rows' = (rows \ old) \cup {taken(r) : r \in old}
      BY <1>2 DEF Upsert
    <3> QED BY <2>2, <3>1
  <2>4. /\ taken(o) \in Snapshot /\ Key(taken(o)) = key
        /\ taken(o).captured = fetch /\ taken(o).answered = clock /\ taken(o).source = o.source
        /\ taken(o).inplay = f /\ taken(o).bucket = Bucket(fetch)
    <3>1. o \in Snapshot
      BY <2>1 DEF TypeOK
    <3> QED BY <1>0, <2>1, <3>1 DEF Snapshot, Key
  <2>5. IsFiniteSet(rows')
    <3>1. IsFiniteSet(rows \ {o})
      BY <1>0, FS_RemoveElement
    <3> HIDE DEF taken
    <3> QED BY <2>3, <3>1, FS_AddElement
  <2> HIDE DEF taken, key, old
  <2>6. \A r, s \in rows' : Key(r) = Key(s) => r = s
    BY <2>1, <2>3, <2>4 DEF TypeOK
  <2>7. \A r \in rows : Key(r) = key => r = o
    BY <2>1 DEF TypeOK
  <2>8. rows' \subseteq Snapshot
    BY <2>3, <2>4 DEF TypeOK
  <2> QED BY <2>1, <2>3, <2>4, <2>5, <2>6, <2>7, <2>8 DEF key
<1> QED BY <1>1, <1>2

\* The backfill adds its row to the kickoff's bucket, or its odds to the row there.
LEMMA BackfillDoes ==
  ASSUME TypeOK, Backfill
  PROVE  LET key == <<FALSE, kickoff>>
         IN  /\ rows' \subseteq Snapshot /\ IsFiniteSet(rows')
             /\ \A r, s \in rows' : Key(r) = Key(s) => r = s
             /\ \/ \E new \in Snapshot :
                     /\ rows' = rows \cup {new} /\ Key(new) = key /\ new.source = "football_data"
                     /\ new.captured = kickoff /\ new.bucket = kickoff
                     /\ \A r \in rows : Key(r) # key
                \/ \E o \in rows, new \in Snapshot :
                     /\ rows' = (rows \ {o}) \cup {new} /\ Key(new) = key /\ Key(o) = key
                     /\ new.captured = o.captured /\ new.source = o.source
                     /\ new.inplay = o.inplay /\ new.bucket = o.bucket
                     /\ o.bucket = kickoff /\ new.answered = None
<1> DEFINE key == <<FALSE, kickoff>>
           old == {r \in rows : Key(r) = key}
           fresh == [inplay |-> FALSE, bucket |-> kickoff, captured |-> kickoff,
                     answered |-> None, source |-> "football_data"]
           blank(r) == [r EXCEPT !.answered = None]
<1>0. kickoff \in Time /\ IsFiniteSet(rows)
  BY OddsStoreAssumption DEF TypeOK
<1>1. CASE old = {}
  <2>1. rows' = rows \cup {fresh}
    BY <1>1 DEF Backfill
  <2>2. fresh \in Snapshot /\ Key(fresh) = key
    BY <1>0 DEF Snapshot, Key
  <2>3. \A r \in rows : Key(r) # key
    BY <1>1
  <2>4. IsFiniteSet(rows')
    BY <1>0, <2>1, FS_AddElement
  <2>5. /\ fresh.captured = kickoff /\ fresh.source = "football_data" /\ fresh.bucket = kickoff
    OBVIOUS
  <2> HIDE DEF fresh, key, old
  <2>6. \A r, s \in rows' : Key(r) = Key(s) => r = s
    BY <2>1, <2>2, <2>3 DEF TypeOK
  <2> QED BY <2>1, <2>2, <2>3, <2>4, <2>5, <2>6 DEF TypeOK, key
<1>2. CASE old # {}
  <2>1. PICK o \in rows : Key(o) = key
    BY <1>2
  <2>2. old = {o}
    BY <2>1 DEF TypeOK
  <2>3. rows' = (rows \ {o}) \cup {blank(o)}
    <3>1. rows' = (rows \ old) \cup {blank(r) : r \in old}
      BY <1>2 DEF Backfill
    <3> QED BY <2>2, <3>1
  <2>4. /\ blank(o) \in Snapshot /\ Key(blank(o)) = key
        /\ blank(o).captured = o.captured /\ blank(o).answered = None
        /\ blank(o).source = o.source /\ o.bucket = kickoff
        /\ blank(o).inplay = o.inplay /\ blank(o).bucket = o.bucket
    <3>1. o \in Snapshot
      BY <2>1 DEF TypeOK
    <3> QED BY <1>0, <2>1, <3>1 DEF Snapshot, Key
  <2>5. IsFiniteSet(rows')
    <3>1. IsFiniteSet(rows \ {o})
      BY <1>0, FS_RemoveElement
    <3> HIDE DEF blank
    <3> QED BY <2>3, <3>1, FS_AddElement
  <2> HIDE DEF blank, key, old
  <2>6. \A r, s \in rows' : Key(r) = Key(s) => r = s
    BY <2>1, <2>3, <2>4 DEF TypeOK
  <2>8. rows' \subseteq Snapshot
    BY <2>3, <2>4 DEF TypeOK
  <2> QED BY <2>1, <2>3, <2>4, <2>5, <2>6, <2>8 DEF key
<1> QED BY <1>1, <1>2

\* A deletion takes away rows and adds none.
LEMMA DeleteDoes ==
  ASSUME TypeOK, DeleteDoomed
  PROVE  /\ rows' \subseteq rows /\ IsFiniteSet(rows')
         /\ \A r \in rows : r \in rows' <=> Key(r) \notin job.doomed
<1>1. rows' \subseteq rows
  BY DEF DeleteDoomed
<1> QED BY <1>1, FS_Subset DEF DeleteDoomed, TypeOK

-----------------------------------------------------------------------------
(* The steps keep the types, with one row to a bucket.                     *)

\* The keys of rows are those of the type.
LEMMA KeyType ==
  ASSUME NEW r \in Snapshot
  PROVE  Key(r) \in BOOLEAN \X Time
BY RowType DEF Key

\* Steps that leave the table alone.
LEMMA QuietType ==
  ASSUME TypeOK, InFlight,
         \/ StartFetch \/ FetchFails \/ Tick \/ FinalWhistle \/ CompactSelect \/ PruneSelect
         \/ JobFails \/ (\E k \in Kickoffs : Move(k)) \/ UNCHANGED vars
  PROVE  TypeOK' /\ rows' = rows
<1>1. rows' = rows
  BY DEF StartFetch, FetchFails, Tick, FinalWhistle, CompactSelect, PruneSelect, JobFails, Move, vars
<1>2. \A set \in SUBSET rows : {Key(r) : r \in set} \in SUBSET (BOOLEAN \X Time)
  BY KeyType DEF TypeOK
<1>3. job' \in Run
  <2>1. CASE job' = job
    BY <2>1 DEF TypeOK
  <2>2. CASE CompactSelect
    <3>1. Doomed(rows, kickoff) \subseteq rows
      BY DEF Doomed, Hkjc, RawRows
    <3>2. kickoff \in Kickoffs /\ clock \in Time
      BY DEF TypeOK
    <3> DEFINE D == IF kickoff < clock - Age THEN {Key(r) : r \in Doomed(rows, kickoff)} ELSE {}
    <3>3. D \in SUBSET (BOOLEAN \X Time)
      BY <1>2, <3>1
    <3>4. job' = [pc |-> "compact", asOf |-> kickoff, since |-> clock, compacted |-> FALSE, doomed |-> D]
      BY <2>2 DEF CompactSelect
    <3> HIDE DEF D
    <3> QED BY <3>2, <3>3, <3>4 DEF Run
  <2>3. CASE PruneSelect
    <3>1. Prunable \subseteq rows
      BY DEF Prunable, RawRows
    <3> QED BY <1>2, <2>3, <3>1 DEF PruneSelect, Run, TypeOK
  <2>4. CASE JobFails
    <3>1. JobIdle \in Run
      BY OddsStoreAssumption DEF JobIdle, Run, Time
    <3> QED BY <2>4, <3>1 DEF JobFails, Run, TypeOK
  <2> QED BY <2>1, <2>2, <2>3, <2>4
       DEF StartFetch, FetchFails, Tick, FinalWhistle, Move, vars
<1>4. /\ clock' \in Time /\ kickoff' \in Kickoffs /\ finished' \in BOOLEAN
      /\ fetch' \in Time \cup {None} /\ stores' \in 0 .. MaxStores
      /\ moves' \in 0 .. MaxMoves /\ failures' \in 0 .. MaxFailures
  <2> DEFINE Goal == /\ clock' \in Time /\ kickoff' \in Kickoffs /\ finished' \in BOOLEAN
                     /\ fetch' \in Time \cup {None} /\ stores' \in 0 .. MaxStores
                     /\ moves' \in 0 .. MaxMoves /\ failures' \in 0 .. MaxFailures
  <2>1. ASSUME StartFetch PROVE Goal
    BY <2>1 DEF TypeOK, StartFetch
  <2>2. ASSUME FetchFails \/ JobFails PROVE Goal
    BY <2>2, OddsStoreAssumption DEF TypeOK, FetchFails, JobFails
  <2>3. ASSUME Tick PROVE Goal
    <3>1. clock \in 0 .. MaxTime /\ MaxTime \in Nat /\ clock < MaxTime
      BY <2>3, OddsStoreAssumption DEF TypeOK, Time, Tick
    <3>2. clock + 1 \in Time
      BY <3>1 DEF Time
    <3> QED BY <2>3, <3>2 DEF TypeOK, Tick
  <2>4. ASSUME FinalWhistle PROVE Goal
    BY <2>4 DEF TypeOK, FinalWhistle
  <2>5. ASSUME CompactSelect \/ PruneSelect \/ UNCHANGED vars PROVE Goal
    BY <2>5 DEF TypeOK, CompactSelect, PruneSelect, vars
  <2>6. ASSUME NEW k \in Kickoffs, Move(k) PROVE Goal
    BY <2>6, OddsStoreAssumption DEF TypeOK, Move
  <2> QED BY <2>1, <2>2, <2>3, <2>4, <2>5, <2>6
<1> QED BY <1>1, <1>3, <1>4 DEF TypeOK

\* Every step keeps the types.
LEMMA TypeStep ==
  ASSUME TypeOK, InFlight, [Next]_vars
  PROVE  TypeOK'
<1>1. CASE \E f \in Inplays : StoreOdds(f)
  <2>1. PICK f \in Inplays : StoreOdds(f)
    BY <1>1
  <2>2. f \in BOOLEAN /\ stores < MaxStores
    BY <2>1, OddsStoreAssumption DEF StoreOdds, InFlight
  <2>3. rows' \subseteq Snapshot /\ IsFiniteSet(rows') /\ \A r, s \in rows' : Key(r) = Key(s) => r = s
    BY <2>1, <2>2, UpsertDoes DEF StoreOdds
  <2> QED BY <2>1, <2>2, <2>3, OddsStoreAssumption DEF StoreOdds, TypeOK
<1>2. CASE Backfill
  BY <1>2, BackfillDoes DEF Backfill, TypeOK
<1>3. CASE CompactDelete \/ PruneDelete
  <2>1. DeleteDoomed
    BY <1>3 DEF CompactDelete, PruneDelete
  <2>2. rows' \subseteq Snapshot /\ IsFiniteSet(rows') /\ \A r, s \in rows' : Key(r) = Key(s) => r = s
    BY <2>1, DeleteDoes DEF TypeOK
  <2>3. job' \in Run
    <3>1. JobIdle \in Run
      BY OddsStoreAssumption DEF JobIdle, Run, Time
    <3> QED BY <1>3, <3>1 DEF CompactDelete, PruneDelete, Run, TypeOK
  <2> QED BY <1>3, <2>2, <2>3 DEF CompactDelete, PruneDelete, TypeOK
<1>4. CASE ~(\E f \in Inplays : StoreOdds(f)) /\ ~Backfill /\ ~CompactDelete /\ ~PruneDelete
  BY <1>4, QuietType DEF Next, Job
<1> QED BY <1>1, <1>2, <1>3, <1>4

-----------------------------------------------------------------------------
(* The steps keep what is said of the rows and of what is in flight.       *)

\* What is captured of the market, and that is all: only a sync captures.
LEMMA CapturesRemain ==
  ASSUME TypeOK, TypeOK', [Next]_vars, \A f \in Inplays : ~StoreOdds(f)
  PROVE  \A r \in Hkjc(rows') : \E o \in Hkjc(rows) :
           r.captured = o.captured /\ r.bucket = o.bucket /\ r.inplay = o.inplay
<1>1. CASE Backfill
  BY <1>1, BackfillDoes DEF Hkjc, Key
<1>2. CASE DeleteDoomed
  BY <1>2, DeleteDoes DEF Hkjc
<1>3. CASE rows' = rows
  BY <1>3
<1> QED BY <1>1, <1>2, <1>3
     DEF Next, Job, StartFetch, FetchFails, Tick, FinalWhistle, CompactSelect, PruneSelect,
         CompactDelete, PruneDelete, JobFails, Move, vars

\* Every step stamps rows in their bucket.
LEMMA StampedStep ==
  ASSUME TypeOK, TypeOK', RowsAreStamped, InFlight, [Next]_vars
  PROVE  RowsAreStamped'
<1> SUFFICES ASSUME NEW r \in rows'
    PROVE  /\ r.bucket <= r.captured /\ r.captured < r.bucket + Width /\ r.captured <= clock'
           /\ r.source = "hkjc" =>
                /\ r.bucket = Bucket(r.captured)
                /\ IF r.answered = None THEN finished' /\ r.bucket = kickoff'
                   ELSE r.answered <= r.captured + MaxFlight
  BY DEF RowsAreStamped
<1> DEFINE Stamped(q) ==
             /\ q.bucket <= q.captured /\ q.captured < q.bucket + Width /\ q.captured <= clock
             /\ q.source = "hkjc" =>
                  /\ q.bucket = Bucket(q.captured)
                  /\ IF q.answered = None THEN finished /\ q.bucket = kickoff
                     ELSE q.answered <= q.captured + MaxFlight
<1>1. \A q \in rows : Stamped(q)
  BY DEF RowsAreStamped
<1>2. r \in Snapshot /\ r.captured \in Nat /\ r.bucket \in Nat
  BY RowType DEF TypeOK
<1>3. clock \in Nat /\ clock' \in Nat /\ MaxFlight \in Nat /\ Width \in Nat \ {0} /\ None \notin Time
  BY OddsStoreAssumption DEF TypeOK, Time
<1>4. CASE r \in rows /\ clock' >= clock /\ ((finished /\ kickoff' = kickoff) => finished')
           /\ (finished => kickoff' = kickoff)
  BY <1>1, <1>2, <1>3, <1>4
<1>5. CASE \E f \in Inplays : StoreOdds(f)
  <2>1. PICK f \in Inplays : StoreOdds(f)
    BY <1>5
  <2>2. f \in BOOLEAN /\ fetch \in Time /\ fetch # None
    BY <2>1, OddsStoreAssumption DEF StoreOdds, TypeOK
  <2>3. \/ r \in rows
        \/ r.captured = fetch /\ r.answered = clock /\ r.bucket = Bucket(fetch)
    BY <2>1, <2>2, UpsertDoes DEF StoreOdds
  <2>4. CASE r \in rows
    BY <1>4, <2>1, <2>4, <1>3 DEF StoreOdds
  <2>5. CASE r.captured = fetch /\ r.answered = clock /\ r.bucket = Bucket(fetch)
    <3>1. fetch <= clock /\ clock <= fetch + MaxFlight /\ clock # None
      BY <2>2, <1>3 DEF InFlight, TypeOK
    <3>2. clock' = clock
      BY <2>1 DEF StoreOdds
    <3> QED BY <2>2, <2>5, <3>1, <3>2, BucketIs
  <2> QED BY <2>3, <2>4, <2>5
<1>6. CASE Backfill
  <2>1. finished /\ clock' = clock /\ kickoff' = kickoff /\ finished' = finished
    BY <1>6 DEF Backfill
  <2>2. kickoff < clock /\ kickoff \in Nat
    BY <2>1, OddsStoreAssumption DEF InFlight, TypeOK, Time
  <2>3. CASE r \in rows
    BY <1>4, <1>3, <2>1, <2>3
  <2>4. CASE r \notin rows
    <3>1. \/ r.source = "football_data" /\ r.captured = kickoff /\ r.bucket = kickoff
          \/ \E o \in rows : /\ r.captured = o.captured /\ r.source = o.source
                             /\ r.bucket = o.bucket /\ r.bucket = kickoff /\ r.answered = None
      BY <1>6, <2>4, BackfillDoes
    <3> QED BY <1>1, <1>2, <1>3, <2>1, <2>2, <3>1
  <2> QED BY <2>3, <2>4
<1>7. CASE ~(\E f \in Inplays : StoreOdds(f)) /\ ~Backfill
  <2>1. r \in rows
    <3>1. CASE DeleteDoomed
      BY <3>1 DEF DeleteDoomed
    <3>2. CASE rows' = rows
      BY <3>2
    <3> QED BY <1>7, <3>1, <3>2
         DEF Next, Job, StartFetch, FetchFails, Tick, FinalWhistle, CompactSelect, PruneSelect,
             CompactDelete, PruneDelete, JobFails, Move, vars
  <2>2. clock' >= clock /\ (finished => finished' /\ kickoff' = kickoff)
    BY <1>3, <1>7
       DEF Next, Job, StartFetch, FetchFails, Tick, FinalWhistle, CompactSelect, PruneSelect,
           CompactDelete, PruneDelete, JobFails, Move, vars
  <2> QED BY <1>4, <2>1, <2>2
<1> QED BY <1>5, <1>6, <1>7

\* Every step keeps what is in flight recent.
LEMMA FlightStep ==
  ASSUME TypeOK, TypeOK', RowsAreStamped, InFlight, [Next]_vars
  PROVE  InFlight'
<1>1. /\ clock \in Nat /\ clock' \in Nat /\ MaxFlight \in Nat /\ MaxLate \in Nat /\ None \notin Time
      /\ kickoff \in Nat /\ Kickoffs \subseteq Nat /\ job.since \in Nat
      /\ fetch \in Nat \cup {None} /\ fetch' \in Nat \cup {None} /\ None \notin 0 .. MaxTime
  BY OddsStoreAssumption DEF TypeOK, Time, Run
<1>2. \A r \in Hkjc(rows) : r.captured \in Nat /\ r.captured <= clock
  BY RowType DEF Hkjc, RowsAreStamped, TypeOK
<1>3. ASSUME fetch' # None
      PROVE  /\ stores' < MaxStores /\ fetch' <= clock' /\ clock' <= fetch' + MaxFlight
             /\ \A r \in Hkjc(rows') : r.captured < fetch'
             /\ \E k \in Kickoffs : fetch' <= k + MaxLate
  <2>0. \A f \in Inplays : ~StoreOdds(f)
    BY <1>3 DEF StoreOdds
  <2>1. CASE StartFetch
    <3>1. \A r \in Hkjc(rows) : r.captured < clock
      BY <1>1, <1>2, <2>1 DEF StartFetch, Hkjc
    <3> QED BY <1>1, <2>1, <3>1 DEF StartFetch, Quoted, InFlight
  <2>2. CASE fetch' = fetch /\ stores' = stores
    <3>1. \A r \in Hkjc(rows') : r.captured < fetch
      BY <1>3, <2>0, <2>2, CapturesRemain DEF InFlight
    <3>2. fetch <= clock' /\ clock' <= fetch + MaxFlight
      <4>1. CASE Tick
        BY <1>1, <1>3, <2>2, <4>1 DEF Tick, InFlight
      <4>2. CASE clock' = clock
        BY <1>3, <2>2, <4>2 DEF InFlight
      <4> QED BY <2>0, <4>1, <4>2
           DEF Next, Job, StartFetch, FetchFails, FinalWhistle, CompactSelect, PruneSelect,
               CompactDelete, PruneDelete, JobFails, Move, Backfill, vars
    <3> QED BY <1>3, <2>2, <3>1, <3>2 DEF InFlight
  <2> QED BY <1>3, <2>0, <2>1, <2>2
       DEF Next, Job, FetchFails, Tick, FinalWhistle, CompactSelect, PruneSelect,
           CompactDelete, PruneDelete, JobFails, Move, Backfill, vars
<1>4. job'.since <= clock' /\ (job'.pc # "idle" => clock' <= job'.since + MaxFlight)
  <2>1. CASE CompactSelect
    BY <1>1, <2>1 DEF CompactSelect
  <2>2. CASE Tick
    BY <1>1, <2>2 DEF Tick, InFlight
  <2>3. CASE PruneDelete \/ JobFails \/ CompactDelete \/ PruneSelect
    <3>1. clock' = clock
      BY <2>3 DEF PruneDelete, JobFails, CompactDelete, PruneSelect
    <3>2. job.pc # "idle"
      BY <2>3 DEF PruneDelete, JobFails, CompactDelete, PruneSelect
    <3>3. \/ job' = JobIdle
          \/ job'.since = job.since
      BY <2>3 DEF PruneDelete, JobFails, CompactDelete, PruneSelect, TypeOK, Run
    <3> QED BY <1>1, <3>1, <3>2, <3>3 DEF InFlight, JobIdle
  <2>4. CASE job' = job /\ clock' = clock
    BY <2>4 DEF InFlight
  <2> QED BY <2>1, <2>2, <2>3, <2>4
       DEF Next, Job, StartFetch, FetchFails, FinalWhistle, StoreOdds, Move, Backfill, vars
<1>5. IF finished' THEN kickoff' < clock' ELSE \E k \in Kickoffs : clock' <= k + MaxLate
  <2>1. CASE Tick
    <3>1. CASE finished
      BY <1>1, <2>1, <3>1 DEF Tick, InFlight
    <3>2. CASE ~finished
      BY <1>1, <2>1, <3>2 DEF Tick, TypeOK
    <3> QED BY <3>1, <3>2
  <2>2. CASE FinalWhistle
    BY <2>2 DEF FinalWhistle
  <2>3. CASE \E k \in Kickoffs : Move(k)
    BY <2>3 DEF Move, InFlight
  <2>4. CASE finished' = finished /\ kickoff' = kickoff /\ clock' = clock
    BY <2>4 DEF InFlight
  <2> QED BY <2>1, <2>2, <2>3, <2>4
       DEF Next, Job, StartFetch, FetchFails, CompactSelect, PruneSelect, CompactDelete,
           PruneDelete, JobFails, StoreOdds, Backfill, vars
<1> QED BY <1>3, <1>4, <1>5 DEF InFlight, Hkjc

-----------------------------------------------------------------------------
(* The lead outlasts a fetch.                                              *)

\* The prior was quoted before kickoff.
LEMMA PriorWasQuoted ==
  ASSUME TypeOK, RowsAreStamped
  PROVE  PriorIsPreMatch
<1> SUFFICES ASSUME NEW r \in Prior
    PROVE  r.answered # None /\ r.answered < kickoff
  BY DEF PriorIsPreMatch
<1>1. r \in rows /\ r.source = "hkjc" /\ r.captured < kickoff - Lead
  BY DEF Prior, PriorIn, LatestBefore, Hkjc
<1>2. /\ r.captured \in Nat /\ r.bucket \in Nat /\ kickoff \in Nat /\ Lead \in Nat
      /\ MaxFlight \in Nat /\ MaxFlight <= Lead
      /\ r.answered \in Nat \cup {None}
  BY <1>1, RowType, OddsStoreAssumption DEF TypeOK, Time
<1>3. /\ r.bucket <= r.captured
      /\ IF r.answered = None THEN r.bucket = kickoff ELSE r.answered <= r.captured + MaxFlight
  BY <1>1 DEF RowsAreStamped
<1> QED BY <1>1, <1>2, <1>3

-----------------------------------------------------------------------------
(* Between the two transactions of compaction.                             *)

\* A row that is not an anchor is followed by another one before each cutoff.
LEMMA SelectionSparesTheLast ==
  ASSUME TypeOK, NEW r \in Hkjc(rows), Key(r) \in {Key(q) : q \in Doomed(rows, kickoff)},
         NEW cutoff \in {kickoff - Lead, kickoff}, r.captured < cutoff
  PROVE  \E s \in Hkjc(rows) : r.captured < s.captured /\ s.captured < cutoff
<1>1. PICK q \in Doomed(rows, kickoff) : Key(q) = Key(r)
  OBVIOUS
<1>2. q \in rows /\ r \in rows
  BY DEF Doomed, Hkjc, RawRows
<1>3. q = r
  BY <1>1, <1>2 DEF TypeOK
<1>4. r \notin LatestBefore(Group(Hkjc(rows), r.inplay), cutoff)
  BY <1>1, <1>3 DEF Doomed, Anchors
<1>5. PICK s \in Group(Hkjc(rows), r.inplay) : s.captured < cutoff /\ ~(s.captured <= r.captured)
  BY <1>4 DEF LatestBefore, Group
<1>6. r.captured \in Nat /\ s.captured \in Nat
  BY <1>2, RowType DEF Group, Hkjc, TypeOK
<1> QED BY <1>5, <1>6 DEF Group

\* The times of a run of the job.
LEMMA RunType ==
  ASSUME TypeOK
  PROVE  /\ job.asOf \in Nat /\ job.since \in Nat /\ clock \in Nat /\ kickoff \in Nat
<1>1. job \in Run /\ clock \in Time /\ kickoff \in Kickoffs
  BY DEF TypeOK
<1>2. (\A t \in Time : t \in Nat) /\ (\A k \in Kickoffs : k \in Nat)
  BY OddsStoreAssumption DEF Time
<1>3. job.asOf \in Kickoffs \cup {0} /\ job.since \in Time
  BY <1>1 DEF Run
<1> QED BY <1>1, <1>2, <1>3

\* The run's next phase.
LEMMA RunMovesOn ==
  ASSUME TypeOK, NEW pc
  PROVE  /\ [job EXCEPT !.pc = pc, !.doomed = {}].pc = pc
         /\ \A d : LET next == [job EXCEPT !.pc = pc, !.doomed = d]
                  IN  /\ next.pc = pc /\ next.doomed = d /\ next.asOf = job.asOf
                      /\ next.since = job.since /\ next.compacted = job.compacted
         /\ LET next == [job EXCEPT !.pc = pc, !.doomed = {}, !.compacted = TRUE]
            IN  /\ next.pc = pc /\ next.doomed = {} /\ next.asOf = job.asOf
                /\ next.since = job.since /\ next.compacted = TRUE
<1>1. \A P, D, A, S, C :
        job \in [pc : P, doomed : D, asOf : A, since : S, compacted : C] =>
          /\ [job EXCEPT !.pc = pc, !.doomed = {}].pc = pc
          /\ \A d : LET next == [job EXCEPT !.pc = pc, !.doomed = d]
                   IN  /\ next.pc = pc /\ next.doomed = d /\ next.asOf = job.asOf
                       /\ next.since = job.since /\ next.compacted = job.compacted
          /\ LET next == [job EXCEPT !.pc = pc, !.doomed = {}, !.compacted = TRUE]
             IN  /\ next.pc = pc /\ next.doomed = {} /\ next.asOf = job.asOf
                 /\ next.since = job.since /\ next.compacted = TRUE
  OBVIOUS
<1> QED BY <1>1 DEF TypeOK, Run

\* What the sync stores while a compaction has rows to delete is from long after
\* kickoff, and so is the row it takes over.
LEMMA LateCapture ==
  ASSUME TypeOK, InFlight, DoomedAreFollowed, RowsAreStamped,
         fetch # None, job.pc = "compact", job.doomed # {}
  PROVE  /\ job.asOf < fetch
         /\ \A o \in rows : o.bucket = Bucket(fetch) => job.asOf < o.captured
<1>1. /\ clock \in Nat /\ fetch \in Time /\ fetch \in Nat /\ job.since \in Nat /\ job.asOf \in Nat
      /\ Age \in Nat /\ Width \in Nat /\ MaxFlight \in Nat /\ Width + MaxFlight <= Age
  BY RunType, OddsStoreAssumption DEF TypeOK, Time
<1>2. job.asOf < job.since - Age /\ job.since <= clock /\ clock <= fetch + MaxFlight
  BY DEF DoomedAreFollowed, InFlight
<1>3. job.asOf + Width < fetch
  BY <1>1, <1>2
<1>4. ASSUME NEW o \in rows, o.bucket = Bucket(fetch)
      PROVE  job.asOf < o.captured
  <2>1. fetch < o.bucket + Width /\ o.bucket <= o.captured
    BY <1>1, <1>4, BucketIs DEF RowsAreStamped
  <2>2. o.bucket \in Nat /\ o.captured \in Nat
    BY RowType DEF TypeOK
  <2> QED BY <1>1, <1>3, <2>1, <2>2
<1> QED BY <1>1, <1>3, <1>4

\* A job that is between the transactions of compaction has just begun, or stays.
LEMMA CompactsOrStays ==
  ASSUME TypeOK, [Next]_vars, job'.pc = "compact"
  PROVE  job' = job \/ CompactSelect
<1>1. ~CompactDelete /\ ~PruneSelect /\ ~PruneDelete /\ ~JobFails
  <2>1. ~CompactDelete
    BY RunMovesOn DEF CompactDelete
  <2>2. ~PruneSelect
    BY RunMovesOn DEF PruneSelect
  <2>3. ~PruneDelete
    BY DEF PruneDelete, JobIdle
  <2>4. ~JobFails
    <3>1. SUFFICES ASSUME JobFails PROVE FALSE
      OBVIOUS
    <3>2. job' = JobIdle \/ job' = [job EXCEPT !.pc = "prune", !.doomed = {}]
      BY <3>1 DEF JobFails
    <3>3. JobIdle.pc = "idle" /\ [job EXCEPT !.pc = "prune", !.doomed = {}].pc = "prune"
      BY RunMovesOn DEF JobIdle
    <3> QED BY <3>2, <3>3
  <2> QED BY <2>1, <2>2, <2>3, <2>4
<1> QED BY <1>1 DEF Next, Job, StartFetch, FetchFails, Tick, FinalWhistle, StoreOdds, Backfill, Move, vars

\* Every step keeps the doomed rows followed.
LEMMA FollowedStep ==
  ASSUME TypeOK, TypeOK', RowsAreStamped, InFlight, DoomedAreFollowed, [Next]_vars
  PROVE  DoomedAreFollowed'
<1> SUFFICES ASSUME job'.pc = "compact"
    PROVE  /\ job'.doomed # {} => job'.asOf < job'.since - Age
           /\ \A r \in Hkjc(rows'), cutoff \in {job'.asOf - Lead, job'.asOf} :
                Key(r) \in job'.doomed /\ r.captured < cutoff =>
                  \E s \in Hkjc(rows') : r.captured < s.captured /\ s.captured < cutoff
  BY DEF DoomedAreFollowed, Hkjc
<1>1. CASE CompactSelect
  <2>1. /\ rows' = rows /\ job'.asOf = kickoff /\ job'.since = clock
        /\ job'.doomed = IF kickoff < clock - Age
                         THEN {Key(r) : r \in Doomed(rows, kickoff)} ELSE {}
    BY <1>1 DEF CompactSelect
  <2> QED BY <2>1, SelectionSparesTheLast
<1>2. CASE job' = job
  <2>0. /\ job.doomed # {} => job.asOf < job.since - Age
        /\ \A r \in Hkjc(rows), cutoff \in {job.asOf - Lead, job.asOf} :
             Key(r) \in job.doomed /\ r.captured < cutoff =>
               \E s \in Hkjc(rows) : r.captured < s.captured /\ s.captured < cutoff
    BY <1>2 DEF DoomedAreFollowed
  <2> SUFFICES ASSUME NEW r \in Hkjc(rows'), NEW cutoff \in {job.asOf - Lead, job.asOf},
                      Key(r) \in job.doomed, r.captured < cutoff
      PROVE  \E s \in Hkjc(rows') : r.captured < s.captured /\ s.captured < cutoff
    BY <1>2, <2>0
  <2>1. CASE \E f \in Inplays : StoreOdds(f)
    <3>1. PICK f \in Inplays : StoreOdds(f)
      BY <2>1
    <3>2. f \in BOOLEAN /\ fetch # None /\ rows' = Upsert(rows, f, fetch, clock)
      BY <3>1, OddsStoreAssumption DEF StoreOdds
    <3> DEFINE key == <<f, Bucket(fetch)>>
    <3>3. /\ \A q \in rows : Key(q) # key => q \in rows'
          /\ \A q \in rows' : \/ q \in rows /\ Key(q) # key
                              \/ q.captured = fetch
      BY <3>2, UpsertDoes
    <3>4. job.asOf < fetch /\ \A o \in rows : o.bucket = Bucket(fetch) => job.asOf < o.captured
      BY <1>2, <3>2, LateCapture
    <3>5. job.asOf \in Nat /\ Lead \in Nat /\ fetch \in Nat /\ cutoff \in Int /\ cutoff <= job.asOf
      BY <3>2, RunType, OddsStoreAssumption DEF TypeOK, Time
    <3>6. r \in Hkjc(rows)
      BY <3>3, <3>4, <3>5 DEF Hkjc
    <3>7. PICK s \in Hkjc(rows) : r.captured < s.captured /\ s.captured < cutoff
      BY <2>0, <3>6
    <3>8. s \in rows /\ s.captured \in Nat
      BY RowType DEF Hkjc, TypeOK
    <3>9. s.bucket # Bucket(fetch)
      BY <3>4, <3>5, <3>7, <3>8
    <3>10. s \in rows'
      BY <3>3, <3>8, <3>9 DEF Key
    <3> QED BY <3>7, <3>10 DEF Hkjc
  <2>2. CASE Backfill
    <3>1. \A q \in Hkjc(rows') : \E o \in Hkjc(rows) : q.captured = o.captured /\ Key(q) = Key(o)
      <4>1. ASSUME NEW new \in Snapshot, rows' = rows \cup {new}, new.source = "football_data"
            PROVE  \A q \in Hkjc(rows') : \E o \in Hkjc(rows) : q.captured = o.captured /\ Key(q) = Key(o)
        BY <4>1 DEF Hkjc
      <4>2. ASSUME NEW o \in rows, NEW new \in Snapshot, rows' = (rows \ {o}) \cup {new},
                   Key(new) = Key(o), new.captured = o.captured, new.source = o.source
            PROVE  \A q \in Hkjc(rows') : \E p \in Hkjc(rows) : q.captured = p.captured /\ Key(q) = Key(p)
        BY <4>2 DEF Hkjc
      <4> QED BY <2>2, <4>1, <4>2, BackfillDoes
    <3>2. \A o \in Hkjc(rows) : \E q \in Hkjc(rows') : q.captured = o.captured
      BY <2>2, BackfillDoes DEF Hkjc
    <3> QED BY <2>0, <3>1, <3>2
  <2>3. CASE rows' = rows
    BY <2>0, <2>3
  <2>4. ~DeleteDoomed \/ rows' = rows \/ (~CompactDelete /\ ~PruneDelete)
    BY <1>2 DEF CompactDelete, PruneDelete, JobIdle, TypeOK, Run
  <2> QED BY <1>2, <2>1, <2>2, <2>3, <2>4
       DEF Next, Job, StartFetch, FetchFails, Tick, FinalWhistle, CompactSelect, PruneSelect,
           CompactDelete, PruneDelete, JobFails, Move, vars
<1>3. job' = job \/ CompactSelect
  BY CompactsOrStays
<1> QED BY <1>1, <1>2, <1>3

\* A row that is not an anchor has one before it, which is.
LEMMA SelectionSparesTheFirst ==
  ASSUME TypeOK, NEW r \in Hkjc(rows), Key(r) \in {Key(q) : q \in Doomed(rows, kickoff)}
  PROVE  \E e \in Hkjc(rows) : /\ e.inplay = r.inplay /\ e.captured < r.captured
                                /\ Key(e) \notin {Key(q) : q \in Doomed(rows, kickoff)}
<1> DEFINE G == Group(Hkjc(rows), r.inplay)
<1>1. G \subseteq rows /\ rows \subseteq Snapshot /\ r \in G /\ r \in rows
  BY DEF Group, Hkjc, TypeOK
<1>2. \A q \in Doomed(rows, kickoff) :
        /\ q \in rows
        /\ ~(\A s \in Group(Hkjc(rows), q.inplay) : q.captured <= s.captured)
  BY DEF Doomed, Anchors, Hkjc, RawRows, Group
<1>3. \A p, q \in rows : Key(p) = Key(q) => p = q
  BY DEF TypeOK
<1>4. PICK e \in G : \A s \in G : e.captured <= s.captured
  <2>1. G \subseteq Snapshot /\ G # {}
    BY <1>1
  <2> QED BY <2>1, FirstExists
<1>5. e \in Hkjc(rows) /\ e.inplay = r.inplay /\ e \in rows
  BY <1>4 DEF Group, Hkjc
<1>6. Key(e) \notin {Key(q) : q \in Doomed(rows, kickoff)}
  BY <1>2, <1>3, <1>4, <1>5
<1>7. PICK s \in G : ~(r.captured <= s.captured)
  BY <1>1, <1>2, <1>3
<1>8. e.captured \in Nat /\ r.captured \in Nat /\ s.captured \in Nat
  BY <1>1, <1>4, <1>7, RowType
<1>9. e.captured < r.captured
  BY <1>4, <1>7, <1>8
<1> QED BY <1>5, <1>6, <1>9

\* The backfill gives the sync no row, and leaves it those it has, their keys and times.
LEMMA BackfillKeeps ==
  ASSUME TypeOK, Backfill
  PROVE  /\ \A q \in Hkjc(rows') : \E o \in Hkjc(rows) :
              q.captured = o.captured /\ Key(q) = Key(o) /\ q.inplay = o.inplay
         /\ \A o \in Hkjc(rows) : \E q \in Hkjc(rows') :
              q.captured = o.captured /\ Key(q) = Key(o) /\ q.inplay = o.inplay
         /\ \A o \in rows : \E q \in rows' : Key(q) = Key(o)
<1> DEFINE Goal ==
      /\ \A q \in Hkjc(rows') : \E o \in Hkjc(rows) :
           q.captured = o.captured /\ Key(q) = Key(o) /\ q.inplay = o.inplay
      /\ \A o \in Hkjc(rows) : \E q \in Hkjc(rows') :
           q.captured = o.captured /\ Key(q) = Key(o) /\ q.inplay = o.inplay
      /\ \A o \in rows : \E q \in rows' : Key(q) = Key(o)
<1>1. ASSUME NEW new \in Snapshot, rows' = rows \cup {new}, new.source = "football_data"
      PROVE  Goal
  BY <1>1 DEF Hkjc
<1>2. ASSUME NEW o \in rows, NEW new \in Snapshot, rows' = (rows \ {o}) \cup {new},
             Key(new) = Key(o), new.captured = o.captured, new.source = o.source,
             new.inplay = o.inplay
      PROVE  Goal
  BY <1>2 DEF Hkjc
<1> HIDE DEF Goal
<1>3. Goal
  BY <1>1, <1>2, BackfillDoes
<1> QED BY <1>3 DEF Goal

\* The sync cannot take over the row before a doomed one: a third would have to be in
\* their bucket.
LEMMA StorePrecedes ==
  ASSUME TypeOK, TypeOK', RowsAreStamped, InFlight, DoomedArePreceded, job.pc = "compact",
         NEW f \in Inplays, StoreOdds(f)
  PROVE  /\ job.doomed \subseteq {Key(r) : r \in rows'}
         /\ \A r \in Hkjc(rows') : Key(r) \in job.doomed =>
              \E e \in Hkjc(rows') : /\ e.inplay = r.inplay /\ e.captured < r.captured
                                     /\ Key(e) \notin job.doomed
<1> DEFINE key == <<f, Bucket(fetch)>>
<1>1. f \in BOOLEAN /\ fetch # None /\ rows' = Upsert(rows, f, fetch, clock) /\ fetch \in Time
  BY OddsStoreAssumption DEF StoreOdds, TypeOK
<1>2. /\ \A q \in rows : Key(q) # key => q \in rows'
      /\ \A q \in rows : Key(q) = key =>
           \E s \in rows' : Key(s) = key /\ s.captured = fetch /\ s.source = q.source
      /\ \A q \in rows' : \/ q \in rows /\ Key(q) # key
                          \/ Key(q) = key /\ q.captured = fetch /\ q.inplay = f
  BY <1>1, UpsertDoes
<1>3. /\ job.doomed \subseteq {Key(r) : r \in rows}
      /\ \A r \in Hkjc(rows) : Key(r) \in job.doomed =>
           \E e \in Hkjc(rows) : /\ e.inplay = r.inplay /\ e.captured < r.captured
                                 /\ Key(e) \notin job.doomed
  BY DEF DoomedArePreceded
<1>4. \A q \in Hkjc(rows) : /\ q \in rows /\ q.captured \in Time /\ q.captured < fetch
                            /\ q.captured \in Nat
                            /\ q.bucket = Bucket(q.captured) /\ q.bucket <= q.captured
  BY <1>1, RowType DEF InFlight, Hkjc, TypeOK, RowsAreStamped
<1>5. fetch \in Nat
  BY <1>1, OddsStoreAssumption DEF Time
<1>6. job.doomed \subseteq {Key(r) : r \in rows'}
  <2>1. \A q \in rows : \E s \in rows' : Key(s) = Key(q)
    BY <1>2
  <2> QED BY <1>3, <2>1
<1>7. ASSUME NEW r \in Hkjc(rows'), Key(r) \in job.doomed
      PROVE  \E e \in Hkjc(rows') : /\ e.inplay = r.inplay /\ e.captured < r.captured
                                    /\ Key(e) \notin job.doomed
  <2>1. r \in rows' /\ r.source = "hkjc"
    BY DEF Hkjc
  <2>2. CASE r \in rows /\ Key(r) # key
    <3>1. r \in Hkjc(rows)
      BY <2>1, <2>2 DEF Hkjc
    <3>2. PICK e \in Hkjc(rows) : /\ e.inplay = r.inplay /\ e.captured < r.captured
                                  /\ Key(e) \notin job.doomed
      BY <1>3, <1>7, <3>1
    <3>3. Key(e) # key
      <4>1. SUFFICES ASSUME Key(e) = key PROVE FALSE
        OBVIOUS
      <4>2. e.bucket = Bucket(fetch) /\ e.inplay = f
        BY <4>1 DEF Key
      <4>3. Bucket(fetch) <= r.captured /\ r.captured <= fetch
        <5>1. Bucket(fetch) <= e.captured /\ e.captured \in Nat /\ r.captured \in Nat /\ r.captured < fetch
          BY <1>4, <3>1, <4>2
        <5>2. Bucket(fetch) \in Nat
          BY <1>1, BucketIs DEF Time
        <5> QED BY <1>5, <3>2, <5>1, <5>2
      <4>4. r.bucket = Bucket(fetch)
        BY <1>1, <1>4, <3>1, <4>3, SameBucket
      <4> QED BY <2>2, <3>2, <4>2, <4>4 DEF Key
    <3>4. e \in Hkjc(rows')
      BY <1>2, <3>3 DEF Hkjc
    <3> QED BY <3>2, <3>4
  <2>3. CASE Key(r) = key /\ r.captured = fetch /\ r.inplay = f
    <3>1. PICK o \in rows : Key(o) = key
      BY <1>3, <1>7, <2>3
    <3>2. PICK s \in rows' : Key(s) = key /\ s.source = o.source
      BY <1>2, <3>1
    <3>3. s = r
      BY <2>1, <2>3, <3>2 DEF TypeOK
    <3>4. o \in Hkjc(rows) /\ o.inplay = f
      BY <2>1, <3>1, <3>2, <3>3 DEF Hkjc, Key
    <3>5. PICK e \in Hkjc(rows) : /\ e.inplay = o.inplay /\ e.captured < o.captured
                                  /\ Key(e) \notin job.doomed
      BY <1>3, <1>7, <2>3, <3>1, <3>4
    <3>6. e \in Hkjc(rows')
      BY <1>2, <1>7, <2>3, <3>5 DEF Hkjc
    <3>7. e.captured < r.captured
      BY <1>4, <1>5, <2>3, <3>4, <3>5
    <3> QED BY <2>3, <3>4, <3>5, <3>6, <3>7
  <2> QED BY <1>2, <2>1, <2>2, <2>3
<1> QED BY <1>6, <1>7

\* Every step keeps the doomed rows preceded.
LEMMA PrecededStep ==
  ASSUME TypeOK, TypeOK', RowsAreStamped, InFlight, DoomedArePreceded, [Next]_vars
  PROVE  DoomedArePreceded'
<1> SUFFICES ASSUME job'.pc = "compact"
    PROVE  /\ job'.doomed \subseteq {Key(r) : r \in rows'}
           /\ \A r \in Hkjc(rows') : Key(r) \in job'.doomed =>
                \E e \in Hkjc(rows') : /\ e.inplay = r.inplay /\ e.captured < r.captured
                                       /\ Key(e) \notin job'.doomed
  BY DEF DoomedArePreceded, Hkjc, Key
<1>1. CASE CompactSelect
  <2>1. /\ rows' = rows
        /\ job'.doomed = IF kickoff < clock - Age
                         THEN {Key(r) : r \in Doomed(rows, kickoff)} ELSE {}
    BY <1>1 DEF CompactSelect
  <2>2. Doomed(rows, kickoff) \subseteq rows
    BY DEF Doomed, Hkjc, RawRows
  <2> QED BY <2>1, <2>2, SelectionSparesTheFirst
<1>2. CASE job' = job
  <2>0. /\ job.doomed \subseteq {Key(r) : r \in rows}
        /\ \A r \in Hkjc(rows) : Key(r) \in job.doomed =>
             \E e \in Hkjc(rows) : /\ e.inplay = r.inplay /\ e.captured < r.captured
                                   /\ Key(e) \notin job.doomed
    BY <1>2 DEF DoomedArePreceded
  <2>1. CASE \E f \in Inplays : StoreOdds(f)
    BY <1>2, <2>1, StorePrecedes
  <2>2. CASE Backfill
    <3>1. job'.doomed \subseteq {Key(r) : r \in rows'}
      BY <1>2, <2>0, <2>2, BackfillKeeps
    <3>2. ASSUME NEW r \in Hkjc(rows'), Key(r) \in job.doomed
          PROVE  \E e \in Hkjc(rows') : /\ e.inplay = r.inplay /\ e.captured < r.captured
                                        /\ Key(e) \notin job.doomed
      <4>1. PICK o \in Hkjc(rows) :
              r.captured = o.captured /\ Key(r) = Key(o) /\ r.inplay = o.inplay
        BY <2>2, BackfillKeeps
      <4>2. PICK d \in Hkjc(rows) : /\ d.inplay = o.inplay /\ d.captured < o.captured
                                    /\ Key(d) \notin job.doomed
        BY <2>0, <3>2, <4>1
      <4>3. PICK e \in Hkjc(rows') :
              e.captured = d.captured /\ Key(e) = Key(d) /\ e.inplay = d.inplay
        BY <2>2, BackfillKeeps
      <4> QED BY <4>1, <4>2, <4>3
    <3> QED BY <1>2, <3>1, <3>2
  <2>3. CASE rows' = rows
    BY <1>2, <2>0, <2>3
  <2>4. ~CompactDelete /\ ~PruneDelete
    BY <1>2, RunMovesOn DEF CompactDelete, PruneDelete, JobIdle
  <2> QED BY <2>1, <2>2, <2>3, <2>4
       DEF Next, Job, StartFetch, FetchFails, Tick, FinalWhistle, CompactSelect, PruneSelect,
           JobFails, Move, vars
<1>3. job' = job \/ CompactSelect
  BY CompactsOrStays
<1> QED BY <1>1, <1>2, <1>3

-----------------------------------------------------------------------------
(* Between the two transactions of pruning.                                *)

\* A job that is between the transactions of pruning has just begun it, or stays.
LEMMA PrunesOrStays ==
  ASSUME TypeOK, [Next]_vars, job'.pc = "pruning"
  PROVE  job' = job \/ PruneSelect
<1>1. ~CompactSelect /\ ~PruneDelete
  BY DEF CompactSelect, PruneDelete, JobIdle
<1>2. ~CompactDelete
  BY RunMovesOn DEF CompactDelete
<1>3. ~JobFails
  <2>1. SUFFICES ASSUME JobFails PROVE FALSE
    OBVIOUS
  <2>2. job' = JobIdle \/ job' = [job EXCEPT !.pc = "prune", !.doomed = {}]
    BY <2>1 DEF JobFails
  <2>3. JobIdle.pc = "idle" /\ [job EXCEPT !.pc = "prune", !.doomed = {}].pc = "prune"
    BY RunMovesOn DEF JobIdle
  <2> QED BY <2>2, <2>3
<1> QED BY <1>1, <1>2, <1>3
     DEF Next, Job, StartFetch, FetchFails, Tick, FinalWhistle, StoreOdds, Backfill, Move, vars

\* Every step keeps what is to be pruned past the retention: the sync stores in buckets
\* that are younger.
LEMMA ExpiredStep ==
  ASSUME TypeOK, TypeOK', RowsAreStamped, InFlight, DoomedAreExpired, [Next]_vars
  PROVE  DoomedAreExpired'
<1> SUFFICES ASSUME job'.pc = "pruning"
    PROVE  /\ \A key \in job'.doomed : key[2] < clock' - Retention
           /\ \A r \in Hkjc(rows') : Key(r) \in job'.doomed => r.captured < clock' - Retention
  BY DEF DoomedAreExpired, Hkjc, Key
<1>0. clock \in Nat /\ clock' \in Nat /\ Retention \in Nat
  BY OddsStoreAssumption DEF TypeOK, Time
<1>1. CASE PruneSelect
  <2>1. rows' = rows /\ clock' = clock /\ job'.doomed = {Key(r) : r \in Prunable}
    BY <1>1, RunMovesOn DEF PruneSelect
  <2>2. \A q \in Prunable : /\ q \in rows /\ q.captured < clock - Retention
                            /\ q.captured \in Nat /\ q.bucket \in Nat /\ q.bucket <= q.captured
    BY RowType DEF Prunable, RawRows, TypeOK, RowsAreStamped
  <2>3. \A q \in Prunable : Key(q)[2] < clock - Retention
    BY <1>0, <2>2 DEF Key
  <2>4. \A r \in Hkjc(rows), q \in Prunable : Key(r) = Key(q) => r.captured < clock - Retention
    BY <2>2 DEF Hkjc, TypeOK
  <2> QED BY <2>1, <2>3, <2>4
<1>2. CASE job' = job
  <2>0. /\ \A key \in job.doomed : key[2] < clock - Retention
        /\ \A r \in Hkjc(rows) : Key(r) \in job.doomed => r.captured < clock - Retention
    BY <1>2 DEF DoomedAreExpired
  <2>1. job.doomed \subseteq BOOLEAN \X Time
    BY DEF TypeOK, Run
  <2>2. CASE \E f \in Inplays : StoreOdds(f)
    <3>1. PICK f \in Inplays : StoreOdds(f)
      BY <2>2
    <3> DEFINE key == <<f, Bucket(fetch)>>
    <3>2. /\ f \in BOOLEAN /\ fetch # None /\ fetch \in Time /\ clock' = clock
          /\ rows' = Upsert(rows, f, fetch, clock)
      BY <3>1, OddsStoreAssumption DEF StoreOdds, TypeOK
    <3>3. \A q \in rows' : q \in rows \/ Key(q) = key
      BY <3>2, UpsertDoes
    <3>4. ~(Bucket(fetch) < clock - Retention)
      <4>1. kickoff \in Kickoffs /\ kickoff \in Nat
        BY RunType DEF TypeOK
      <4>2. kickoff + MaxLate + Age + 2 * MaxFlight <= Retention /\ Width + MaxFlight <= Age
        BY <4>1, OddsStoreAssumption
      <4>3. /\ fetch \in Nat /\ Bucket(fetch) \in Nat /\ Width \in Nat /\ Age \in Nat
            /\ MaxFlight \in Nat /\ MaxLate \in Nat /\ fetch < Bucket(fetch) + Width
        BY <3>2, BucketIs, OddsStoreAssumption DEF Time
      <4>4. clock <= fetch + MaxFlight
        BY <3>2 DEF InFlight
      <4> QED BY <1>0, <4>1, <4>2, <4>3, <4>4
    <3>5. key \notin job.doomed
      BY <2>0, <3>4
    <3>6. \A q \in Hkjc(rows') : Key(q) \in job.doomed => q \in Hkjc(rows)
      BY <3>3, <3>5 DEF Hkjc
    <3> QED BY <1>2, <2>0, <3>2, <3>6
  <2>3. CASE Backfill
    <3>1. clock' = clock
      BY <2>3 DEF Backfill
    <3> QED BY <1>2, <2>0, <2>3, <3>1, BackfillKeeps
  <2>4. CASE rows' = rows /\ clock' >= clock
    <3>1. \A key \in job.doomed : key[2] \in Nat
      BY <2>1, OddsStoreAssumption DEF Time
    <3>2. \A r \in Hkjc(rows) : r.captured \in Nat
      BY RowType DEF Hkjc, TypeOK
    <3>3. \A n \in Nat : n < clock - Retention => n < clock' - Retention
      <4>1. \A n, c, d, k \in Nat : d >= c /\ n < c - k => n < d - k
        OBVIOUS
      <4> QED BY <1>0, <2>4, <4>1
    <3> QED BY <1>2, <2>0, <2>4, <3>1, <3>2, <3>3
  <2>5. ~CompactDelete /\ ~PruneDelete
    BY <1>2, RunMovesOn DEF CompactDelete, PruneDelete, JobIdle
  <2>6. clock' >= clock
    <3>1. CASE Tick
      BY <1>0, <3>1 DEF Tick
    <3>2. CASE clock' = clock
      BY <1>0, <3>2
    <3> QED BY <3>1, <3>2
         DEF Next, Job, StartFetch, FetchFails, FinalWhistle, StoreOdds, Backfill, CompactSelect,
             CompactDelete, PruneSelect, PruneDelete, JobFails, Move, vars
  <2> QED BY <2>2, <2>3, <2>4, <2>5, <2>6
       DEF Next, Job, StartFetch, FetchFails, Tick, FinalWhistle, CompactSelect, PruneSelect,
           JobFails, Move, vars
<1>3. job' = job \/ PruneSelect
  BY PrunesOrStays
<1> QED BY <1>1, <1>2, <1>3

-----------------------------------------------------------------------------
(* What compaction leaves is too little to prune.                          *)

\* Three sets of at most one element count at most three.
LEMMA AtMostThree ==
  ASSUME NEW A, NEW B, NEW C, \A x, y \in A : x = y, \A x, y \in B : x = y, \A x, y \in C : x = y
  PROVE  IsFiniteSet(A \cup B \cup C) /\ Cardinality(A \cup B \cup C) <= 3
<1>1. PICK a, b, c : A \subseteq {a} /\ B \subseteq {b} /\ C \subseteq {c}
  <2>1. ASSUME NEW S, \A x, y \in S : x = y
        PROVE  \E e : S \subseteq {e}
    <3>1. CASE S = {}
      BY <3>1
    <3>2. CASE S # {}
      <4>1. PICK e : e \in S
        BY <3>2
      <4>2. S \subseteq {e}
        BY <2>1, <4>1
      <4> QED BY <4>2
    <3> QED BY <3>1, <3>2
  <2> QED BY <2>1
<1>2. IsFiniteSet({a}) /\ Cardinality({a}) = 1
  BY FS_Singleton
<1>3. IsFiniteSet({a} \cup {b}) /\ Cardinality({a} \cup {b}) <= 2
  BY <1>2, FS_AddElement
<1>4. Cardinality({a} \cup {b}) \in Nat
  BY <1>3, FS_CardinalityType
<1> DEFINE S == ({a} \cup {b}) \cup {c}
<1>5. IsFiniteSet(S) /\ Cardinality(S) <= 3
  BY <1>3, <1>4, FS_AddElement
<1>6. A \cup B \cup C \in SUBSET S
  BY <1>1
<1>7. Cardinality(S) \in Nat
  BY <1>5, FS_CardinalityType
<1> HIDE DEF S
<1>8. IsFiniteSet(A \cup B \cup C) /\ Cardinality(A \cup B \cup C) <= Cardinality(S)
  BY <1>5, <1>6, FS_Subset
<1>9. Cardinality(A \cup B \cup C) \in Nat
  BY <1>8, FS_CardinalityType
<1> QED BY <1>5, <1>7, <1>8, <1>9

\* Two rows of the sync for one in-play flag are told apart by when they were captured.
LEMMA CapturesDiffer ==
  ASSUME TypeOK, RowsAreStamped, NEW f \in BOOLEAN,
         NEW r \in Group(Hkjc(rows), f), NEW s \in Group(Hkjc(rows), f), r.captured = s.captured
  PROVE  r = s
<1>1. /\ r \in rows /\ s \in rows /\ r.inplay = s.inplay
      /\ r.bucket = Bucket(r.captured) /\ s.bucket = Bucket(s.captured)
  BY DEF Group, Hkjc, RowsAreStamped
<1> QED BY <1>1 DEF TypeOK, Key

\* The anchors of an in-play flag are three rows at most.
LEMMA AnchorsAreFew ==
  ASSUME TypeOK, RowsAreStamped, NEW f \in BOOLEAN, NEW ko
  PROVE  LET anchors == Anchors(Group(Hkjc(rows), f), ko)
         IN  IsFiniteSet(anchors) /\ Cardinality(anchors) <= 3
<1> DEFINE G == Group(Hkjc(rows), f)
           Entry == {r \in G : \A s \in G : r.captured <= s.captured}
<1>1. \A r \in G : r.captured \in Nat
  BY RowType DEF TypeOK, Group, Hkjc
<1>2. \A r, s \in G : r.captured = s.captured => r = s
  BY CapturesDiffer
<1> HIDE DEF G
<1>3. \A r, s \in Entry : r = s
  BY <1>1, <1>2
<1>4. \A cutoff : \A r, s \in LatestBefore(G, cutoff) : r = s
  BY <1>1, <1>2 DEF LatestBefore
<1>5. Anchors(G, ko) = Entry \cup LatestBefore(G, ko - Lead) \cup LatestBefore(G, ko)
  BY DEF Anchors
<1> HIDE DEF Entry
<1>6. IsFiniteSet(Anchors(G, ko)) /\ Cardinality(Anchors(G, ko)) <= 3
  BY <1>3, <1>4, <1>5, AtMostThree
<1> QED BY <1>6 DEF G

\* What the selection spares of an in-play flag.
LEMMA SelectionSparesFew ==
  ASSUME TypeOK, RowsAreStamped, NEW f \in BOOLEAN
  PROVE  LET spared == {r \in Group(Hkjc(rows), f) :
                          Key(r) \notin {Key(q) : q \in Doomed(rows, kickoff)}}
         IN  Cardinality(spared) <= Keep
<1> DEFINE spared == {r \in Group(Hkjc(rows), f) :
                        Key(r) \notin {Key(q) : q \in Doomed(rows, kickoff)}}
           anchors == Anchors(Group(Hkjc(rows), f), kickoff)
<1>0. Keep \in Nat /\ Keep >= 3
  BY OddsStoreAssumption
<1>1. CASE Cardinality(Group(rows, f)) <= Keep
  <2>1. IsFiniteSet(Group(rows, f))
    BY FS_Subset DEF TypeOK, Group
  <2>2. spared \in SUBSET Group(rows, f)
    BY DEF Group, Hkjc
  <2> HIDE DEF spared
  <2>3. IsFiniteSet(spared) /\ Cardinality(spared) <= Cardinality(Group(rows, f))
    BY <2>1, <2>2, FS_Subset
  <2>4. Cardinality(spared) \in Nat /\ Cardinality(Group(rows, f)) \in Nat
    BY <2>1, <2>3, FS_CardinalityType
  <2>5. Cardinality(spared) <= Keep
    BY <1>0, <1>1, <2>3, <2>4
  <2> QED BY <2>5 DEF spared
<1>2. CASE ~(Cardinality(Group(rows, f)) <= Keep)
  <2>1. Cardinality(Group(rows, f)) > Keep
    <3>1. IsFiniteSet(Group(rows, f))
      BY FS_Subset DEF TypeOK, Group
    <3>2. Cardinality(Group(rows, f)) \in Nat
      BY <3>1, FS_CardinalityType
    <3> QED BY <1>0, <1>2, <3>2
  <2>2. spared \in SUBSET anchors
    <3>1. SUFFICES ASSUME NEW r \in spared PROVE r \in anchors
      OBVIOUS
    <3>2. r \in rows /\ r.source = "hkjc" /\ r.inplay = f
      BY DEF Group, Hkjc
    <3>3. r \in Hkjc(RawRows(rows))
      BY <2>1, <3>2 DEF Hkjc, RawRows
    <3>4. r \notin Doomed(rows, kickoff)
      OBVIOUS
    <3> QED BY <3>2, <3>3, <3>4 DEF Doomed
  <2>3. IsFiniteSet(anchors) /\ Cardinality(anchors) <= 3
    BY AnchorsAreFew
  <2> HIDE DEF spared, anchors
  <2>4. IsFiniteSet(spared) /\ Cardinality(spared) <= Cardinality(anchors)
    BY <2>2, <2>3, FS_Subset
  <2>5. Cardinality(spared) \in Nat /\ Cardinality(anchors) \in Nat
    BY <2>3, <2>4, FS_CardinalityType
  <2>6. Cardinality(spared) <= Keep
    BY <1>0, <2>3, <2>4, <2>5
  <2> QED BY <2>6 DEF spared
<1> QED BY <1>1, <1>2

\* The backfill adds no row of the sync.
LEMMA BackfillCounts ==
  ASSUME TypeOK, Backfill, NEW f \in BOOLEAN, NEW D, NEW n \in Nat,
         Cardinality({r \in Group(Hkjc(rows), f) : Key(r) \notin D}) <= n
  PROVE  Cardinality({r \in Group(Hkjc(rows'), f) : Key(r) \notin D}) <= n
<1> DEFINE Before == {r \in Group(Hkjc(rows), f) : Key(r) \notin D}
           After  == {r \in Group(Hkjc(rows'), f) : Key(r) \notin D}
<1>0. IsFiniteSet(Before)
  <2>1. Before \in SUBSET rows
    BY DEF Group, Hkjc
  <2> HIDE DEF Before
  <2> QED BY <2>1, FS_Subset DEF TypeOK
<1>1. ASSUME NEW new \in Snapshot, rows' = rows \cup {new}, new.source = "football_data"
      PROVE  After = Before
  BY <1>1 DEF Group, Hkjc
<1>2. ASSUME NEW o \in rows, NEW new \in Snapshot, rows' = (rows \ {o}) \cup {new},
             Key(new) = Key(o), new.source = o.source, new.inplay = o.inplay
      PROVE  \/ o \in Before /\ After = (Before \ {o}) \cup {new}
             \/ After = Before
  <2>1. CASE o \in Before
    BY <1>2, <2>1 DEF Group, Hkjc
  <2>2. CASE o \notin Before
    BY <1>2, <2>2 DEF Group, Hkjc
  <2> QED BY <2>1, <2>2
<1>3. After = Before \/ \E o \in Before : \E new : After = (Before \ {o}) \cup {new}
  <2> HIDE DEF After, Before
  <2> QED BY <1>1, <1>2, BackfillDoes
<1> SUFFICES ASSUME NEW o \in Before, NEW new, After = (Before \ {o}) \cup {new}
    PROVE  Cardinality(After) <= n
  BY <1>3
<1> HIDE DEF Before, After
<1>4. IsFiniteSet(Before \ {o}) /\ Cardinality(Before \ {o}) = Cardinality(Before) - 1
  BY <1>0, FS_RemoveElement
<1>5. Cardinality(After) <= Cardinality(Before \ {o}) + 1
  BY <1>4, FS_AddElement, FS_CardinalityType
<1>6. Cardinality(Before) \in Nat /\ Cardinality(Before) <= n
  BY <1>0, FS_CardinalityType DEF Before
<1>7. IsFiniteSet(After)
  BY <1>4, FS_AddElement
<1>8. Cardinality(After) \in Nat
  BY <1>7, FS_CardinalityType
<1> QED BY <1>4, <1>5, <1>6, <1>8

\* Nothing is fetched of a match whose compaction runs late.
LEMMA LateRunsAreAlone ==
  ASSUME TypeOK, InFlight, RunIsLate, [Next]_vars
  PROVE  \A f \in Inplays : ~StoreOdds(f)
<1> SUFFICES ASSUME NEW f \in Inplays, StoreOdds(f) PROVE FALSE
  OBVIOUS
<1>1. fetch # None
  BY DEF StoreOdds
<1>2. PICK k \in Kickoffs : fetch <= k + MaxLate
  BY <1>1 DEF InFlight
<1>3. k + MaxLate + Age + MaxFlight < job.since
  BY DEF RunIsLate
<1>4. job.since <= clock /\ clock <= fetch + MaxFlight
  BY <1>1 DEF InFlight
<1>5. /\ k \in Nat /\ fetch \in Nat /\ clock \in Nat /\ job.since \in Nat
      /\ MaxLate \in Nat /\ Age \in Nat /\ MaxFlight \in Nat
  BY <1>1, RunType, OddsStoreAssumption DEF TypeOK, Time
<1> QED BY <1>2, <1>3, <1>4, <1>5

\* What is not the sync's doing counts no more rows of the sync.
LEMMA CountsRemain ==
  ASSUME TypeOK, [Next]_vars, \A f \in Inplays : ~StoreOdds(f), ~CompactDelete, ~PruneDelete,
         NEW f \in BOOLEAN, NEW D, NEW n \in Nat,
         Cardinality({r \in Group(Hkjc(rows), f) : Key(r) \notin D}) <= n
  PROVE  Cardinality({r \in Group(Hkjc(rows'), f) : Key(r) \notin D}) <= n
<1>1. CASE Backfill
  BY <1>1, BackfillCounts
<1>2. CASE rows' = rows
  BY <1>2
<1> QED BY <1>1, <1>2
     DEF Next, Job, StartFetch, FetchFails, Tick, FinalWhistle, CompactSelect, PruneSelect,
         JobFails, Move, vars

\* Every step keeps the pruning idle.
LEMMA PruningStep ==
  ASSUME TypeOK, TypeOK', RowsAreStamped, InFlight, PruningIsIdle, [Next]_vars
  PROVE  PruningIsIdle'
<1>0. Keep \in Nat
  BY OddsStoreAssumption
<1>1. ASSUME job'.pc = "compact", \A k \in Kickoffs : k + MaxLate + Age + MaxFlight < job'.since,
             NEW f \in BOOLEAN
      PROVE  Cardinality({r \in Group(Hkjc(rows'), f) : Key(r) \notin job'.doomed}) <= Keep
  <2>1. CASE CompactSelect
    <3>1. rows' = rows /\ kickoff \in Kickoffs /\ job'.since = clock
      BY <2>1 DEF CompactSelect, TypeOK
    <3>2. kickoff < clock - Age
      <4>1. kickoff + MaxLate + Age + MaxFlight < clock
        BY <1>1, <3>1
      <4>2. kickoff \in Nat /\ clock \in Nat /\ MaxLate \in Nat /\ Age \in Nat /\ MaxFlight \in Nat
        BY RunType, OddsStoreAssumption
      <4> QED BY <4>1, <4>2
    <3>3. job'.doomed = {Key(r) : r \in Doomed(rows, kickoff)}
      BY <2>1, <3>2 DEF CompactSelect
    <3> QED BY <3>1, <3>3, SelectionSparesFew
  <2>2. CASE job' = job
    <3>1. RunIsLate
      BY <1>1, <2>2 DEF RunIsLate
    <3>2. Cardinality({r \in Group(Hkjc(rows), f) : Key(r) \notin job.doomed}) <= Keep
      BY <1>1, <2>2, <3>1 DEF PruningIsIdle, Survivors
    <3>3. ~CompactDelete /\ ~PruneDelete
      BY <1>1, <2>2, RunMovesOn DEF CompactDelete, PruneDelete, JobIdle
    <3> QED BY <1>0, <2>2, <3>1, <3>2, <3>3, LateRunsAreAlone, CountsRemain
  <2> QED BY <1>1, <2>1, <2>2, CompactsOrStays
<1>2. ASSUME job'.compacted, \A k \in Kickoffs : k + MaxLate + Age + MaxFlight < job'.since,
             NEW f \in BOOLEAN
      PROVE  Cardinality(Group(Hkjc(rows'), f)) <= Keep
  <2>1. CASE CompactDelete
    <3>1. job'.since = job.since /\ job.pc = "compact" /\ DeleteDoomed
      BY <2>1, RunMovesOn DEF CompactDelete
    <3>2. Cardinality({r \in Group(Hkjc(rows), f) : Key(r) \notin job.doomed}) <= Keep
      BY <1>2, <3>1 DEF PruningIsIdle, Survivors, RunIsLate
    <3>3. Group(Hkjc(rows'), f) = {r \in Group(Hkjc(rows), f) : Key(r) \notin job.doomed}
      BY <3>1 DEF DeleteDoomed, Group, Hkjc
    <3> QED BY <3>2, <3>3
  <2>2. CASE ~CompactDelete
    <3>1. ~CompactSelect /\ ~PruneDelete
      BY <1>2 DEF CompactSelect, PruneDelete, JobIdle
    <3>2. job'.since = job.since /\ job'.compacted = job.compacted
      <4>1. CASE PruneSelect
        BY <4>1, RunMovesOn DEF PruneSelect
      <4>2. CASE JobFails
        <5>1. \/ job' = JobIdle \/ job' = [job EXCEPT !.pc = "prune", !.doomed = {}]
          BY <4>2 DEF JobFails
        <5>2. job' # JobIdle
          BY <1>2 DEF JobIdle
        <5> DEFINE next == [job EXCEPT !.pc = "prune", !.doomed = {}]
        <5>3. next.since = job.since /\ next.compacted = job.compacted
          BY RunMovesOn
        <5> HIDE DEF next
        <5> QED BY <5>1, <5>2, <5>3 DEF next
      <4>3. CASE job' = job
        BY <4>3
      <4> QED BY <2>2, <3>1, <4>1, <4>2, <4>3
           DEF Next, Job, StartFetch, FetchFails, Tick, FinalWhistle, StoreOdds, Backfill, Move, vars
    <3>3. RunIsLate /\ Cardinality(Group(Hkjc(rows), f)) <= Keep
      BY <1>2, <3>2 DEF RunIsLate, PruningIsIdle
    <3> DEFINE D == {}
    <3>4. \A set : {r \in Group(set, f) : Key(r) \notin D} = Group(set, f)
      OBVIOUS
    <3> HIDE DEF D
    <3>5. Cardinality({r \in Group(Hkjc(rows), f) : Key(r) \notin D}) <= Keep
      BY <3>3, <3>4
    <3>6. \A g \in Inplays : ~StoreOdds(g)
      BY <3>3, LateRunsAreAlone
    <3>7. Cardinality({r \in Group(Hkjc(rows'), f) : Key(r) \notin D}) <= Keep
      BY <1>0, <2>2, <3>1, <3>5, <3>6, CountsRemain
    <3> QED BY <3>4, <3>7
  <2> QED BY <2>1, <2>2
<1>3. ASSUME job'.pc = "pruning", job'.compacted, rows' = Hkjc(rows')
      PROVE  job'.doomed = {}
  <2>1. CASE PruneSelect
    <3>1. job.compacted /\ job.pc = "prune" /\ rows' = rows /\ job'.doomed = {Key(r) : r \in Prunable}
      BY <1>3, <2>1, RunMovesOn DEF PruneSelect
    <3>2. SUFFICES ASSUME NEW r \in Prunable PROVE FALSE
      BY <3>1
    <3>3. r \in rows /\ r.captured < clock - Retention /\ Cardinality(Group(rows, r.inplay)) > Keep
      BY DEF Prunable, RawRows
    <3>4. r.captured \in Nat /\ r.inplay \in BOOLEAN
      BY <3>3, RowType DEF TypeOK
    <3>5. RunIsLate
      <4>1. SUFFICES ASSUME NEW k \in Kickoffs
            PROVE  k + MaxLate + Age + MaxFlight < job.since
        BY DEF RunIsLate
      <4>2. k + MaxLate + Age + 2 * MaxFlight <= Retention /\ clock <= job.since + MaxFlight
        BY <3>1, OddsStoreAssumption DEF InFlight
      <4>3. /\ k \in Nat /\ clock \in Nat /\ job.since \in Nat /\ Retention \in Nat
            /\ MaxLate \in Nat /\ Age \in Nat /\ MaxFlight \in Nat
        BY RunType, OddsStoreAssumption DEF Time
      <4> QED BY <3>3, <3>4, <4>2, <4>3
    <3>6. Cardinality(Group(rows, r.inplay)) <= Keep
      BY <1>3, <3>1, <3>4, <3>5 DEF PruningIsIdle
    <3>7. IsFiniteSet(Group(rows, r.inplay))
      BY FS_Subset DEF TypeOK, Group
    <3>8. Cardinality(Group(rows, r.inplay)) \in Nat
      BY <3>7, FS_CardinalityType
    <3> QED BY <1>0, <3>3, <3>6, <3>8
  <2>2. CASE job' = job
    <3>1. ~CompactDelete /\ ~PruneDelete
      BY <1>3, <2>2, RunMovesOn DEF CompactDelete, PruneDelete, JobIdle
    <3>2. rows = Hkjc(rows)
      <4>1. CASE \E f \in Inplays : StoreOdds(f)
        <5>1. PICK f \in Inplays : StoreOdds(f)
          BY <4>1
        <5>2. f \in BOOLEAN /\ fetch # None /\ rows' = Upsert(rows, f, fetch, clock)
          BY <5>1, OddsStoreAssumption DEF StoreOdds
        <5>3. \A r \in rows : r \in rows' \/ \E s \in rows' : s.source = r.source
          BY <5>2, UpsertDoes
        <5> QED BY <1>3, <5>3 DEF Hkjc
      <4>2. CASE Backfill
        BY <1>3, <4>2, BackfillDoes DEF Hkjc
      <4>3. CASE rows' = rows
        BY <1>3, <4>3
      <4> QED BY <3>1, <4>1, <4>2, <4>3
           DEF Next, Job, StartFetch, FetchFails, Tick, FinalWhistle, CompactSelect, PruneSelect,
               JobFails, Move, vars
    <3> QED BY <1>3, <2>2, <3>2 DEF PruningIsIdle
  <2> QED BY <1>3, <2>1, <2>2, PrunesOrStays
<1> QED BY <1>1, <1>2, <1>3 DEF PruningIsIdle, Survivors, RunIsLate, Hkjc, Group

-----------------------------------------------------------------------------
(* The invariant.                                                          *)

\* An empty table satisfies the invariant.
LEMMA InvInit ==
  ASSUME Init
  PROVE  OddsInv
<1>1. TypeOK
  <2>1. JobIdle \in Run
    BY OddsStoreAssumption DEF JobIdle, Run, Time
  <2>2. 0 \in Time /\ 0 \in 0 .. MaxStores /\ 0 \in 0 .. MaxMoves /\ 0 \in 0 .. MaxFailures
    BY OddsStoreAssumption DEF Time
  <2> QED BY <2>1, <2>2, FS_EmptySet DEF Init, TypeOK
<1>2. RowsAreStamped
  BY DEF Init, RowsAreStamped
<1>3. InFlight
  BY OddsStoreAssumption DEF Init, InFlight, JobIdle, Time
<1>4. DoomedAreFollowed /\ PruningIsIdle /\ DoomedArePreceded /\ DoomedAreExpired
  BY DEF Init, DoomedAreFollowed, PruningIsIdle, DoomedArePreceded, DoomedAreExpired, JobIdle
<1> QED BY <1>1, <1>2, <1>3, <1>4, PriorWasQuoted DEF OddsInv

\* The market prior of a match is odds quoted before its kickoff (fetch_odds,
\* _upsert_snapshots; _latest_hkjc_snapshots), however long the requests took, however
\* the kickoff moved and whatever the job and the backfill did in between.
THEOREM OddsInvariant == Spec => []OddsInv
<1> DEFINE Inner == /\ TypeOK /\ RowsAreStamped /\ InFlight /\ DoomedAreFollowed /\ PruningIsIdle
                    /\ DoomedArePreceded /\ DoomedAreExpired
<1>1. Init => Inner
  BY InvInit DEF OddsInv
<1>2. Inner /\ [Next]_vars => Inner'
  BY TypeStep, StampedStep, FlightStep, FollowedStep, PruningStep, PrecededStep, ExpiredStep
<1>3. Inner => OddsInv
  BY PriorWasQuoted DEF OddsInv
<1> QED BY <1>1, <1>2, <1>3, PTL DEF Spec

-----------------------------------------------------------------------------
(* The readers' rows.                                                      *)

\* What is not captured before the cutoff does not matter.
LEMMA LatestIsLocal ==
  ASSUME NEW S, NEW T, NEW cutoff,
         {r \in S : r.captured < cutoff} = {r \in T : r.captured < cutoff}
  PROVE  LatestBefore(S, cutoff) = LatestBefore(T, cutoff)
BY DEF LatestBefore

\* Compaction deletes none of the rows that are last before its cutoffs.
LEMMA CompactionSparesTheLast ==
  ASSUME TypeOK, DoomedAreFollowed, DeleteDoomed, job.pc = "compact",
         NEW cutoff \in {job.asOf - Lead, job.asOf}
  PROVE  LatestBefore(Hkjc(rows'), cutoff) = LatestBefore(Hkjc(rows), cutoff)
<1>1. \A r \in Hkjc(rows) : r.captured \in Nat
  BY RowType DEF TypeOK, Hkjc
<1>2. Hkjc(rows') \subseteq Hkjc(rows)
  BY DEF DeleteDoomed, Hkjc
<1>3. \A r \in LatestBefore(Hkjc(rows), cutoff) : r \in Hkjc(rows')
  <2>1. SUFFICES ASSUME NEW r \in LatestBefore(Hkjc(rows), cutoff) PROVE Key(r) \notin job.doomed
    BY DEF DeleteDoomed, Hkjc, LatestBefore
  <2>2. /\ r \in Hkjc(rows) /\ r.captured < cutoff
        /\ \A s \in Hkjc(rows) : s.captured < cutoff => s.captured <= r.captured
    BY DEF LatestBefore
  <2>3. SUFFICES ASSUME Key(r) \in job.doomed PROVE FALSE
    OBVIOUS
  <2>4. PICK s \in Hkjc(rows) : r.captured < s.captured /\ s.captured < cutoff
    BY <2>2, <2>3 DEF DoomedAreFollowed
  <2> QED BY <1>1, <2>2, <2>4
<1>4. ASSUME NEW r \in LatestBefore(Hkjc(rows'), cutoff)
      PROVE  r \in LatestBefore(Hkjc(rows), cutoff)
  <2>1. /\ r \in Hkjc(rows') /\ r.captured < cutoff
        /\ \A s \in Hkjc(rows') : s.captured < cutoff => s.captured <= r.captured
    BY DEF LatestBefore
  <2>2. cutoff \in Int /\ Hkjc(rows) \subseteq Snapshot
    BY RunType, OddsStoreAssumption DEF TypeOK, Hkjc
  <2>3. PICK s \in LatestBefore(Hkjc(rows), cutoff) : s.captured >= r.captured
    BY <1>2, <2>1, <2>2, LatestExists
  <2>4. /\ s \in Hkjc(rows) /\ s.captured < cutoff
        /\ \A q \in Hkjc(rows) : q.captured < cutoff => q.captured <= s.captured
    BY DEF LatestBefore
  <2>5. s.captured <= r.captured
    BY <1>3, <2>1, <2>4
  <2>6. s.captured = r.captured
    BY <1>1, <1>2, <2>1, <2>3, <2>4, <2>5
  <2> QED BY <1>2, <2>1, <2>4, <2>6 DEF LatestBefore
<1>5. ASSUME NEW r \in LatestBefore(Hkjc(rows), cutoff)
      PROVE  r \in LatestBefore(Hkjc(rows'), cutoff)
  BY <1>2, <1>3 DEF LatestBefore
<1> QED BY <1>4, <1>5

\* A pruning after its compaction deletes nothing.
LEMMA PruningSparesAll ==
  ASSUME OddsInv, PruneDelete, SafeToPrune
  PROVE  rows' = rows
<1>1. job.doomed = {}
  BY DEF OddsInv, PruningIsIdle, PruneDelete, SafeToPrune
<1> QED BY <1>1 DEF PruneDelete, DeleteDoomed

\* compact_odds_snapshots and prune_odds_snapshots keep "the anchors the readers need".
LEMMA DeletionStep ==
  ASSUME OddsInv
  PROVE  /\ (CompactDelete /\ kickoff = job.asOf) => (Prior' = Prior /\ Close' = Close)
         /\ (PruneDelete /\ SafeToPrune) =>
              \A f \in BOOLEAN : Anchors(Group(Hkjc(rows), f), kickoff) \subseteq rows'
<1>1. ASSUME CompactDelete, kickoff = job.asOf
      PROVE  Prior' = Prior /\ Close' = Close
  <2>1. TypeOK /\ DoomedAreFollowed /\ DeleteDoomed /\ job.pc = "compact" /\ kickoff' = kickoff
    BY <1>1 DEF OddsInv, CompactDelete
  <2>2. /\ LatestBefore(Hkjc(rows'), kickoff - Lead) = LatestBefore(Hkjc(rows), kickoff - Lead)
        /\ LatestBefore(Hkjc(rows'), kickoff) = LatestBefore(Hkjc(rows), kickoff)
    BY <1>1, <2>1, CompactionSparesTheLast
  <2> QED BY <2>1, <2>2 DEF Prior, Close, PriorIn, CloseIn
<1>2. ASSUME PruneDelete, SafeToPrune, NEW f \in BOOLEAN
      PROVE  Anchors(Group(Hkjc(rows), f), kickoff) \subseteq rows'
  <2>1. rows' = rows
    BY <1>2, PruningSparesAll
  <2> QED BY <2>1 DEF Anchors, Group, Hkjc, LatestBefore
<1> QED BY <1>1, <1>2

\* The prune takes only what is past the retention.
LEMMA PruningTakesTheExpired ==
  ASSUME OddsInv, PruneDelete
  PROVE  OnlyExpiredGo
<1>1. job.pc = "pruning" /\ DeleteDoomed
  BY DEF PruneDelete
<1>2. ASSUME NEW r \in Prior \cup Close PROVE r \in rows' \/ r.captured < clock - Retention
  <2>1. r \in Hkjc(rows) /\ r \in rows
    BY DEF Prior, Close, PriorIn, CloseIn, LatestBefore, Hkjc
  <2>2. Key(r) \in job.doomed => r.captured < clock - Retention
    BY <1>1, <2>1 DEF OddsInv, DoomedAreExpired
  <2> QED BY <1>1, <2>1, <2>2 DEF DeleteDoomed
<1> QED BY <1>2 DEF OnlyExpiredGo

\* Compaction leaves the readers of every kickoff a row.
LEMMA CompactionLeavesARow ==
  ASSUME OddsInv, CompactDelete
  PROVE  NoKickoffLosesItsRow
<1>1. job.pc = "compact" /\ DeleteDoomed /\ TypeOK /\ DoomedArePreceded
  BY DEF OddsInv, CompactDelete
<1>2. rows' \subseteq rows /\ \A r \in rows : r \in rows' <=> Key(r) \notin job.doomed
  BY <1>1, DeleteDoes
<1>3. Hkjc(rows) \subseteq Snapshot /\ Hkjc(rows') \subseteq Snapshot
  BY <1>1, <1>2 DEF TypeOK, Hkjc
<1>4. ASSUME NEW cutoff \in Int, NEW r \in LatestBefore(Hkjc(rows), cutoff)
      PROVE  LatestBefore(Hkjc(rows'), cutoff) # {}
  <2>1. r \in Hkjc(rows) /\ r.captured < cutoff
    BY DEF LatestBefore
  <2>2. PICK e \in Hkjc(rows) : Key(e) \notin job.doomed /\ e.captured < cutoff
    <3>1. CASE Key(r) \notin job.doomed
      BY <2>1, <3>1
    <3>2. CASE Key(r) \in job.doomed
      <4>1. PICK e \in Hkjc(rows) : e.captured < r.captured /\ Key(e) \notin job.doomed
        BY <1>1, <2>1, <3>2 DEF DoomedArePreceded
      <4>2. e.captured \in Nat /\ r.captured \in Nat
        BY <1>3, <2>1, RowType
      <4> QED BY <2>1, <4>1, <4>2
    <3> QED BY <3>1, <3>2
  <2>3. e \in Hkjc(rows')
    BY <1>2, <2>2 DEF Hkjc
  <2> QED BY <1>3, <2>2, <2>3, LatestExists
<1>5. \A k \in Kickoffs : k \in Int /\ k - Lead \in Int
  BY OddsStoreAssumption DEF Time
<1> QED BY <1>4, <1>5 DEF NoKickoffLosesItsRow, PriorIn, CloseIn

\* After a match, compaction, backfill and the prune behind a compaction leave its prior
\* and its close; any other prune takes of them what is past the retention.
LEMMA FrozenStep ==
  ASSUME OddsInv, [Next]_vars, finished, fetch = None,
         job.pc = "compact" => job.asOf = kickoff
  PROVE  \/ Prior' = Prior /\ Close' = Close
         \/ PruneDelete /\ ~SafeToPrune /\ OnlyExpiredGo
<1>1. CASE CompactDelete
  BY <1>1, DeletionStep DEF CompactDelete
<1>2. ASSUME rows' = rows, kickoff' = kickoff
      PROVE  Prior' = Prior /\ Close' = Close
  BY <1>2 DEF Prior, Close, PriorIn, CloseIn
<1>3. CASE PruneDelete
  BY <1>2, <1>3, PruningSparesAll, PruningTakesTheExpired DEF PruneDelete
<1>4. CASE Backfill
  <2>1. TypeOK /\ kickoff' = kickoff /\ kickoff \in Nat /\ Lead \in Nat
    BY <1>4, RunType, OddsStoreAssumption DEF OddsInv, Backfill
  <2>2. ASSUME NEW cutoff \in Int, cutoff <= kickoff
        PROVE  LatestBefore(Hkjc(rows'), cutoff) = LatestBefore(Hkjc(rows), cutoff)
    <3>1. ASSUME NEW new \in Snapshot, rows' = rows \cup {new}, new.source = "football_data"
          PROVE  Hkjc(rows') = Hkjc(rows)
      BY <3>1 DEF Hkjc
    <3>2. ASSUME NEW o \in rows, NEW new \in Snapshot, rows' = (rows \ {o}) \cup {new},
                 new.captured = o.captured, o.bucket = kickoff
          PROVE  {r \in Hkjc(rows') : r.captured < cutoff} = {r \in Hkjc(rows) : r.captured < cutoff}
      <4>1. kickoff <= o.captured /\ o.captured \in Nat
        BY <3>2, RowType DEF OddsInv, RowsAreStamped, TypeOK
      <4>2. ~(o.captured < cutoff) /\ ~(new.captured < cutoff)
        BY <2>1, <2>2, <3>2, <4>1
      <4> QED BY <3>2, <4>2 DEF Hkjc
    <3>3. {r \in Hkjc(rows') : r.captured < cutoff} = {r \in Hkjc(rows) : r.captured < cutoff}
      <4>1. CASE \E new \in Snapshot : rows' = rows \cup {new} /\ new.source = "football_data"
        BY <3>1, <4>1
      <4>2. CASE \E o \in rows, new \in Snapshot :
                   rows' = (rows \ {o}) \cup {new} /\ new.captured = o.captured /\ o.bucket = kickoff
        BY <3>2, <4>2
      <4> QED BY <1>4, <2>1, <4>1, <4>2, BackfillDoes
    <3> QED BY <3>3, LatestIsLocal
  <2>3. kickoff - Lead \in Int /\ kickoff - Lead <= kickoff /\ kickoff \in Int /\ kickoff <= kickoff
    BY <2>1
  <2> QED BY <2>1, <2>2, <2>3 DEF Prior, Close, PriorIn, CloseIn
<1>5. CASE UNCHANGED vars
  BY <1>2, <1>5 DEF vars
<1>6. ~(\E f \in Inplays : StoreOdds(f)) /\ ~(\E k \in Kickoffs : Move(k))
  BY DEF StoreOdds, Move
<1>7. CASE StartFetch \/ FetchFails \/ Tick \/ FinalWhistle \/ CompactSelect \/ PruneSelect \/ JobFails
  BY <1>2, <1>7 DEF StartFetch, FetchFails, Tick, FinalWhistle, CompactSelect, PruneSelect, JobFails
<1> QED BY <1>1, <1>3, <1>4, <1>5, <1>6, <1>7 DEF Next, Job

\* A capture in a bucket the cutoff does not split loses no reader's row.
LEMMA CaptureStep ==
  ASSUME OddsInv, TypeOK', NEW f \in BOOLEAN, StoreOdds(f), NEW cutoff \in Int, ~Splits(cutoff),
         NEW r \in LatestBefore(Hkjc(rows), cutoff)
  PROVE  \E s \in LatestBefore(Hkjc(rows'), cutoff) : s.captured >= r.captured
<1>1. r \in Hkjc(rows) /\ r \in rows /\ r.source = "hkjc" /\ r.captured < cutoff
  BY DEF LatestBefore, Hkjc
<1>2. TypeOK /\ fetch # None /\ rows' = Upsert(rows, f, fetch, clock) /\ fetch \in Time
  BY DEF OddsInv, StoreOdds, TypeOK
<1>3. /\ r.captured \in Nat /\ r.bucket \in Nat /\ fetch \in Nat /\ Bucket(fetch) \in Nat
      /\ r.bucket <= r.captured /\ r.captured < fetch
  BY <1>1, <1>2, RowType, BucketIs DEF OddsInv, TypeOK, RowsAreStamped, InFlight, Time
<1>4. PICK s \in rows' : s.source = "hkjc" /\ s.captured < cutoff /\ s.captured >= r.captured
  <2>1. CASE Key(r) # <<f, Bucket(fetch)>>
    <3>1. r \in rows'
      BY <1>1, <1>2, <2>1, UpsertDoes
    <3> QED BY <1>1, <1>3, <3>1
  <2>2. CASE Key(r) = <<f, Bucket(fetch)>>
    <3>1. PICK s \in rows' : s.captured = fetch /\ s.source = r.source
      BY <1>1, <1>2, <2>2, UpsertDoes
    <3>2. Bucket(fetch) < cutoff
      BY <1>1, <1>3, <2>2 DEF Key
    <3>3. fetch < cutoff
      BY <1>3, <3>2 DEF Splits
    <3> QED BY <1>1, <1>3, <3>1, <3>3
  <2> QED BY <2>1, <2>2
<1>5. s \in Hkjc(rows') /\ Hkjc(rows') \subseteq Snapshot
  BY <1>4 DEF Hkjc, TypeOK
<1>6. PICK q \in LatestBefore(Hkjc(rows'), cutoff) : q.captured >= s.captured
  BY <1>4, <1>5, LatestExists
<1>7. q.captured \in Nat /\ s.captured \in Nat
  BY <1>5, RowType DEF LatestBefore
<1> QED BY <1>3, <1>4, <1>6, <1>7

\* compact_odds_snapshots keeps the prior and the close of the kickoff it read, whatever the
\* sync stored between its SELECT and its DELETE, and the prune behind it keeps them all.
THEOREM AnchorsSurvive == Spec => DeletionsSpareAnchors
<1>1. OddsInv /\ [Next]_vars =>
        [/\ (CompactDelete /\ kickoff = job.asOf) => (Prior' = Prior /\ Close' = Close)
         /\ (PruneDelete /\ SafeToPrune) =>
              \A f \in BOOLEAN : Anchors(Group(Hkjc(rows), f), kickoff) \subseteq rows']_vars
  BY DeletionStep
<1> QED BY <1>1, OddsInvariant, PTL DEF Spec, DeletionsSpareAnchors

\* Once a match is over and nothing of it is in flight, compact_odds_snapshots, the backfill
\* and a prune_odds_snapshots behind a compaction leave the prior its predictions were made
\* on and the close its CLV is measured against.  Any other prune may take them, but only
\* past the retention; and a compaction whose match was moved meanwhile leaves the readers
\* of every kickoff a row.
THEOREM LookupsAreFrozen == Spec => FinalLookupsFrozen
<1>1. OddsInv /\ [Next]_vars =>
        [/\ (finished /\ fetch = None /\ (job.pc = "compact" => job.asOf = kickoff)) =>
              \/ Prior' = Prior /\ Close' = Close
              \/ PruneDelete /\ ~SafeToPrune /\ OnlyExpiredGo
         /\ CompactDelete => NoKickoffLosesItsRow]_vars
  BY FrozenStep, CompactionLeavesARow
<1> QED BY <1>1, OddsInvariant, PTL DEF Spec, FinalLookupsFrozen

\* A later capture never gives the readers an older row: _upsert_snapshots takes over no row
\* that a reader needs, buckets that a cutoff splits excepted.
THEOREM CapturesNeverLose == Spec => CaptureNeverLosesClose
<1>1. OddsInv /\ OddsInv' /\ [Next]_vars =>
        [\A f \in BOOLEAN : StoreOdds(f) =>
           /\ ~Splits(kickoff) =>
                \A r \in Close : \E s \in CloseIn(rows', kickoff) : s.captured >= r.captured
           /\ ~Splits(kickoff - Lead) =>
                \A r \in Prior : \E s \in PriorIn(rows', kickoff) : s.captured >= r.captured]_vars
  <2>1. ASSUME OddsInv, OddsInv', NEW f \in BOOLEAN, StoreOdds(f)
        PROVE  /\ ~Splits(kickoff) =>
                    \A r \in Close : \E s \in CloseIn(rows', kickoff) : s.captured >= r.captured
               /\ ~Splits(kickoff - Lead) =>
                    \A r \in Prior : \E s \in PriorIn(rows', kickoff) : s.captured >= r.captured
    <3>1. TypeOK' /\ kickoff \in Int /\ kickoff - Lead \in Int
      BY <2>1, RunType, OddsStoreAssumption DEF OddsInv
    <3> QED BY <2>1, <3>1, CaptureStep DEF Prior, Close, PriorIn, CloseIn
  <2> QED BY <2>1
<1> QED BY <1>1, OddsInvariant, PTL DEF Spec, CaptureNeverLosesClose
=============================================================================

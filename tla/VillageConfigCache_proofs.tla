---------------------- MODULE VillageConfigCache_proofs ----------------------
(***************************************************************************)
(* With one worker the village.ini cache is exact: proofs for every set of *)
(* contents and every sequence of saves, removals and loads.  With several *)
(* it is as long as nobody edits the file under a load.                    *)
(***************************************************************************)
EXTENDS VillageConfigCache, TLAPS

(* The stamp never runs ahead of the load in progress, and what the load has read is
   the file's content unless the file has a newer time than the load's stat. *)
LoadInv(t) ==
  /\ lastUpdated <= file.mtime
  /\ mtime[t] <= file.mtime
  /\ lastUpdated <= mtime[t]
  /\ pc[t] \in {"check", "compare", "read", "store", "stamp", "serve"} /\ undisturbed[t] =>
       mtime[t] = file.mtime /\ file.text # None
  /\ pc[t] = "missing" /\ undisturbed[t] => file.text = None
  /\ pc[t] \in {"store", "stamp"} => raw[t] \in Texts \ Malformed
  /\ pc[t] \in {"store", "stamp"} /\ mtime[t] = file.mtime /\ file.text # None =>
       raw[t] = file.text
  /\ pc[t] = "stamp" => data = raw[t]
  /\ pc[t] \in {"compare", "serve"} => data # None
  /\ pc[t] = "serve" => lastUpdated = mtime[t]

IInv == TypeOK /\ HitIsCurrent /\ \A t \in Threads : LoadInv(t)
-----------------------------------------------------------------------------
(* The initial states satisfy the inductive invariant. *)
LEMMA InitIInv == Init => IInv
  BY CacheAssumption
  DEF Init, IInv, TypeOK, HitIsCurrent, LoadInv, Phases

(* One step of the only worker, or one edit, preserves it. *)
LEMMA NextIInv ==
  ASSUME NEW w, Threads = {w}, IInv, [Next]_vars
  PROVE  IInv'
<1> USE CacheAssumption
<1>0. TypeOK /\ HitIsCurrent /\ LoadInv(w) /\ w \in Threads
  BY DEF IInv
<1>1. file.mtime \in Nat /\ lastUpdated \in Nat /\ mtime[w] \in Nat
  BY <1>0 DEF TypeOK
<1> SUFFICES TypeOK' /\ HitIsCurrent' /\ LoadInv(w)'
  BY DEF IInv
<1>2. CASE Stat(w)
  BY <1>0, <1>1, <1>2
  DEF Stat, Goto, cache, TypeOK, HitIsCurrent, LoadInv, Phases
<1>3. CASE Forget(w)
  BY <1>0, <1>1, <1>3
  DEF Forget, Return, Goto, TypeOK, HitIsCurrent, LoadInv, Phases
<1>4. CASE CheckData(w)
  BY <1>0, <1>1, <1>4
  DEF CheckData, Goto, cache, TypeOK, HitIsCurrent, LoadInv, Phases
<1>5. CASE CompareStamp(w)
  BY <1>0, <1>1, <1>5
  DEF CompareStamp, Goto, cache, TypeOK, HitIsCurrent, LoadInv, Phases
<1>6. CASE ReadFile(w)
  BY <1>0, <1>1, <1>6
  DEF ReadFile, Return, Goto, cache, TypeOK, HitIsCurrent, LoadInv, Phases
<1>7. CASE StoreData(w)
  BY <1>0, <1>1, <1>7
  DEF StoreData, Goto, TypeOK, HitIsCurrent, LoadInv, Phases
<1>8. CASE StoreStamp(w)
  BY <1>0, <1>1, <1>8
  DEF StoreStamp, Goto, TypeOK, HitIsCurrent, LoadInv, Phases
<1>9. CASE Serve(w)
  BY <1>0, <1>1, <1>9
  DEF Serve, Return, Goto, cache, TypeOK, HitIsCurrent, LoadInv, Phases
<1>10. ASSUME NEW text \in Texts \union {None}, Edit(text)
       PROVE  TypeOK' /\ HitIsCurrent' /\ LoadInv(w)'
  BY <1>0, <1>1, <1>10
  DEF Edit, cache, local, TypeOK, HitIsCurrent, LoadInv, Phases
<1>11. CASE UNCHANGED vars
  BY <1>0, <1>11
  DEF vars, cache, local, TypeOK, HitIsCurrent, LoadInv, Phases
<1> QED
  BY <1>2, <1>3, <1>4, <1>5, <1>6, <1>7, <1>8, <1>9, <1>10, <1>11 DEF Next, Load

(* The answer of a load that ends in a step from a state of the invariant. *)
LEMMA FreshStep ==
  ASSUME NEW w, Threads = {w}, IInv, [Next]_vars,
         pc[w] # "idle", pc'[w] = "idle", undisturbed[w]
  PROVE  answer'[w] = Content
<1> USE CacheAssumption
<1>0. TypeOK /\ HitIsCurrent /\ LoadInv(w)
  BY DEF IInv
<1>1. CASE Forget(w)
  BY <1>0, <1>1 DEF Forget, Return, TypeOK, LoadInv, Content
<1>2. CASE ReadFile(w)
  BY <1>0, <1>2 DEF ReadFile, Return, Goto, TypeOK, LoadInv, Content
<1>3. CASE Serve(w)
  BY <1>0, <1>3 DEF Serve, Return, TypeOK, HitIsCurrent, LoadInv, Content
<1>4. CASE Stat(w) \/ CheckData(w) \/ CompareStamp(w) \/ StoreData(w) \/ StoreStamp(w)
  BY <1>0, <1>4
  DEF Stat, CheckData, CompareStamp, StoreData, StoreStamp, Goto, TypeOK, Phases
<1>5. CASE UNCHANGED vars \/ \E text \in Texts \union {None} : Edit(text)
  BY <1>5 DEF vars, local, Edit
<1> QED
  BY <1>1, <1>2, <1>3, <1>4, <1>5 DEF Next, Load
-----------------------------------------------------------------------------
(* What is stored has been parsed, however many threads load at once. *)
StoresParsed ==
  \A t \in Threads : pc[t] \in {"store", "stamp"} => raw[t] \in Texts \ Malformed

LEMMA TypeStep ==
  ASSUME TypeOK, StoresParsed, [Next]_vars
  PROVE  TypeOK' /\ StoresParsed'
<1> USE CacheAssumption
<1>1. ASSUME NEW t \in Threads, Stat(t) \/ Forget(t) \/ CheckData(t) \/ CompareStamp(t)
      PROVE  TypeOK' /\ StoresParsed'
  BY <1>1 DEF Stat, Forget, CheckData, CompareStamp, Goto, Return, cache, TypeOK, StoresParsed, Phases
<1>2. ASSUME NEW t \in Threads, ReadFile(t)
      PROVE  TypeOK' /\ StoresParsed'
  BY <1>2 DEF ReadFile, Goto, Return, cache, TypeOK, StoresParsed, Phases
<1>3. ASSUME NEW t \in Threads, StoreData(t) \/ StoreStamp(t) \/ Serve(t)
      PROVE  TypeOK' /\ StoresParsed'
  BY <1>3 DEF StoreData, StoreStamp, Serve, Goto, Return, cache, TypeOK, StoresParsed, Phases
<1>4. ASSUME NEW text \in Texts \union {None}, Edit(text)
      PROVE  TypeOK' /\ StoresParsed'
  BY <1>4 DEF Edit, cache, local, TypeOK, StoresParsed, Phases
<1>5. CASE UNCHANGED vars
  BY <1>5 DEF vars, cache, local, TypeOK, StoresParsed
<1> QED BY <1>1, <1>2, <1>3, <1>4, <1>5 DEF Next, Load
-----------------------------------------------------------------------------
(* The types of file, cache and loads, for any number of threads. *)
THEOREM CacheTyped == Spec => []TypeOK
<1>1. Init => TypeOK /\ StoresParsed
  BY CacheAssumption DEF Init, TypeOK, StoresParsed, Phases
<1> QED
  BY <1>1, TypeStep, PTL DEF Spec

(* A single worker (THREADS=0) never serves an entry that the file has outlived. *)
THEOREM OneWorkerIsCoherent ==
  ASSUME NEW w, Threads = {w}
  PROVE  Spec => []HitIsCurrent
<1>1. IInv => HitIsCurrent
  BY DEF IInv
<1> QED
  BY <1>1, InitIInv, NextIInv, PTL DEF Spec

(* A single worker answers every load that no edit disturbs with the file's content. *)
THEOREM OneWorkerIsFresh ==
  ASSUME NEW w, Threads = {w}
  PROVE  Spec => LoadIsFresh
<1>1. ASSUME IInv, [Next]_vars
      PROVE  [\A t \in Threads : pc[t] # "idle" /\ pc'[t] = "idle" /\ undisturbed[t] =>
                 answer'[t] = Content]_vars
  BY <1>1, FreshStep
<1> QED
  BY <1>1, InitIInv, NextIInv, PTL DEF Spec, LoadIsFresh
-----------------------------------------------------------------------------
(* Any number of threads.  What goes wrong takes an edit under a load. *)

QuietStep == edits' # edits => \A t \in Threads : pc[t] = "idle"

(* village.ini is edited only while nobody loads it. *)
QuietEdits == [][QuietStep]_vars

(* Whoever is loading has seen the file as it is, and what is on its way into the cache is what
   the file says: threads that load together store the same. *)
QuietLoad(t) ==
  /\ pc[t] # "idle" => undisturbed[t]
  /\ pc[t] = "missing" => file.text = None
  /\ pc[t] \notin {"idle", "missing"} => mtime[t] = file.mtime /\ file.text # None
  /\ pc[t] \in {"store", "stamp"} => raw[t] = file.text /\ file.text \notin Malformed
  /\ pc[t] \in {"stamp", "serve"} => data = file.text
  /\ pc[t] = "compare" => data # None
  /\ pc[t] = "serve" => lastUpdated = file.mtime

QuietInv == TypeOK /\ HitIsCurrent /\ lastUpdated <= file.mtime /\ \A t \in Threads : QuietLoad(t)

LEMMA InitQuiet == Init => QuietInv
<1> SUFFICES ASSUME Init PROVE QuietInv
  OBVIOUS
<1>1. TypeOK
  BY CacheAssumption DEF Init, TypeOK, Phases
<1> QED BY <1>1 DEF Init, QuietInv, HitIsCurrent, QuietLoad

(* A step of one of the threads. *)
LEMMA QuietLoadStep ==
  ASSUME QuietInv, TypeOK', NEW t \in Threads, Load(t)
  PROVE  QuietInv'
<1> USE CacheAssumption
<1>1. /\ file.mtime \in Nat /\ lastUpdated \in Nat /\ data \in (Texts \ Malformed) \union {None}
      /\ file.text \in Texts \union {None}
      /\ HitIsCurrent /\ lastUpdated <= file.mtime /\ \A u \in Threads : QuietLoad(u)
  BY DEF QuietInv, TypeOK
<1>2. /\ DOMAIN pc = Threads /\ DOMAIN mtime = Threads /\ DOMAIN raw = Threads /\ DOMAIN undisturbed = Threads
  BY DEF QuietInv, TypeOK
<1>3. file' = file
  BY DEF Load, Stat, Forget, CheckData, CompareStamp, ReadFile, StoreData, StoreStamp, Serve
<1>4. ASSUME NEW u \in Threads \ {t}
      PROVE  pc'[u] = pc[u] /\ mtime'[u] = mtime[u] /\ raw'[u] = raw[u] /\ undisturbed'[u] = undisturbed[u]
  BY <1>2 DEF Load, Stat, Forget, CheckData, CompareStamp, ReadFile, StoreData, StoreStamp, Serve, Goto, Return
<1>5. CASE Stat(t) \/ CheckData(t) \/ CompareStamp(t) \/ ReadFile(t) \/ Serve(t)
  <2>1. data' = data /\ lastUpdated' = lastUpdated
    BY <1>5 DEF Stat, CheckData, CompareStamp, ReadFile, Serve, cache
  <2>2. QuietLoad(t)'
    BY <1>1, <1>2, <1>3, <1>5, <2>1
    DEF Stat, CheckData, CompareStamp, ReadFile, Serve, Goto, Return, QuietLoad, HitIsCurrent, TypeOK
  <2>3. \A u \in Threads : QuietLoad(u)'
    BY <1>1, <1>3, <1>4, <2>1, <2>2 DEF QuietLoad
  <2> QED BY <1>1, <1>3, <2>1, <2>3 DEF QuietInv, HitIsCurrent
<1>6. CASE Forget(t)
  <2>1. file.text = None /\ data' = None /\ lastUpdated' = lastUpdated /\ pc'[t] = "idle"
    BY <1>1, <1>2, <1>6 DEF Forget, Return, Goto, QuietLoad
  <2>2. \A u \in Threads : QuietLoad(u)'
    BY <1>1, <1>3, <1>4, <2>1 DEF QuietLoad
  <2> QED BY <1>1, <1>3, <2>1, <2>2 DEF QuietInv, HitIsCurrent
<1>7. CASE StoreData(t)
  <2>1. /\ pc[t] = "store" /\ data' = raw[t] /\ raw[t] = file.text /\ file.text # None
        /\ lastUpdated' = lastUpdated /\ pc'[t] = "stamp" /\ mtime'[t] = mtime[t] /\ raw'[t] = raw[t]
        /\ undisturbed'[t] = undisturbed[t]
    BY <1>1, <1>2, <1>7 DEF StoreData, Goto, QuietLoad
  <2>2. \A u \in Threads : QuietLoad(u)'
    BY <1>1, <1>3, <1>4, <2>1 DEF QuietLoad
  <2> QED BY <1>1, <1>3, <2>1, <2>2 DEF QuietInv, HitIsCurrent
<1>8. CASE StoreStamp(t)
  <2>1. /\ pc[t] = "stamp" /\ data' = data /\ data = file.text /\ lastUpdated' = file.mtime
        /\ pc'[t] = "serve" /\ mtime'[t] = mtime[t] /\ undisturbed'[t] = undisturbed[t]
    BY <1>1, <1>2, <1>8 DEF StoreStamp, Goto, QuietLoad
  <2>2. \A u \in Threads : QuietLoad(u)'
    BY <1>1, <1>3, <1>4, <2>1 DEF QuietLoad
  <2> QED BY <1>1, <1>3, <2>1, <2>2 DEF QuietInv, HitIsCurrent
<1> QED BY <1>5, <1>6, <1>7, <1>8 DEF Load

LEMMA QuietNext ==
  ASSUME QuietInv, [Next]_vars, [QuietStep]_vars
  PROVE  QuietInv'
<1>1. TypeOK'
  <2>1. StoresParsed
    BY DEF QuietInv, QuietLoad, StoresParsed, TypeOK
  <2> QED BY <2>1, TypeStep DEF QuietInv
<1>2. CASE \E t \in Threads : Load(t)
  BY <1>1, <1>2, QuietLoadStep
<1>3. CASE \E text \in Texts \union {None} : Edit(text)
  <2>1. /\ edits' = edits + 1 /\ file'.mtime = file.mtime + 1 /\ UNCHANGED <<cache, local>>
    BY <1>3 DEF Edit
  <2>2. edits \in Nat /\ file.mtime \in Nat /\ lastUpdated \in Nat /\ lastUpdated <= file.mtime
    BY DEF QuietInv, TypeOK
  <2>3. \A t \in Threads : pc[t] = "idle"
    BY <2>1, <2>2 DEF QuietStep, vars
  <2>4. \A t \in Threads : QuietLoad(t)'
    BY <2>1, <2>3 DEF QuietLoad, local
  <2>5. lastUpdated' < file'.mtime
    BY <2>1, <2>2 DEF cache
  <2>6. file'.mtime \in Nat /\ lastUpdated' \in Nat
    BY <2>1, <2>2 DEF cache
  <2> QED BY <1>1, <2>4, <2>5, <2>6 DEF QuietInv, HitIsCurrent
<1>4. CASE UNCHANGED vars
  BY <1>1, <1>4 DEF QuietInv, HitIsCurrent, QuietLoad, vars, cache, local
<1> QED BY <1>2, <1>3, <1>4 DEF Next

LEMMA QuietAnswer ==
  ASSUME QuietInv, [Next]_vars, NEW t \in Threads, pc[t] # "idle", pc'[t] = "idle"
  PROVE  answer'[t] = Content
<1> USE CacheAssumption
<1>1. Load(t)
  <2>1. \A u \in Threads : Load(u) /\ u # t => pc'[t] = pc[t]
    BY DEF QuietInv, TypeOK, Load, Stat, Forget, CheckData, CompareStamp, ReadFile, StoreData, StoreStamp, Serve,
           Goto, Return
  <2>2. UNCHANGED vars \/ (\E text \in Texts \union {None} : Edit(text)) => pc' = pc
    BY DEF vars, local, Edit
  <2> QED BY <2>1, <2>2 DEF Next
<1>2. QuietLoad(t) /\ DOMAIN pc = Threads /\ DOMAIN answer = Threads
  BY DEF QuietInv, TypeOK
<1>3. CASE Forget(t)
  BY <1>2, <1>3 DEF Forget, Return, QuietLoad, Content
<1>4. CASE ReadFile(t)
  BY <1>2, <1>4 DEF ReadFile, Return, Goto, QuietLoad, Content
<1>5. CASE Serve(t)
  <2>1. data \notin Malformed \/ data = None
    BY DEF QuietInv, TypeOK
  <2>2. file.text # None /\ data = file.text /\ answer'[t] = data
    BY <1>2, <1>5 DEF Serve, Return, QuietLoad
  <2> QED BY <2>1, <2>2 DEF Content
<1>6. CASE Stat(t) \/ CheckData(t) \/ CompareStamp(t) \/ StoreData(t) \/ StoreStamp(t)
  BY <1>2, <1>6 DEF Stat, CheckData, CompareStamp, StoreData, StoreStamp, Goto
<1> QED BY <1>1, <1>3, <1>4, <1>5, <1>6 DEF Load

(* Threads that load at the same time do not spoil the cache for one another, nor do edits that
   come between loads: only an edit under a load can leave an entry that is not the file's. *)
THEOREM QuietCacheIsCoherent == Spec /\ QuietEdits => []HitIsCurrent
<1>1. QuietInv => HitIsCurrent
  BY DEF QuietInv
<1> QED BY <1>1, InitQuiet, QuietNext, PTL DEF Spec, QuietEdits

(* And every load returns what the file says. *)
THEOREM QuietLoadsAreFresh == Spec /\ QuietEdits => LoadIsFresh
<1>1. QuietInv /\ [Next]_vars =>
        [\A t \in Threads : pc[t] # "idle" /\ pc'[t] = "idle" /\ undisturbed[t] => answer'[t] = Content]_vars
  BY QuietAnswer
<1> QED BY <1>1, InitQuiet, QuietNext, PTL DEF Spec, QuietEdits, LoadIsFresh
=============================================================================

------------------------- MODULE VillageConfigCache -------------------------
(***************************************************************************)
(* load_village_data: village.ini behind a cache of two dictionary entries *)
(* that every worker thread reads and writes without a lock.  Each access  *)
(* of the file or of an entry is an action, because another thread may run *)
(* between any two; an administrator saves or removes the file meanwhile.  *)
(***************************************************************************)
EXTENDS Naturals

CONSTANTS
  Threads,    \* threads that serve requests
  Texts,      \* contents of village.ini, told apart by what they parse to
  Malformed,  \* the contents that ConfigParser refuses
  None,       \* Python's None; also the content of a file that does not exist
  Failed,     \* the answer of a load that raised
  MaxEdits    \* bound: saves and removals of the file

ASSUME CacheAssumption ==
  /\ Malformed \subseteq Texts
  /\ None \notin Texts /\ Failed \notin Texts /\ None # Failed
  /\ MaxEdits \in Nat

VARIABLES
  file,         \* content and modification time of village.ini
  edits,        \* number of edits so far (see MaxEdits)
  data,         \* _cache["data"]
  lastUpdated,  \* _cache["last_updated"]; 0 before the first load
  pc,           \* where each thread is in load_village_data
  mtime,        \* local: the modification time that stat returned
  raw,          \* local: the content that open and read returned
  answer,       \* what the thread's last load returned
  undisturbed   \* history: no edit since this load's stat

cache == <<data, lastUpdated>>
local == <<pc, mtime, raw, answer>>
vars  == <<file, edits, cache, local, undisturbed>>

Phases == {"idle", "missing", "check", "compare", "read", "store", "stamp", "serve"}

TypeOK ==
  /\ file \in [text : Texts \union {None}, mtime : Nat \ {0}]
  /\ edits \in Nat
  /\ data \in (Texts \ Malformed) \union {None} /\ lastUpdated \in Nat
  /\ pc \in [Threads -> Phases] /\ mtime \in [Threads -> Nat]
  /\ raw \in [Threads -> Texts \union {None}]
  /\ answer \in [Threads -> Texts \union {None, Failed}]
  /\ undisturbed \in [Threads -> BOOLEAN]
-----------------------------------------------------------------------------
Goto(t, phase) == pc' = [pc EXCEPT ![t] = phase]

Return(t, value) ==
  /\ Goto(t, "idle")
  /\ answer' = [answer EXCEPT ![t] = value]
  /\ UNCHANGED <<mtime, raw>>

Stat(t) ==
  /\ pc[t] = "idle"
  /\ undisturbed' = [undisturbed EXCEPT ![t] = TRUE]
  /\ IF file.text = None
       THEN Goto(t, "missing") /\ UNCHANGED mtime
       ELSE Goto(t, "check") /\ mtime' = [mtime EXCEPT ![t] = file.mtime]
  /\ UNCHANGED <<file, edits, cache, raw, answer>>

(* Slip: the entry is kept when the file is gone. *)
ForgetNothing(t) ==
  /\ pc[t] = "missing"
  /\ Return(t, data)
  /\ UNCHANGED <<file, edits, cache, undisturbed>>

Forget(t) ==
  /\ pc[t] = "missing"
  /\ data' = None
  /\ Return(t, None)
  /\ UNCHANGED <<file, edits, lastUpdated, undisturbed>>

CheckData(t) ==
  /\ pc[t] = "check"
  /\ Goto(t, IF data # None THEN "compare" ELSE "read")
  /\ UNCHANGED <<file, edits, cache, mtime, raw, answer, undisturbed>>

CompareStamp(t) ==
  /\ pc[t] = "compare"
  /\ Goto(t, IF mtime[t] = lastUpdated THEN "serve" ELSE "read")
  /\ UNCHANGED <<file, edits, cache, mtime, raw, answer, undisturbed>>

(* Slip: a text that does not parse is stored all the same. *)
ReadUnparsed(t) ==
  /\ pc[t] = "read"
  /\ IF file.text = None
       THEN Return(t, Failed)
       ELSE /\ raw' = [raw EXCEPT ![t] = file.text]
            /\ Goto(t, "store")
            /\ UNCHANGED <<mtime, answer>>
  /\ UNCHANGED <<file, edits, cache, undisturbed>>

(* open raises when the file is gone meanwhile, the parser when it is malformed;
   either way the cache keeps what it had. *)
ReadFile(t) ==
  /\ pc[t] = "read"
  /\ IF file.text \in Malformed \union {None}
       THEN Return(t, Failed)
       ELSE /\ raw' = [raw EXCEPT ![t] = file.text]
            /\ Goto(t, "store")
            /\ UNCHANGED <<mtime, answer>>
  /\ UNCHANGED <<file, edits, cache, undisturbed>>

StoreData(t) ==
  /\ pc[t] = "store"
  /\ data' = raw[t]
  /\ Goto(t, "stamp")
  /\ UNCHANGED <<file, edits, lastUpdated, mtime, raw, answer, undisturbed>>

(* Slip: the stamp is taken after the read, of a file that may be newer. *)
StampAfterRead(t) ==
  /\ pc[t] = "stamp"
  /\ lastUpdated' = file.mtime
  /\ Goto(t, "serve")
  /\ UNCHANGED <<file, edits, data, mtime, raw, answer, undisturbed>>

StoreStamp(t) ==
  /\ pc[t] = "stamp"
  /\ lastUpdated' = mtime[t]
  /\ Goto(t, "serve")
  /\ UNCHANGED <<file, edits, data, mtime, raw, answer, undisturbed>>

(* The entry is read once more for the return value. *)
Serve(t) ==
  /\ pc[t] = "serve"
  /\ Return(t, data)
  /\ UNCHANGED <<file, edits, cache, undisturbed>>

(* An administrator saves or removes the file; no two saves share a time stamp. *)
Edit(text) ==
  /\ edits < MaxEdits
  /\ edits' = edits + 1
  /\ file' = [text |-> text, mtime |-> file.mtime + 1]
  /\ undisturbed' = [t \in Threads |-> FALSE]
  /\ UNCHANGED <<cache, local>>
-----------------------------------------------------------------------------
Init ==
  /\ file \in [text : Texts \union {None}, mtime : {1}]
  /\ edits = 0 /\ data = None /\ lastUpdated = 0
  /\ pc = [t \in Threads |-> "idle"] /\ mtime = [t \in Threads |-> 0]
  /\ raw = [t \in Threads |-> None] /\ answer = [t \in Threads |-> None]
  /\ undisturbed = [t \in Threads |-> FALSE]

Load(t) ==
  \/ Stat(t) \/ Forget(t) \/ CheckData(t) \/ CompareStamp(t)
  \/ ReadFile(t) \/ StoreData(t) \/ StoreStamp(t) \/ Serve(t)

Next == (\E t \in Threads : Load(t)) \/ (\E text \in Texts \union {None} : Edit(text))

Spec == Init /\ [][Next]_vars
-----------------------------------------------------------------------------
(* What a load of the present file has to return. *)
Content == IF file.text \in Malformed THEN Failed ELSE file.text

(* "Cached in memory until village.ini changes": an entry whose stamp is the file's
   modification time is the file's content, so the next load may serve it. *)
HitIsCurrent == data # None /\ lastUpdated = file.mtime /\ file.text # None => data = file.text

(* Once no load is under way the cache is current, or the next load will notice:
   staleness never outlives the requests that caused it. *)
SettledCacheIsCurrent == (\A t \in Threads : pc[t] = "idle") => HitIsCurrent

(* A load during which nobody touched the file returns what the file says, whatever
   was edited, removed or malformed before, and whatever the cache held. *)
LoadIsFresh ==
  [][\A t \in Threads : pc[t] # "idle" /\ pc'[t] = "idle" /\ undisturbed[t] =>
        answer'[t] = Content]_vars
=============================================================================

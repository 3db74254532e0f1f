------------------------------ MODULE Release ------------------------------
(***************************************************************************)
(* From a commit to a release: developers with clones of one repository,   *)
(* the pre-commit hooks that raise the patch version and regenerate the    *)
(* hash file, the pre-push hook that raises the minor version when the     *)
(* hash file differs from a remote one, and a main branch that takes       *)
(* branches whose hash file the CI finds up to date, whether or not they   *)
(* contain its tip.                                                        *)
(*                                                                         *)
(* Hooks are not bypassed.  Merges that git makes without a conflict run   *)
(* no pre-commit hook; in a conflict the developer keeps the higher        *)
(* version.  The server merges; it does not squash or rebase.              *)
(***************************************************************************)
EXTENDS ContractHashes, Integers, Sequences, FiniteSetsExt

CONSTANTS
  Developers,  \* each with a branch of its own
  Contracts,   \* names for what the API and the tables may be defined as
  Defs,        \* contract -> its definition
  Base,        \* the contract of the first commit
  Edits,       \* <<contract before, contract after>> of a commit
  main,        \* the branch releases are made from
  MaxCommits   \* bound: commits

ASSUME ReleaseAssumption ==
  /\ main \notin Developers
  /\ Base \in Contracts /\ None \notin Contracts \union Nat
  /\ DOMAIN Defs = Contracts /\ \A c \in Contracts : IsContract(Defs[c])
  /\ Edits \subseteq Contracts \X Contracts
  /\ MaxCommits \in Nat \ {0}

(* The document is finite, each name is of one kind, and nothing that is defined, nor a digest,
   is taken for absent. *)
ASSUME NamesAssumption ==
  /\ IsFiniteSet(Schemas) /\ IsFiniteSet(Responses)
  /\ Operations \intersect (Schemas \union Responses) = {} /\ Schemas \intersect Responses = {}
  /\ None \notin Fragments
  /\ \A c \in Contracts, o \in Operations : openapi_slice_for_resource(Defs[c], o[1], {o[2]}) # None

VARIABLES
  commits,   \* the commits, in the order they were made
  remote,    \* branch -> its tip on the server
  known,     \* clone -> the tip of main it knows of
  head,      \* clone -> the commit that is checked out
  pushing,   \* clone -> the push whose hook has passed
  tips,      \* history: commits that have been the tip of main
  behind     \* history: merges into main of a branch that did not contain its tip

vars == <<commits, remote, known, head, pushing, tips, behind>>

Branches == Developers \union {main}

Ids == DOMAIN commits

(* A digest is named after one of the contracts that have it. *)
canonical_hash(s, k, value) == CHOOSE c \in Contracts : compute_hashes(Defs[c])[s][k] = value

Hashes ==
  [c \in Contracts |->
     LET computed == compute_hashes(Defs[c])
     IN  [s \in DOMAIN computed |->
            [k \in DOMAIN computed[s] |-> canonical_hash(s, k, computed[s][k])]]]

NoPush == [branch |-> None, old |-> None, commit |-> None]
-----------------------------------------------------------------------------
(* Versions: <<major, minor, patch>> *)

Less(v, w) ==
  \/ v[1] < w[1]
  \/ v[1] = w[1] /\ v[2] < w[2]
  \/ v[1] = w[1] /\ v[2] = w[2] /\ v[3] < w[3]

Higher(v, w) == IF Less(v, w) THEN w ELSE v

bump_patch(v) == <<v[1], v[2], v[3] + 1>>

bump_minor(v) == <<v[1], v[2] + 1, 0>>

(* What a developer may have staged in pyproject.toml: nothing, or a version of his own. *)
Staged(v) == {v, bump_minor(v), <<v[1], 0, 0>>}

(* Slip: any staged change counts as manual. *)
AnyManualVersion(v, staged) == IF staged # v THEN staged ELSE bump_patch(v)

(* pre-commit hook; v is the version at HEAD *)
bump_patch_version(v, staged) == IF Less(v, staged) THEN staged ELSE bump_patch(v)
-----------------------------------------------------------------------------
(* The commit graph *)

Past(i) == commits[i].past \union {i}

(* git show: the version, and the hash file, of a revision *)
Version(i) == commits[i].version

HashFile(i) == commits[i].file

(* update_compatibility_hashes.py --check *)
check_hashes(i) == HashFile(i) = Hashes[commits[i].contract]

NextId == Len(commits) + 1

MakeCommit(version, contract, file, parents) ==
  /\ Len(commits) < MaxCommits
  /\ commits' = Append(commits, [version |-> version, contract |-> contract, file |-> file,
                                 past |-> UNION {Past(p) : p \in parents}])

AddCommit(d, version, contract, file, parents) ==
  /\ MakeCommit(version, contract, file, parents)
  /\ head' = [head EXCEPT ![d] = NextId]

Idle(d) == pushing[d] = NoPush
-----------------------------------------------------------------------------
(* A commit, with both pre-commit hooks *)
Commit(d) ==
  /\ Idle(d)
  /\ \E contract \in {c \in Contracts : <<commits[head[d]].contract, c>> \in Edits},
        staged \in Staged(Version(head[d])) :
       AddCommit(d, bump_patch_version(Version(head[d]), staged), contract,
                 Hashes[contract], {head[d]})
  /\ UNCHANGED <<remote, known, pushing, tips, behind>>

MergeBase(i, j) == Max(Past(i) \intersect Past(j))

(* git's merge, entry by entry of both the contract's sources and the hash file: the side that
   changed wins, unless both did. *)
MergesCleanly(f, g, base) ==
  \A s \in DOMAIN f : \A k \in DOMAIN f[s] :
    f[s][k] \in {g[s][k], base[s][k]} \/ g[s][k] = base[s][k]

Merged(f, g, base) ==
  [s \in DOMAIN f |->
     [k \in DOMAIN f[s] |-> IF f[s][k] = base[s][k] THEN g[s][k] ELSE f[s][k]]]

(* What git makes of two contracts by itself. *)
MergedContracts ==
  [c \in Contracts |-> [e \in Contracts |-> [base \in Contracts |->
     {m \in Contracts : /\ MergesCleanly(Defs[c], Defs[e], Defs[base])
                        /\ Defs[m] = Merged(Defs[c], Defs[e], Defs[base])}]]]

(* Both sides have raised the version: git merges by itself if they raised it to the same one,
   or one of them still has that of the merge base. *)
GitMerge(i, j) ==
  \E b \in {MergeBase(i, j)} :
    /\ Version(i) = Version(j) \/ Version(b) \in {Version(i), Version(j)}
    /\ MergesCleanly(HashFile(i), HashFile(j), HashFile(b))
    /\ \E c \in Contracts :
         /\ c \in MergedContracts[commits[i].contract][commits[j].contract][commits[b].contract]
         /\ MakeCommit(Higher(Version(i), Version(j)), c,
                       Merged(HashFile(i), HashFile(j), HashFile(b)), {i, j})

(* git pull origin main *)
MergeMain(d) ==
  LET i == head[d] j == remote[main]
  IN  /\ Idle(d) /\ j \notin Past(i)
      /\ \/ /\ i \in Past(j)
            /\ head' = [head EXCEPT ![d] = j] /\ UNCHANGED commits
         \/ /\ i \notin Past(j)
            /\ GitMerge(i, j) /\ head' = [head EXCEPT ![d] = NextId]
         \/ /\ i \notin Past(j)
            /\ \E c \in Contracts :
                 AddCommit(d, Higher(Version(i), Version(j)), c, Hashes[c], {i, j})
      /\ known' = [known EXCEPT ![d] = j]
      /\ UNCHANGED <<remote, pushing, tips, behind>>
-----------------------------------------------------------------------------
(* git push, with the pre-push hook *)

resolve_remote_baseline(from_ref, origin_main) ==
  IF from_ref # None THEN from_ref ELSE origin_main

(* Slip: the branch that is pushed is compared with itself only. *)
baseline_of_branch(from_ref, origin_main) == {resolve_remote_baseline(from_ref, origin_main)}

collect_hash_baseline_refs(from_ref, origin_main) ==
  {resolve_remote_baseline(from_ref, origin_main), origin_main}

(* The versions the baselines with another hash file call for. *)
required_versions(to_ref, baselines) ==
  {bump_minor(Version(b)) : b \in {b \in baselines : HashFile(b) # HashFile(to_ref)}}

Pushing(d, branch) == [branch |-> branch, old |-> remote[branch], commit |-> head[d]]

(* Slip: the bump is committed and the push goes on. *)
bump_and_go_on(d, branch, version) ==
  /\ AddCommit(d, version, commits[head[d]].contract, HashFile(head[d]), {head[d]})
  /\ pushing' = [pushing EXCEPT ![d] = Pushing(d, branch)]

(* The bump is committed and the push aborted. *)
bump_and_abort(d, branch, version) ==
  /\ AddCommit(d, version, commits[head[d]].contract, HashFile(head[d]), {head[d]})
  /\ UNCHANGED pushing

(* A fetch that fails leaves the tip of main the clone knows. *)
fetch_baseline_refs(d) == known' \in {known, [known EXCEPT ![d] = remote[main]]}

(* What pre-commit passes as the remote side of a push: the tip of the branch or, for a new one,
   the parent of the first commit that the clone does not know to be on the server. *)
from_refs(d, branch) ==
  IF remote[branch] # None THEN {remote[branch]}
  ELSE {p \in Past(known[d]) :
          \E x \in Past(head[d]) \ Past(known[d]) : commits[x].past = Past(p)}

(* git refuses, without asking the hook, what does not contain the branch's tip; a new branch
   has a commit of its own. *)
PrePush(d, branch) ==
  /\ Idle(d) /\ branch \in {d, main}
  /\ remote[branch] \in commits[head[d]].past \union {None}
  /\ remote[branch] = None => head[d] \notin Past(known[d])
  /\ fetch_baseline_refs(d)
  /\ \E from_ref \in from_refs(d, branch) :
       LET required == required_versions(head[d],
                         collect_hash_baseline_refs(from_ref, known'[d]))
           missing  == {v \in required : Less(Version(head[d]), v)}
       IN  IF missing = {}
             THEN /\ pushing' = [pushing EXCEPT ![d] = Pushing(d, branch)]
                  /\ UNCHANGED <<commits, head>>
             ELSE bump_and_abort(d, branch,
                    CHOOSE v \in missing : \A w \in missing : ~Less(v, w))
  /\ UNCHANGED <<remote, tips, behind>>

MoveTip(branch, i) ==
  /\ remote' = [remote EXCEPT ![branch] = i]
  /\ tips' = IF branch = main THEN tips \union {i} ELSE tips

(* The server moves a branch only from the tip the push started with. *)
Push(d) ==
  LET p == pushing[d]
  IN  /\ ~Idle(d) /\ remote[p.branch] = p.old
      /\ MoveTip(p.branch, p.commit)
      /\ known' = IF p.branch = main THEN [known EXCEPT ![d] = p.commit] ELSE known
      /\ pushing' = [pushing EXCEPT ![d] = NoPush]
      /\ UNCHANGED <<commits, head, behind>>

Rejected(d) ==
  /\ ~Idle(d) /\ remote[pushing[d].branch] # pushing[d].old
  /\ pushing' = [pushing EXCEPT ![d] = NoPush]
  /\ UNCHANGED <<commits, remote, known, head, tips, behind>>

(* On the server, after the CI: main moves forward to a branch that contains it; another branch
   is merged with it if git can, where no hook runs. *)
MergePull(d) ==
  /\ remote[d] # None /\ check_hashes(remote[d])
  /\ \/ /\ remote[main] \in commits[remote[d]].past
        /\ MoveTip(main, remote[d])
        /\ UNCHANGED <<commits, behind>>
     \/ /\ remote[main] \notin Past(remote[d]) /\ remote[d] \notin Past(remote[main])
        /\ GitMerge(remote[main], remote[d])
        /\ MoveTip(main, NextId)
        /\ behind' = behind \union {NextId}
  /\ UNCHANGED <<known, head, pushing>>
-----------------------------------------------------------------------------
Init ==
  /\ commits = <<[version |-> <<1, 1, 0>>, contract |-> Base, file |-> Hashes[Base], past |-> {}]>>
  /\ remote = [b \in Branches |-> IF b = main THEN 1 ELSE None]
  /\ known = [d \in Developers |-> 1]
  /\ head = [d \in Developers |-> 1]
  /\ pushing = [d \in Developers |-> NoPush]
  /\ tips = {1} /\ behind = {}

Next ==
  \E d \in Developers :
    \/ Commit(d) \/ MergeMain(d)
    \/ \E branch \in Branches : PrePush(d, branch)
    \/ Push(d) \/ Rejected(d) \/ MergePull(d)

Spec == Init /\ [][Next]_vars
-----------------------------------------------------------------------------
(* GET /api/version of a server that runs commit i *)
get_version(i) == [server_version |-> Version(i), hashes |-> Hashes[commits[i].contract]]

Released == {i \in tips : check_hashes(i)}

(* Names refer to commits that exist, and the commit a hook has passed is the one that is
   checked out. *)
TypeOK ==
  /\ Len(commits) \in 1 .. MaxCommits
  /\ \A i \in Ids :
       /\ Version(i) \in Nat \X Nat \X Nat
       /\ commits[i].contract \in Contracts /\ commits[i].past \subseteq 1 .. i - 1
       /\ DOMAIN HashFile(i) = {"api", "api_method", "schema"}
  /\ remote \in [Branches -> Ids \union {None}] /\ remote[main] \in tips
  /\ known \in [Developers -> Ids]
  /\ head \in [Developers -> Ids] /\ tips \subseteq Ids /\ behind \subseteq tips
  /\ \A d \in Developers : ~Idle(d) => pushing[d].branch \in {d, main} /\ pushing[d].commit = head[d]

Dependencies == [c \in Contracts |-> [o \in Operations |-> DependsOn(Defs[c], o)]]

SameContract(c, e) ==
  /\ Dependencies[c] = Dependencies[e]
  /\ \A t \in Tables : Defs[c].tables[t].shape = Defs[e].tables[t].shape

(* What the hashes are for: they differ exactly where the contracts do. *)
HashesTell == \A c, e \in Contracts : Hashes[c] = Hashes[e] <=> SameContract(c, e)

Behind(i) == Past(i) \intersect behind

(* Two releases with the same major and minor version define the same contract, what any
   operation depends on and the tables, unless between them a branch was merged that did not
   contain main: two branches may each raise the minor version of the same main. *)
MinorTellsContract ==
  \A i, j \in Released :
    Behind(i) = Behind(j) /\ SubSeq(Version(i), 1, 2) = SubSeq(Version(j), 1, 2)
      => SameContract(commits[i].contract, commits[j].contract)

(* The hashes tell contracts apart, and a client that has pinned the hash of an operation, or of
   a resource, is refused exactly when something it depends on has changed between two releases. *)
PinsTellDependencies ==
  HashesTell /\ \A i, j \in Released :
    LET c == commits[i].contract e == commits[j].contract
        pinned == get_version(i).hashes now == get_version(j).hashes
        Same(o) == Dependencies[c][o] = Dependencies[e][o]
    IN  /\ \A r \in Resources :
             (pinned.api[r] = now.api[r]) = \A m \in Methods : Same(<<r, m>>)
        /\ \A o \in Operations : (pinned.api_method[o] = now.api_method[o]) = Same(o)

(* No commit has a lower version than one before it, whatever was staged or merged. *)
NeverDowngrades ==
  \A i \in Ids : \A j \in commits[i].past : ~Less(Version(i), Version(j))

(* The pre-push hook makes a commit of its own only if the contract differs, beyond its
   documentation, from that of a baseline, or a hash file in question was merged by git. *)
NoIdleBump ==
  [][\A d \in Developers, branch \in Branches :
       PrePush(d, branch) /\ commits' # commits =>
         \E b \in {known'[d]} \union from_refs(d, branch) :
           \/ ~check_hashes(b) \/ ~check_hashes(head[d])
           \/ ~SameContract(commits[b].contract, commits[head[d]].contract)]_vars
=============================================================================

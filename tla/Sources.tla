------------------------------- MODULE Sources -------------------------------
(***************************************************************************)
(* The source a recipe locks, on its way into a worktree (workspace.py,      *)
(* remote.py, runner.py).  A run resolves the revision in the controller's    *)
(* cache, packs it into a bundle and stages the bundle; its worker resolves   *)
(* it again in the worker's cache, from the bundle, and makes a worktree for  *)
(* the baseline and one for the candidate.  Runs share both caches under a    *)
(* lock; any git command may fail, be killed when its time is up, or go on    *)
(* after the death of the process that started it.                            *)
(***************************************************************************)
EXTENDS Integers, FiniteSets

CONSTANTS
    Runs,        \* the runs that use the source
    Revisions,   \* the object names that recipes lock
    Tags,        \* the revisions that name a tag object instead of a commit
    MaxFaults,   \* bound on commands cut off, processes killed and refs rewritten
    Nil          \* no value

ASSUME TagsAssumption == Tags \subseteq Revisions
ASSUME FaultsAssumption == MaxFaults \in Nat
ASSUME NilAssumption == Nil \notin Runs \cup Revisions \cup {"repository", "baseline", "candidate"}

VARIABLES
    locked,      \* per run: the revision its recipe locks
    upstream,    \* per revision: how the repository still serves it
    cache,       \* per side: the cached clone
    lock,        \* per side: who holds the lock of the cache
    orphans,     \* per side: git commands whose process is gone
    st,          \* per run: where it is
    bundle,      \* per run: what its bundle holds
    made,        \* per run and role: what its worktree was made from
    disturbed,   \* per side: a command was cut off, or a process killed
    faults

sourcesVars == <<locked, upstream, cache, lock, orphans, st, bundle, made, disturbed, faults>>

Hosts == {"controller", "worker"}
Roles == {"baseline", "candidate"}

\* The commit that rev^{commit} gives.
Peel(rev) == IF rev \in Tags THEN <<"commit", rev>> ELSE rev

\* A clone: whether its directory is there, what its origin is, and of each
\* revision whether its objects are all there, or only some ("torn").
NoClone == [there |-> FALSE, origin |-> Nil, has |-> [rev \in Revisions |-> "absent"]]

Clones ==
    [there : BOOLEAN, origin : Runs \cup {"repository", Nil},
     has : [Revisions -> {"absent", "torn", "whole"}]]

Resolves(c, rev) == c.has[rev] # "absent"

(***************************************************************************)
(* Where a fetch goes: the repository, or on the worker's side the bundle.   *)
(***************************************************************************)
Side(r) == st[r].side
Transport(r) == IF Side(r) = "controller" THEN "repository" ELSE r

\* What the declared ref leads to, and what is given out by its name.
OfRef(r) ==
    IF Side(r) = "controller" THEN {rev \in Revisions : upstream[rev] = "ref"} ELSE {bundle[r]}
ByName(r) ==
    IF Side(r) = "controller" THEN {rev \in Revisions : upstream[rev] # "gone"} ELSE {bundle[r]}

\* A fetch that ended well, and one that was cut off while it unpacked.
Fetched(c, revs) == [c EXCEPT !.has = [rev \in Revisions |-> IF rev \in revs THEN "whole" ELSE @[rev]]]
Torn(c, revs) ==
    [c EXCEPT !.has = [rev \in Revisions |->
        IF rev \in revs /\ @[rev] = "absent" THEN "torn" ELSE @[rev]]]

(***************************************************************************)
(* The steps of a run.                                                      *)
(***************************************************************************)
SourcesInit ==
    /\ locked \in [Runs -> Revisions]
    /\ upstream = [rev \in Revisions |-> IF rev \in Tags THEN "name" ELSE "ref"]
    /\ cache = [s \in Hosts |-> NoClone]
    /\ lock = [s \in Hosts |-> Nil]
    /\ orphans = [s \in Hosts |-> {}]
    /\ st = [r \in Runs |-> [pc |-> "flock", side |-> "controller", role |-> Nil, existed |-> FALSE]]
    /\ bundle = [r \in Runs |-> Nil]
    /\ made = [r \in Runs |-> [role \in Roles |-> Nil]]
    /\ disturbed = [s \in Hosts |-> FALSE]
    /\ faults = 0

At(r, pc) == st[r].pc = pc
Goto(r, pc) == st' = [st EXCEPT ![r].pc = pc]

\* Where the lock of the cache is held.
Inside == {"clone", "cloning", "receiving", "origin", "resolve", "fetch_ref",
           "fetch_revision", "check"}

Ended == {"command", "cache", "revision", "interrupted", "killed", "done"}

TypeOK ==
    /\ locked \in [Runs -> Revisions]
    /\ upstream \in [Revisions -> {"ref", "name", "gone"}]
    /\ cache \in [Hosts -> Clones]
    /\ lock \in [Hosts -> Runs \cup {Nil}]
    /\ orphans \in [Hosts -> SUBSET [by : Runs, at : Inside]]
    /\ st \in [Runs -> [pc : Inside \cup Ended \cup {"flock", "pack", "stage", "worktree"},
                        side : Hosts, role : Roles \cup {Nil}, existed : BOOLEAN]]
    /\ bundle \in [Runs -> Revisions \cup {Nil}]
    /\ made \in [Runs -> [Roles -> {Peel(rev) : rev \in Revisions} \cup {Nil}]]
    /\ disturbed \in [Hosts -> BOOLEAN]
    /\ faults \in 0..MaxFaults

\* A run that fails says why: a "command" could not do it, the "cache" was of no
\* use, the "revision" is not the locked one, or a command was "interrupted".
EndRun(r, why) ==
    /\ st' = [st EXCEPT ![r] = [pc |-> why, side |-> Side(r), role |-> Nil, existed |-> FALSE]]
    /\ lock' = [s \in Hosts |-> IF lock[s] = r THEN Nil ELSE lock[s]]

\* Slip: the lock stays behind when the preparation fails.
EndRunHolding(r, why) ==
    /\ st' = [st EXCEPT ![r] = [pc |-> why, side |-> Side(r), role |-> Nil, existed |-> FALSE]]
    /\ lock' = lock

Fail(r, why) == EndRun(r, why)

Unchanging == UNCHANGED <<locked, upstream, orphans, disturbed, faults>>

\* Slip: two preparations in one cache.
FlockShared(r) ==
    /\ At(r, "flock")
    /\ lock' = [lock EXCEPT ![Side(r)] = r]
    /\ st' = [st EXCEPT ![r].existed = cache[Side(r)].there,
                        ![r].pc = IF cache[Side(r)].there THEN "origin" ELSE "clone"]
    /\ Unchanging /\ UNCHANGED <<cache, bundle, made>>

\* flock blocks without a deadline.
Flock(r) ==
    /\ At(r, "flock")
    /\ lock[Side(r)] = Nil
    /\ lock' = [lock EXCEPT ![Side(r)] = r]
    /\ st' = [st EXCEPT ![r].existed = cache[Side(r)].there,
                        ![r].pc = IF cache[Side(r)].there THEN "origin" ELSE "clone"]
    /\ Unchanging /\ UNCHANGED <<cache, bundle, made>>

\* git clone makes the directory, configures its origin, and then the objects
\* and the ref come at once.
CloneStarts(r) ==
    /\ At(r, "clone")
    /\ cache' = [cache EXCEPT ![Side(r)].there = TRUE]
    /\ Goto(r, "cloning")
    /\ Unchanging /\ UNCHANGED <<lock, bundle, made>>

CloneConfigures(r) ==
    /\ At(r, "cloning")
    /\ cache' = [cache EXCEPT ![Side(r)].origin = Transport(r)]
    /\ Goto(r, "receiving")
    /\ Unchanging /\ UNCHANGED <<lock, bundle, made>>

\* A clone that fails by itself removes what it made.
CloneEnds(r) ==
    /\ At(r, "receiving")
    /\ \/ /\ cache' = [cache EXCEPT ![Side(r)] = Fetched(@, OfRef(r))]
          /\ Goto(r, "origin")
          /\ UNCHANGED lock
       \/ /\ cache' = [cache EXCEPT ![Side(r)] = NoClone]
          /\ Fail(r, "command")
    /\ Unchanging /\ UNCHANGED <<bundle, made>>

\* The origin must be the one to fetch from; a transport is put in its place.
Origin(r) ==
    /\ At(r, "origin")
    /\ LET c == cache[Side(r)]
       IN  IF c.origin = Nil \/ (c.origin # Transport(r) /\ Side(r) = "controller")
           THEN Fail(r, "cache") /\ UNCHANGED cache
           ELSE /\ cache' = [cache EXCEPT ![Side(r)].origin = Transport(r)]
                /\ Goto(r, "resolve")
                /\ UNCHANGED lock
    /\ Unchanging /\ UNCHANGED <<bundle, made>>

\* A hit is a cache that was there and knows the revision.  A rev-parse that
\* fails, or takes too long, is a miss.
Resolve(r) ==
    /\ At(r, "resolve")
    /\ \/ /\ st[r].existed
          /\ Resolves(cache[Side(r)], locked[r])
          /\ Goto(r, "check")
       \/ Goto(r, "fetch_ref")
    /\ Unchanging /\ UNCHANGED <<cache, lock, bundle, made>>

FetchRef(r) ==
    /\ At(r, "fetch_ref")
    /\ \/ /\ cache[Side(r)].there
          /\ cache' = [cache EXCEPT ![Side(r)] = Fetched(@, OfRef(r))]
          /\ Goto(r, IF Resolves(cache'[Side(r)], locked[r]) THEN "check" ELSE "fetch_revision")
          /\ UNCHANGED lock
       \/ Fail(r, "command") /\ UNCHANGED cache
    /\ Unchanging /\ UNCHANGED <<bundle, made>>

FetchRevision(r) ==
    /\ At(r, "fetch_revision")
    /\ \/ /\ cache[Side(r)].there
          /\ locked[r] \in ByName(r)
          /\ cache' = [cache EXCEPT ![Side(r)] = Fetched(@, {locked[r]})]
          /\ Goto(r, "check")
          /\ UNCHANGED lock
       \/ Fail(r, "command") /\ UNCHANGED cache
    /\ Unchanging /\ UNCHANGED <<bundle, made>>

\* What the preparation was for: a bundle, or a worktree of the role.
Prepared(r) ==
    /\ Goto(r, IF Side(r) = "controller" THEN "pack" ELSE "worktree")
    /\ lock' = [lock EXCEPT ![Side(r)] = Nil]

\* The resolved commit must be the locked revision itself.
Check(r) ==
    /\ At(r, "check")
    /\ IF Peel(locked[r]) = locked[r] THEN Prepared(r) ELSE Fail(r, "revision")
    /\ Unchanging /\ UNCHANGED <<cache, bundle, made>>

\* create_source_bundle, with no lock: a bare clone beside the cache, the pinned
\* ref, the bundle, and a look at its head.
Pack(r) ==
    /\ At(r, "pack")
    /\ IF cache["controller"].has[locked[r]] # "whole"
       THEN Fail(r, "cache") /\ UNCHANGED bundle
       ELSE \/ /\ bundle' = [bundle EXCEPT ![r] = locked[r]]
               /\ Goto(r, "stage") /\ UNCHANGED lock
            \/ Fail(r, "command") /\ UNCHANGED bundle
    /\ Unchanging /\ UNCHANGED <<cache, made>>

\* A new file on the other side; its digest must be that of the bundle.  The
\* worker then prepares the source for the baseline.
Stage(r) ==
    /\ At(r, "stage")
    /\ \/ /\ st' = [st EXCEPT ![r].pc = "flock", ![r].side = "worker", ![r].role = "baseline"]
          /\ UNCHANGED lock
       \/ Fail(r, "command")
    /\ Unchanging /\ UNCHANGED <<cache, bundle, made>>

\* The worktree of a role, checked out and with its submodules; after that of
\* the baseline the source is prepared once more for the candidate.
Worktree(r) ==
    /\ At(r, "worktree")
    /\ IF cache["worker"].has[locked[r]] # "whole"
       THEN Fail(r, "cache") /\ UNCHANGED made
       ELSE \/ /\ made' = [made EXCEPT ![r][st[r].role] = Peel(locked[r])]
               /\ st' = [st EXCEPT ![r].pc = IF st[r].role = "baseline" THEN "flock" ELSE "done",
                                   ![r].existed = FALSE,
                                   ![r].role = IF @ = "baseline" THEN "candidate" ELSE Nil]
               /\ UNCHANGED lock
            \/ Fail(r, "command") /\ UNCHANGED made
    /\ Unchanging /\ UNCHANGED <<cache, bundle>>

(***************************************************************************)
(* Faults.                                                                  *)
(***************************************************************************)
Receives == {"fetch_ref", "fetch_revision"}
Commands == {"cloning", "receiving", "origin", "fetch_ref", "fetch_revision",
             "pack", "stage", "worktree"}

\* What a fetch that is cut off may have unpacked.
CutOff(r, c) ==
    CASE At(r, "fetch_ref")      -> {c, Torn(c, OfRef(r))}
      [] At(r, "fetch_revision") -> {c, Torn(c, {locked[r]} \cap ByName(r))}
      [] OTHER                   -> {c}

Fault(s) ==
    /\ faults < MaxFaults
    /\ faults' = faults + 1
    /\ disturbed' = [disturbed EXCEPT ![s] = TRUE]

\* The time of a command is up: it is killed where it is, and cleans nothing.
TimesOut(r) ==
    /\ st[r].pc \in Commands
    /\ Fault(Side(r))
    /\ \E c \in CutOff(r, cache[Side(r)]) : cache' = [cache EXCEPT ![Side(r)] = c]
    /\ Fail(r, "interrupted")
    /\ UNCHANGED <<locked, upstream, orphans, bundle, made>>

\* The process of the run is killed.  Its git command goes on.
Killed(r) ==
    /\ st[r].pc \notin Ended
    /\ Fault(Side(r))
    /\ orphans' = [orphans EXCEPT ![Side(r)] = IF st[r].pc \in {"cloning", "receiving"} \cup Receives
                                               THEN @ \cup {[by |-> r, at |-> st[r].pc]} ELSE @]
    /\ EndRun(r, "killed")
    /\ UNCHANGED <<locked, upstream, cache, bundle, made>>

\* Such a command ends: a clone configures and fills what is there, or removes
\* it, and a fetch adds the revision.  Or it dies too.
OrphanEnds(s, o) ==
    /\ \/ /\ cache[s].there
          /\ LET r == o.by
                 c == IF o.at = "cloning" THEN [cache[s] EXCEPT !.origin = Transport(r)] ELSE cache[s]
             IN  cache' = [cache EXCEPT ![s] = Fetched(c, OfRef(r) \cup
                               (IF o.at = "fetch_revision" THEN {locked[r]} \cap ByName(r) ELSE {}))]
       \/ o.at \in {"cloning", "receiving"} /\ cache' = [cache EXCEPT ![s] = NoClone]
       \/ o.at \in Receives /\ cache' = [cache EXCEPT ![s] = Torn(@, {locked[o.by]})]
       \/ UNCHANGED cache
    /\ orphans' = [orphans EXCEPT ![s] = @ \ {o}]
    /\ UNCHANGED <<locked, upstream, lock, st, bundle, made, disturbed, faults>>

\* The repository moves on: the ref no longer leads to a revision, and one that
\* nothing leads to may go.
Rewritten(rev) ==
    /\ upstream[rev] # "gone"
    /\ faults < MaxFaults
    /\ faults' = faults + 1
    /\ upstream' = [upstream EXCEPT ![rev] = IF @ = "ref" THEN "name" ELSE "gone"]
    /\ UNCHANGED <<locked, cache, lock, orphans, st, bundle, made, disturbed>>

Step(r) ==
    \/ Flock(r)
    \/ CloneStarts(r) \/ CloneConfigures(r) \/ CloneEnds(r)
    \/ Origin(r) \/ Resolve(r) \/ FetchRef(r) \/ FetchRevision(r) \/ Check(r)
    \/ Pack(r) \/ Stage(r) \/ Worktree(r)

SourcesNext ==
    \/ \E r \in Runs : Step(r) \/ TimesOut(r) \/ Killed(r)
    \/ \E s \in Hosts : \E o \in orphans[s] : OrphanEnds(s, o)
    \/ \E rev \in Revisions : Rewritten(rev)

SourcesSpec == SourcesInit /\ [][SourcesNext]_sourcesVars /\ \A r \in Runs : WF_sourcesVars(Step(r))

(***************************************************************************)
(* Properties.                                                              *)
(***************************************************************************)
\* Every worktree, the baseline's like the candidate's, is made from the locked
\* commit and nothing else, whatever the ref led to, whatever the shared caches
\* went through, and whichever way the objects came; and a run fails for the
\* sake of its cache only if a command or a process was cut off on that side
\* before: other runs and moving refs do not spoil it.
\* (workspace.py prepare_git_source, create_source_bundle, create_source_worktree)
SourcesAreLocked ==
    /\ TypeOK
    /\ \A r \in Runs, role \in Roles :
           made[r][role] # Nil => made[r][role] = locked[r]
    /\ \A r \in Runs : At(r, "done") => \A role \in Roles : made[r][role] # Nil
    /\ \A r \in Runs : At(r, "cache") => disturbed[Side(r)]

\* Every run gets or loses its source: nobody waits for a lock for ever.
SourcesEnd == \A r \in Runs : <>(st[r].pc \in Ended)
=============================================================================

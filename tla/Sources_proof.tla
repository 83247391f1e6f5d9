---------------------------- MODULE Sources_proof ----------------------------
(* The safety of Sources, for any runs, revisions and number of faults.      *)
EXTENDS Sources, TLAPS

-----------------------------------------------------------------------------
(* The inductive invariant                                                   *)

\* One run at a time works in a cache.
Excluded == \A r \in Runs : st[r].pc \in Inside => lock[Side(r)] = r

\* On its way through the worker a run has a role, and a worktree of each role
\* it is done with; no revision but a commit came through the check.
Placed ==
    \A r \in Runs :
        /\ st[r].pc \in {"pack", "stage"} => Side(r) = "controller"
        /\ At(r, "worktree") => Side(r) = "worker"
        /\ st[r].pc \notin Ended => (Side(r) = "worker" <=> st[r].role \in Roles)
        /\ At(r, "worktree") => Peel(locked[r]) = locked[r]
        /\ st[r].role = "candidate" => made[r]["baseline"] # Nil

OriginFits(s) == cache[s].origin # Nil /\ (s = "controller" => cache[s].origin = "repository")
Empty(s) == \A rev \in Revisions : cache[s].has[rev] = "absent"

\* A cache in which nothing was cut off has whole objects only, which its clone
\* brought with the right origin, and those a run looked for stay in it.
Sound(s) ==
    /\ orphans[s] = {}
    /\ \A rev \in Revisions : cache[s].has[rev] # "torn"
    /\ ~cache[s].there => Empty(s)
    /\ cache[s].there => OriginFits(s) \/ \E r \in Runs : Side(r) = s /\ At(r, "cloning")
    /\ \A r \in Runs : Side(r) = s =>
         /\ At(r, "clone") => ~cache[s].there
         /\ At(r, "cloning") => cache[s].there /\ Empty(s)
         /\ At(r, "receiving") => cache[s].there /\ Empty(s)
         /\ st[r].pc \in Inside \ {"clone", "cloning", "receiving"} => cache[s].there
         /\ st[r].pc \in {"check", "pack", "worktree"} => cache[s].has[locked[r]] = "whole"

IInv ==
    /\ SourcesAreLocked /\ Excluded /\ Placed
    /\ \A s \in Hosts : ~disturbed[s] => Sound(s)

-----------------------------------------------------------------------------
(* Types                                                                     *)

Places == Inside \cup Ended \cup {"flock", "pack", "stage", "worktree"}
Trees == [Roles -> {Peel(rev) : rev \in Revisions} \cup {Nil}]
Walks == [pc : Places, side : Hosts, role : Roles \cup {Nil}, existed : BOOLEAN]

-----------------------------------------------------------------------------
(* What the updates of the actions build                                     *)

\* A run that goes on, goes on to a place.
LEMMA Walking ==
  ASSUME NEW r \in Runs, st \in [Runs -> Walks]
  PROVE  /\ \A pc \in Places : [st EXCEPT ![r].pc = pc] \in [Runs -> Walks]
         /\ \A pc \in Places, e \in BOOLEAN :
              [st EXCEPT ![r].existed = e, ![r].pc = pc] \in [Runs -> Walks]
  BY DEF Walks

\* The clone before git clone.
LEMMA NoCloneFacts ==
  /\ NoClone \in Clones /\ NoClone.there = FALSE
  /\ \A rev \in Revisions : NoClone.has[rev] = "absent"
  BY DEF Clones, NoClone

\* A fetch adds what it was to bring.
LEMMA Fetching ==
  ASSUME NEW c \in Clones, NEW revs
  PROVE  /\ Fetched(c, revs) \in Clones
         /\ Fetched(c, revs).there = c.there /\ Fetched(c, revs).origin = c.origin
         /\ \A rev \in Revisions :
              Fetched(c, revs).has[rev] = IF rev \in revs THEN "whole" ELSE c.has[rev]
  BY DEF Clones, Fetched

\* One that is cut off leaves a clone, too.
LEMMA Tearing ==
  ASSUME NEW c \in Clones, NEW revs
  PROVE  Torn(c, revs) \in Clones
  BY DEF Clones, Torn

\* A run that ends keeps its side, and holds no lock.
LEMMA Ending ==
  ASSUME TypeOK, NEW r \in Runs, NEW why \in Ended, EndRun(r, why)
  PROVE  /\ st' \in [Runs -> Walks] /\ lock' \in [Hosts -> Runs \cup {Nil}]
         /\ \A x \in Runs \ {r} : st'[x] = st[x]
         /\ st'[r].pc = why /\ st'[r].side = st[r].side /\ st'[r].role = Nil
         /\ \A s \in Hosts : lock[s] # r => lock'[s] = lock[s]
  BY DEF TypeOK, EndRun, Side, Walks, Places

-----------------------------------------------------------------------------
(* Type correctness                                                          *)

LEMMA TypeInit == SourcesInit => TypeOK
  BY FaultsAssumption, NoCloneFacts DEF SourcesInit, TypeOK, Hosts, Roles, Inside, Ended

\* The steps of the runs keep the types.
LEMMA TypeSteps ==
  ASSUME TypeOK, NEW r \in Runs, Step(r)
  PROVE  TypeOK'
<1> USE DEF Unchanging, Fail
<1>s. Side(r) \in Hosts /\ st \in [Runs -> Walks] /\ cache[Side(r)] \in Clones
      /\ Transport(r) \in Runs \cup {"repository"}
      /\ cache \in [Hosts -> Clones] /\ lock \in [Hosts -> Runs \cup {Nil}]
      /\ bundle \in [Runs -> Revisions \cup {Nil}] /\ locked[r] \in Revisions
      /\ made \in [Runs -> Trees]
  BY DEF TypeOK, Walks, Places, Side, Transport, Trees
<1>f. \A revs : Fetched(cache[Side(r)], revs) \in Clones
  BY <1>s, Fetching
<1>e. ASSUME NEW why \in Ended, EndRun(r, why)
      PROVE  st' \in [Runs -> Walks] /\ lock' \in [Hosts -> Runs \cup {Nil}]
  BY <1>e, Ending
<1>g. ASSUME NEW pc \in Places, Goto(r, pc)
      PROVE  st' \in [Runs -> Walks]
  BY <1>g, <1>s, Walking DEF Goto
<1>p. {"flock", "clone", "cloning", "receiving", "origin", "resolve", "fetch_ref",
       "fetch_revision", "check", "pack", "stage", "worktree"} \subseteq Places
      /\ {"command", "cache", "revision"} \subseteq Ended
  BY DEF Places, Inside, Ended
<1>t. ASSUME st' \in [Runs -> Walks], lock' \in [Hosts -> Runs \cup {Nil}],
             cache' \in [Hosts -> Clones], bundle' \in [Runs -> Revisions \cup {Nil}],
             made' \in [Runs -> Trees], Unchanging
      PROVE  TypeOK'
  BY <1>t DEF TypeOK, Walks, Places, Trees
<1>1. CASE Flock(r)
  <2>1. /\ st' \in [Runs -> Walks]
    BY <1>1, <1>s, <1>p, Walking DEF Flock, Clones
  <2>2. lock' \in [Hosts -> Runs \cup {Nil}]
    BY <1>1, <1>s DEF Flock, TypeOK
  <2> QED
    BY <1>1, <2>1, <2>2, <1>s, <1>t DEF Flock
<1>2. CASE CloneStarts(r)
  <2>1. st' \in [Runs -> Walks]
    BY <1>2, <1>s, <1>p, <1>g DEF CloneStarts
  <2>2. cache' \in [Hosts -> Clones]
    BY <1>2, <1>s DEF CloneStarts, Clones
  <2> QED
    BY <1>2, <2>1, <2>2, <1>s, <1>t DEF CloneStarts
<1>3. CASE CloneConfigures(r)
  <2>1. st' \in [Runs -> Walks]
    BY <1>3, <1>s, <1>p, <1>g DEF CloneConfigures
  <2>2. cache' \in [Hosts -> Clones]
    BY <1>3, <1>s DEF CloneConfigures, Clones
  <2> QED
    BY <1>3, <2>1, <2>2, <1>s, <1>t DEF CloneConfigures
<1>4. CASE CloneEnds(r)
  <2>1. cache' \in [Hosts -> Clones]
    BY <1>4, <1>s, <1>f, NoCloneFacts DEF CloneEnds
  <2>2. st' \in [Runs -> Walks] /\ lock' \in [Hosts -> Runs \cup {Nil}]
    BY <1>4, <1>s, <1>p, <1>g, <1>e DEF CloneEnds
  <2> QED
    BY <1>4, <2>1, <2>2, <1>s, <1>t DEF CloneEnds
<1>5. CASE Origin(r)
  <2>1. cache' \in [Hosts -> Clones]
    BY <1>5, <1>s DEF Origin, Clones
  <2>2. st' \in [Runs -> Walks] /\ lock' \in [Hosts -> Runs \cup {Nil}]
    BY <1>5, <1>s, <1>p, <1>g, <1>e DEF Origin
  <2> QED
    BY <1>5, <2>1, <2>2, <1>s, <1>t DEF Origin
<1>6. CASE Resolve(r)
  <2>1. st' \in [Runs -> Walks]
    BY <1>6, <1>s, <1>p, <1>g DEF Resolve
  <2> QED
    BY <1>6, <2>1, <1>s, <1>t DEF Resolve
<1>7. CASE FetchRef(r)
  <2>1. cache' \in [Hosts -> Clones]
    BY <1>7, <1>s, <1>f DEF FetchRef
  <2>2. st' \in [Runs -> Walks] /\ lock' \in [Hosts -> Runs \cup {Nil}]
    BY <1>7, <1>s, <1>p, <1>g, <1>e DEF FetchRef
  <2> QED
    BY <1>7, <2>1, <2>2, <1>s, <1>t DEF FetchRef
<1>8. CASE FetchRevision(r)
  <2>1. cache' \in [Hosts -> Clones]
    BY <1>8, <1>s, <1>f DEF FetchRevision
  <2>2. st' \in [Runs -> Walks] /\ lock' \in [Hosts -> Runs \cup {Nil}]
    BY <1>8, <1>s, <1>p, <1>g, <1>e DEF FetchRevision
  <2> QED
    BY <1>8, <2>1, <2>2, <1>s, <1>t DEF FetchRevision
<1>9. CASE Check(r)
  <2>1. st' \in [Runs -> Walks] /\ lock' \in [Hosts -> Runs \cup {Nil}]
    BY <1>9, <1>s, <1>p, <1>g, <1>e DEF Check, Prepared
  <2> QED
    BY <1>9, <2>1, <1>s, <1>t DEF Check
<1>10. CASE Pack(r)
  <2>1. st' \in [Runs -> Walks] /\ lock' \in [Hosts -> Runs \cup {Nil}]
    BY <1>10, <1>s, <1>p, <1>g, <1>e DEF Pack
  <2>2. bundle' \in [Runs -> Revisions \cup {Nil}]
    BY <1>10, <1>s DEF Pack
  <2> QED
    BY <1>10, <2>1, <2>2, <1>s, <1>t DEF Pack
<1>11. CASE Stage(r)
  <2> DEFINE w == [st[r] EXCEPT !.pc = "flock", !.side = "worker", !.role = "baseline"]
  <2>a. w \in Walks
    BY <1>s, <1>p DEF Walks, Hosts, Roles
  <2>1. [st EXCEPT ![r].pc = "flock", ![r].side = "worker", ![r].role = "baseline"] \in [Runs -> Walks]
    BY <1>s, <2>a
  <2>2. st' \in [Runs -> Walks] /\ lock' \in [Hosts -> Runs \cup {Nil}]
    BY <1>11, <2>1, <1>s, <1>p, <1>e DEF Stage
  <2> QED
    BY <1>11, <2>2, <1>s, <1>t DEF Stage
<1>12. CASE Worktree(r)
  <2> DEFINE w == [st[r] EXCEPT !.pc = IF st[r].role = "baseline" THEN "flock" ELSE "done",
                               !.existed = FALSE,
                               !.role = IF @ = "baseline" THEN "candidate" ELSE Nil]
  <2>a. w \in Walks
    BY <1>s DEF Walks, Roles, Places, Ended
  <2>1. [st EXCEPT ![r].pc = IF st[r].role = "baseline" THEN "flock" ELSE "done",
                   ![r].existed = FALSE,
                   ![r].role = IF @ = "baseline" THEN "candidate" ELSE Nil] \in [Runs -> Walks]
    BY <1>s, <2>a
  <2>2. st' \in [Runs -> Walks] /\ lock' \in [Hosts -> Runs \cup {Nil}]
    BY <1>12, <2>1, <1>s, <1>p, <1>e DEF Worktree
  <2>3. \A role : [made EXCEPT ![r][role] = Peel(locked[r])] \in [Runs -> Trees]
    BY <1>s DEF Trees
  <2> HIDE DEF w
  <2>4. made' = [made EXCEPT ![r][st[r].role] = Peel(locked[r])] \/ made' = made
    BY <1>12 DEF Worktree
  <2>5. made \in [Runs -> Trees]
    BY <1>s
  <2>6. made' \in [Runs -> Trees]
    BY <2>3, <2>4, <2>5
  <2> QED
    BY <1>12, <2>2, <2>6, <1>s, <1>t DEF Worktree
<1> QED
  BY <1>1, <1>2, <1>3, <1>4, <1>5, <1>6, <1>7, <1>8, <1>9, <1>10, <1>11, <1>12 DEF Step

\* So do the faults.
LEMMA TypeFaults ==
  ASSUME TypeOK,
         \/ \E r \in Runs : TimesOut(r) \/ Killed(r)
         \/ \E s \in Hosts : \E o \in orphans[s] : OrphanEnds(s, o)
         \/ \E rev \in Revisions : Rewritten(rev)
  PROVE  TypeOK'
<1>1. ASSUME NEW s \in Hosts, Fault(s)
      PROVE  faults' \in 0..MaxFaults /\ disturbed' \in [Hosts -> BOOLEAN]
  BY <1>1, FaultsAssumption DEF Fault, TypeOK
<1>2. ASSUME NEW r \in Runs, TimesOut(r) PROVE TypeOK'
  <2>s. Side(r) \in Hosts /\ cache[Side(r)] \in Clones
    BY DEF TypeOK, Side
  <2>1. CutOff(r, cache[Side(r)]) \subseteq Clones
    BY <2>s, Tearing DEF CutOff
  <2>2. cache' \in [Hosts -> Clones]
    BY <1>2, <2>s, <2>1 DEF TimesOut, TypeOK
  <2>3. st' \in [Runs -> Walks] /\ lock' \in [Hosts -> Runs \cup {Nil}]
    BY <1>2, Ending DEF TimesOut, Fail, Ended
  <2> QED
    BY <1>2, <1>1, <2>s, <2>2, <2>3 DEF TimesOut, TypeOK, Walks, Places
<1>3. ASSUME NEW r \in Runs, Killed(r) PROVE TypeOK'
  <2>s. Side(r) \in Hosts
    BY DEF TypeOK, Side
  <2>1. orphans' \in [Hosts -> SUBSET [by : Runs, at : Inside]]
    BY <1>3, <2>s DEF Killed, TypeOK, Inside, Receives
  <2>2. st' \in [Runs -> Walks] /\ lock' \in [Hosts -> Runs \cup {Nil}]
    BY <1>3, Ending DEF Killed, Ended
  <2> QED
    BY <1>3, <1>1, <2>s, <2>1, <2>2 DEF Killed, TypeOK, Walks, Places
<1>4. ASSUME NEW s \in Hosts, NEW o \in orphans[s], OrphanEnds(s, o) PROVE TypeOK'
  <2>1. o.by \in Runs /\ cache[s] \in Clones /\ Transport(o.by) \in Runs \cup {"repository"}
    BY DEF TypeOK, Transport
  <2>2. [cache[s] EXCEPT !.origin = Transport(o.by)] \in Clones
    BY <2>1 DEF Clones
  <2>f. \A c \in Clones : \A revs :
             Fetched(c, revs) \in Clones /\ Torn(c, revs) \in Clones
    BY Fetching, Tearing
  <2>c. cache \in [Hosts -> Clones]
    BY DEF TypeOK
  <2>3. cache' \in [Hosts -> Clones]
    BY <1>4, <2>1, <2>2, <2>f, <2>c, NoCloneFacts DEF OrphanEnds
  <2>4. orphans' \in [Hosts -> SUBSET [by : Runs, at : Inside]]
    BY <1>4 DEF OrphanEnds, TypeOK
  <2> QED
    BY <1>4, <2>3, <2>4 DEF OrphanEnds, TypeOK
<1>5. ASSUME NEW rev \in Revisions, Rewritten(rev) PROVE TypeOK'
  BY <1>5, FaultsAssumption DEF Rewritten, TypeOK
<1> QED
  BY <1>2, <1>3, <1>4, <1>5

LEMMA TypeNext == TypeOK /\ [SourcesNext]_sourcesVars => TypeOK'
<1>1. TypeOK /\ UNCHANGED sourcesVars => TypeOK'
  BY DEF TypeOK, sourcesVars
<1> QED
  BY <1>1, TypeSteps, TypeFaults DEF SourcesNext

-----------------------------------------------------------------------------
(* One run at a time                                                         *)

\* What a step of one run does to the others: nothing.
LEMMA OthersStay ==
  ASSUME TypeOK, NEW r \in Runs, Step(r) \/ TimesOut(r) \/ Killed(r)
  PROVE  \A x \in Runs \ {r} : st'[x] = st[x]
<1>1. CASE \E why \in Ended : EndRun(r, why)
  BY <1>1, Ending
<1>2. CASE \E pc \in Places : Goto(r, pc)
  BY <1>2 DEF Goto, TypeOK
<1>3. CASE Flock(r) \/ CloneStarts(r) \/ CloneConfigures(r) \/ CloneEnds(r) \/ Origin(r) \/ Resolve(r)
  BY <1>1, <1>2, <1>3 DEF Flock, CloneStarts, CloneConfigures, CloneEnds, Origin, Resolve,
     Fail, Ended, Places, Inside, TypeOK
<1>4. CASE FetchRef(r) \/ FetchRevision(r) \/ Check(r)
  BY <1>1, <1>2, <1>4 DEF FetchRef, FetchRevision, Check, Prepared, Fail, Ended, Places, Inside
<1>5. CASE Pack(r) \/ Stage(r) \/ Worktree(r)
  BY <1>1, <1>2, <1>5 DEF Pack, Stage, Worktree, Fail, Ended, Places, Inside, TypeOK
<1>6. CASE TimesOut(r) \/ Killed(r)
  BY <1>1, <1>6 DEF TimesOut, Killed, Fail, Ended
<1> QED
  BY <1>3, <1>4, <1>5, <1>6 DEF Step

LEMMA ExcludedNext ==
  ASSUME TypeOK, Excluded, SourcesNext
  PROVE  Excluded'
<1>n. Nil \notin Runs
  BY NilAssumption
<1>1. ASSUME NEW r \in Runs, NEW why \in Ended, EndRun(r, why) PROVE Excluded'
  BY <1>1 DEF EndRun, Excluded, TypeOK, Side, Ended, Inside
<1>2. ASSUME NEW r \in Runs, Step(r) PROVE Excluded'
  <2>1. CASE Flock(r)
    BY <2>1, <1>n DEF Flock, Excluded, TypeOK, Side, Inside, At
  <2>2. CASE \E why \in Ended : EndRun(r, why)
    BY <2>2, <1>1
  <2>3. CASE /\ \A why \in Ended : ~EndRun(r, why)
             /\ \/ CloneStarts(r) \/ CloneConfigures(r) \/ CloneEnds(r) \/ Origin(r)
                \/ Resolve(r) \/ FetchRef(r) \/ FetchRevision(r)
    <3>1. st[r].pc \in Inside /\ lock' = lock
          /\ \E pc \in Inside : st' = [st EXCEPT ![r].pc = pc]
      BY <2>3 DEF CloneStarts, CloneConfigures, CloneEnds, Origin, Resolve, FetchRef,
         FetchRevision, Goto, Fail, Ended, Inside, At
    <3> QED
      BY <3>1 DEF Excluded, TypeOK, Side
  <2>4. CASE /\ \A why \in Ended : ~EndRun(r, why)
             /\ Check(r)
    <3>1. Prepared(r) /\ st[r].pc \in Inside
      BY <2>4 DEF Check, Fail, Ended, Inside, At
    <3> QED
      BY <3>1 DEF Prepared, Goto, Excluded, TypeOK, Side, Inside
  <2>5. CASE /\ \A why \in Ended : ~EndRun(r, why)
             /\ Pack(r) \/ Stage(r) \/ Worktree(r)
    <3>1. lock' = lock /\ st'[r].pc \notin Inside
      BY <2>5 DEF Pack, Stage, Worktree, Fail, Ended, Inside, At, Goto, TypeOK
    <3>2. \A x \in Runs \ {r} : st'[x] = st[x]
      BY <1>2, OthersStay
    <3> QED
      BY <3>1, <3>2 DEF Excluded, Side
  <2> QED
    BY <1>2, <2>1, <2>2, <2>3, <2>4, <2>5 DEF Step
<1>3. ASSUME NEW r \in Runs, TimesOut(r) \/ Killed(r) PROVE Excluded'
  <2>1. \E why \in Ended : EndRun(r, why)
    BY <1>3 DEF TimesOut, Killed, Fail, Ended
  <2> QED
    BY <2>1, <1>1
<1>4. CASE UNCHANGED <<st, lock>>
  BY <1>4 DEF Excluded, Side
<1> QED
  BY <1>2, <1>3, <1>4 DEF SourcesNext, OrphanEnds, Rewritten

-----------------------------------------------------------------------------
(* Worktrees                                                                 *)

Trusted == \A r \in Runs, role \in Roles : made[r][role] # Nil => made[r][role] = locked[r]
Complete == \A r \in Runs : At(r, "done") => \A role \in Roles : made[r][role] # Nil

\* A run that checked its source makes the worktrees of the locked commit, the
\* baseline's first.
LEMMA PlacedNext ==
  ASSUME TypeOK, Placed, Trusted, Complete, SourcesNext
  PROVE  Placed' /\ Trusted' /\ Complete'
<1> USE DEF Placed, Trusted, Complete
<1>n. Nil \notin Roles /\ \A r \in Runs : locked[r] # Nil
  BY NilAssumption DEF TypeOK, Roles
<1>t. /\ st \in [Runs -> Walks] /\ made \in [Runs -> Trees]
  BY DEF TypeOK, Walks, Places, Trees
<1>1. ASSUME NEW r \in Runs, NEW why \in Ended \ {"done"}, EndRun(r, why), made' = made, locked' = locked
      PROVE  Placed' /\ Trusted' /\ Complete'
  <2>1. /\ \A x \in Runs \ {r} : st'[x] = st[x]
        /\ st'[r].pc = why /\ st'[r].role = Nil
    BY <1>1, Ending
  <2>2. st'[r].role # "candidate" /\ why \notin {"pack", "stage", "worktree", "done"}
    BY <2>1, <1>n DEF Roles, Ended
  <2> QED
    BY <1>1, <2>1, <2>2 DEF Side, At
<1>2. ASSUME NEW r \in Runs, NEW pc \in Inside, st[r].pc \notin Ended,
             st' = [st EXCEPT ![r].pc = pc], made' = made, locked' = locked
      PROVE  Placed' /\ Trusted' /\ Complete'
  <2>1. pc \notin Ended \cup {"pack", "stage", "worktree"}
    BY DEF Inside, Ended
  <2>2. /\ st'[r].pc = pc /\ st'[r].side = st[r].side /\ st'[r].role = st[r].role
        /\ \A x \in Runs \ {r} : st'[x] = st[x]
    BY <1>2, <1>t
  <2> QED
    BY <1>2, <2>1, <2>2 DEF Side, At, Ended
<1>3. ASSUME NEW r \in Runs, Step(r) PROVE Placed' /\ Trusted' /\ Complete'
  <2>o. \A x \in Runs \ {r} : st'[x] = st[x]
    BY <1>3, OthersStay
  <2>l. locked' = locked
    BY <1>3 DEF Step, Flock, CloneStarts, CloneConfigures, CloneEnds, Origin, Resolve, FetchRef,
       FetchRevision, Check, Pack, Stage, Worktree, Unchanging
  <2>1. CASE (\E why \in Ended \ {"done"} : EndRun(r, why)) /\ made' = made
    BY <2>1, <2>l, <1>1
  <2>2. CASE Flock(r)
    <3>1. /\ st'[r].pc \in {"origin", "clone"} /\ st'[r].side = st[r].side /\ st'[r].role = st[r].role
          /\ made' = made /\ st[r].pc = "flock"
      BY <2>2, <1>t DEF Flock, At, Walks
    <3> QED
      BY <3>1, <2>o, <2>l DEF Side, At, Ended
  <2>3. CASE /\ CloneStarts(r) \/ CloneConfigures(r) \/ CloneEnds(r) \/ Origin(r) \/ Resolve(r)
                \/ FetchRef(r) \/ FetchRevision(r)
             /\ ~\E why \in Ended \ {"done"} : EndRun(r, why)
    <3>1. st[r].pc \notin Ended /\ made' = made /\ \E pc \in Inside : st' = [st EXCEPT ![r].pc = pc]
      BY <2>3 DEF CloneStarts, CloneConfigures, CloneEnds, Origin, Resolve, FetchRef,
         FetchRevision, Goto, Fail, Inside, Ended, At
    <3> QED
      BY <3>1, <2>l, <1>2
  <2>4. CASE Check(r) /\ ~\E why \in Ended \ {"done"} : EndRun(r, why)
    <3>1. /\ st[r].pc = "check" /\ made' = made /\ Peel(locked[r]) = locked[r]
          /\ st' = [st EXCEPT ![r].pc = IF Side(r) = "controller" THEN "pack" ELSE "worktree"]
      BY <2>4 DEF Check, Prepared, Goto, Fail, At, Ended
    <3>2. /\ st'[r].side = st[r].side /\ st'[r].role = st[r].role
          /\ st'[r].pc = IF st[r].side = "controller" THEN "pack" ELSE "worktree"
          /\ st[r].side \in {"controller", "worker"}
      BY <3>1, <1>t DEF Side, Walks, Hosts
    <3> QED
      BY <3>1, <3>2, <2>o, <2>l DEF Side, At, Ended
  <2>5. CASE Pack(r) /\ ~\E why \in Ended \ {"done"} : EndRun(r, why)
    <3>1. /\ st[r].pc = "pack" /\ made' = made /\ st' = [st EXCEPT ![r].pc = "stage"]
      BY <2>5 DEF Pack, Goto, Fail, At, Ended
    <3>2. st'[r].side = st[r].side /\ st'[r].role = st[r].role /\ st'[r].pc = "stage"
      BY <3>1, <1>t DEF Walks
    <3> QED
      BY <3>1, <3>2, <2>o, <2>l DEF Side, At, Ended
  <2>6. CASE Stage(r) /\ ~\E why \in Ended \ {"done"} : EndRun(r, why)
    <3>1. /\ made' = made
          /\ st' = [st EXCEPT ![r].pc = "flock", ![r].side = "worker", ![r].role = "baseline"]
      BY <2>6 DEF Stage, Fail, Ended
    <3>2. /\ st'[r].side = "worker" /\ st'[r].role = "baseline" /\ st'[r].pc = "flock"
          /\ "baseline" \in Roles
      BY <3>1, <1>t DEF Walks, Roles
    <3>3. /\ st'[r].pc \notin {"pack", "stage", "worktree", "done"}
          /\ st'[r].role # "candidate"
          /\ Side(r)' = "worker"
      BY <3>2 DEF Side
    <3>4. Placed'
      <4>1. ASSUME NEW x \in Runs \ {r}
            PROVE  st'[x] = st[x] /\ made'[x] = made[x] /\ Side(x)' = Side(x)
        BY <2>o, <3>1 DEF Side
      <4> QED
        BY <4>1, <3>2, <3>3, <2>l DEF At
    <3> QED
      BY <3>1, <3>2, <3>4, <2>o, <2>l DEF At
  <2>7. CASE Worktree(r) /\ ~\E why \in Ended \ {"done"} : EndRun(r, why)
    <3>1. /\ st[r].pc = "worktree"
          /\ made' = [made EXCEPT ![r][st[r].role] = Peel(locked[r])]
          /\ st' = [st EXCEPT ![r].pc = IF st[r].role = "baseline" THEN "flock" ELSE "done",
                              ![r].existed = FALSE,
                              ![r].role = IF @ = "baseline" THEN "candidate" ELSE Nil]
      BY <2>7 DEF Worktree, Fail, At, Ended
    <3>2. st[r].side = "worker" /\ st[r].role \in Roles /\ Peel(locked[r]) = locked[r]
      BY <3>1 DEF At, Side, Ended
    <3>3. /\ st'[r].side = "worker"
          /\ st'[r].role = (IF st[r].role = "baseline" THEN "candidate" ELSE Nil)
          /\ st'[r].pc = (IF st[r].role = "baseline" THEN "flock" ELSE "done")
      BY <3>1, <3>2, <1>t DEF Walks
    <3>4. /\ made'[r][st[r].role] = locked[r]
          /\ \A x \in Runs, role \in Roles : x # r \/ role # st[r].role => made'[x][role] = made[x][role]
      BY <3>1, <3>2, <1>t DEF Trees
    <3>5. Trusted'
      BY <3>4, <2>l
    <3>6. Placed'
      <4>1. ASSUME NEW x \in Runs \ {r}, st[x].role = "candidate" PROVE made'[x]["baseline"] # Nil
        BY <4>1, <3>4 DEF Roles
      <4>2. st'[r].role = "candidate" => made'[r]["baseline"] # Nil
        <5>1. st'[r].role = "candidate" => st[r].role = "baseline"
          BY <3>3, <1>n DEF Roles
        <5> QED
          BY <5>1, <3>4, <1>n
      <4>3. /\ st'[r].pc \in {"flock", "done"}
            /\ st'[r].pc \notin Ended => st'[r].role \in Roles
        BY <3>2, <3>3 DEF Roles, Ended
      <4> QED
        BY <3>3, <4>1, <4>2, <4>3, <2>o, <2>l DEF Side, At
    <3>7. Complete'
      <4>1. ASSUME NEW x \in Runs \ {r}, st'[x].pc = "done" PROVE \A role \in Roles : made'[x][role] # Nil
        BY <4>1, <3>4, <2>o DEF At
      <4>2. ASSUME st'[r].pc = "done" PROVE \A role \in Roles : made'[r][role] # Nil
        <5>1. st[r].role = "candidate"
          BY <4>2, <3>2, <3>3 DEF Roles
        <5> QED
          BY <5>1, <3>4, <1>n DEF Roles
      <4> QED
        BY <4>1, <4>2 DEF At
    <3> QED
      BY <3>5, <3>6, <3>7
  <2>8. CASE (Check(r) \/ Pack(r) \/ Stage(r) \/ Worktree(r) \/ CloneEnds(r) \/ Origin(r) \/ FetchRef(r)
              \/ FetchRevision(r)) /\ \E why \in Ended \ {"done"} : EndRun(r, why)
    <3>1. CASE Worktree(r)
      <4>1. PICK why \in Ended \ {"done"} : EndRun(r, why)
        BY <2>8
      <4>2. st'[r].pc = why /\ why \notin {"flock", "done"}
        BY <4>1, Ending DEF Ended
      <4>3. CASE st' = [st EXCEPT ![r].pc = IF st[r].role = "baseline" THEN "flock" ELSE "done",
                                  ![r].existed = FALSE,
                                  ![r].role = IF @ = "baseline" THEN "candidate" ELSE Nil]
        BY <4>2, <4>3, <1>t DEF Walks
      <4> QED
        BY <3>1, <4>3, <2>8, <2>1 DEF Worktree
    <3>2. CASE ~Worktree(r)
      BY <3>2, <2>8, <2>1 DEF Check, Pack, Stage, CloneEnds, Origin, FetchRef, FetchRevision
    <3> QED
      BY <3>1, <3>2
  <2>9. CASE (CloneStarts(r) \/ CloneConfigures(r) \/ Resolve(r)) /\ \E why \in Ended \ {"done"} : EndRun(r, why)
    <3>1. made' = made
      BY <2>9 DEF CloneStarts, CloneConfigures, Resolve
    <3> QED
      BY <3>1, <2>9, <2>1
  <2> QED
    BY <1>3, <2>2, <2>3, <2>4, <2>5, <2>6, <2>7, <2>8, <2>9 DEF Step
<1>4. ASSUME NEW r \in Runs, TimesOut(r) \/ Killed(r) PROVE Placed' /\ Trusted' /\ Complete'
  BY <1>4, <1>1 DEF TimesOut, Killed, Fail, Ended
<1>5. CASE UNCHANGED <<st, made, locked>>
  BY <1>5 DEF Side, At
<1> QED
  BY <1>3, <1>4, <1>5 DEF SourcesNext, OrphanEnds, Rewritten

-----------------------------------------------------------------------------
(* Caches in which nothing was cut off                                       *)

\* While a run works in a cache no other run does.
LEMMA Alone ==
  ASSUME Excluded, NEW r \in Runs, NEW x \in Runs \ {r}, Side(x) = Side(r), st[r].pc \in Inside
  PROVE  st[x].pc \notin Inside
  BY DEF Excluded

\* A cache stays sound when only runs outside it move.
LEMMA Untouched ==
  ASSUME NEW s \in Hosts, Sound(s), cache'[s] = cache[s], orphans'[s] = orphans[s], locked' = locked,
         NEW r \in Runs, \A x \in Runs \ {r} : st'[x] = st[x],
         Side(r) # s \/ st[r].pc \notin Inside,
         st'[r].side # s \/ st'[r].pc \in Ended \cup {"flock", "stage"}
  PROVE  Sound(s)'
<1> USE DEF Side, At
<1>1. ASSUME NEW x \in Runs \ {r} PROVE st'[x] = st[x] /\ Side(x)' = Side(x)
  BY <1>1
<1>2. st'[r].side # s \/ st'[r].pc \notin Inside \cup {"check", "pack", "worktree"}
  BY DEF Inside, Ended
<1>3. "cloning" \in Inside /\ "clone" \in Inside /\ "receiving" \in Inside
  BY DEF Inside
<1>4. /\ \A rev \in Revisions : cache'[s].has[rev] # "torn"
      /\ ~cache'[s].there => Empty(s)'
      /\ orphans'[s] = {}
  BY DEF Sound, Empty
<1>5. cache'[s].there => OriginFits(s)' \/ \E x \in Runs : Side(x)' = s /\ At(x, "cloning")'
  BY <1>1, <1>3 DEF Sound, OriginFits
<1>6. ASSUME NEW x \in Runs, Side(x)' = s
      PROVE  /\ At(x, "clone")' => ~cache'[s].there
             /\ At(x, "cloning")' => cache'[s].there /\ Empty(s)'
             /\ At(x, "receiving")' => cache'[s].there /\ Empty(s)'
             /\ st'[x].pc \in Inside \ {"clone", "cloning", "receiving"} => cache'[s].there
             /\ st'[x].pc \in {"check", "pack", "worktree"} => cache'[s].has[locked'[x]] = "whole"
  <2>1. CASE x = r
    BY <2>1, <1>2, <1>3, <1>6
  <2>2. CASE x # r
    BY <2>2, <1>1, <1>6 DEF Sound, Empty
  <2> QED
    BY <2>1, <2>2
<1> QED
  BY <1>4, <1>5, <1>6 DEF Sound

\* A step inside a cache has to see to its own run, and to keep what is whole.
LEMMA InsideStep ==
  ASSUME TypeOK, Excluded, NEW r \in Runs, NEW s \in Hosts, Side(r) = s, Sound(s), st[r].pc \in Inside,
         orphans'[s] = orphans[s], locked' = locked, \A x \in Runs \ {r} : st'[x] = st[x],
         st'[r].side = s,
         \A rev \in Revisions : cache'[s].has[rev] # "torn",
         \A rev \in Revisions : cache[s].has[rev] = "whole" => cache'[s].has[rev] = "whole",
         ~cache'[s].there => Empty(s)',
         cache'[s].there => OriginFits(s)' \/ st'[r].pc = "cloning",
         st'[r].pc = "clone" => ~cache'[s].there,
         st'[r].pc \in {"cloning", "receiving"} => cache'[s].there /\ Empty(s)',
         st'[r].pc \in Inside \ {"clone", "cloning", "receiving"} => cache'[s].there,
         st'[r].pc \in {"check", "pack", "worktree"} => cache'[s].has[locked[r]] = "whole"
  PROVE  Sound(s)'
<1> USE DEF Side, At
<1>1. ASSUME NEW x \in Runs \ {r}, Side(x)' = s
      PROVE  st'[x] = st[x] /\ Side(x) = s /\ st[x].pc \notin Inside /\ locked[x] \in Revisions
  BY <1>1, Alone DEF TypeOK
<1>2. "clone" \in Inside /\ "cloning" \in Inside /\ "receiving" \in Inside
  BY DEF Inside
<1>3. ASSUME NEW x \in Runs, Side(x)' = s
      PROVE  /\ At(x, "clone")' => ~cache'[s].there
             /\ At(x, "cloning")' => cache'[s].there /\ Empty(s)'
             /\ At(x, "receiving")' => cache'[s].there /\ Empty(s)'
             /\ st'[x].pc \in Inside \ {"clone", "cloning", "receiving"} => cache'[s].there
             /\ st'[x].pc \in {"check", "pack", "worktree"} => cache'[s].has[locked'[x]] = "whole"
  <2>1. CASE x = r
    BY <2>1
  <2>2. CASE x # r
    BY <2>2, <1>1, <1>2, <1>3 DEF Sound
  <2> QED
    BY <2>1, <2>2
<1> QED
  BY <1>3 DEF Sound

\* What the steps of a run inside a cache leave alone.
InsideActions(r) ==
    CloneStarts(r) \/ CloneConfigures(r) \/ CloneEnds(r) \/ Origin(r) \/ Resolve(r)
    \/ FetchRef(r) \/ FetchRevision(r) \/ Check(r)

LEMMA StepFrame ==
  ASSUME TypeOK, NEW r \in Runs, Step(r)
  PROVE  /\ orphans' = orphans /\ locked' = locked /\ disturbed' = disturbed
         /\ \A s \in Hosts \ {Side(r)} : cache'[s] = cache[s]
         /\ InsideActions(r) => st[r].pc \in Inside /\ st'[r].side = st[r].side
<1>1. orphans' = orphans /\ locked' = locked /\ disturbed' = disturbed
  BY DEF Step, Flock, CloneStarts, CloneConfigures, CloneEnds, Origin, Resolve, FetchRef,
     FetchRevision, Check, Pack, Stage, Worktree, Unchanging
<1>2. \A s \in Hosts \ {Side(r)} : cache'[s] = cache[s]
  BY DEF TypeOK, Step, Flock, CloneStarts, CloneConfigures, CloneEnds, Origin, Resolve, FetchRef,
     FetchRevision, Check, Pack, Stage, Worktree
<1>3. ASSUME InsideActions(r) PROVE st[r].pc \in Inside
  BY <1>3 DEF InsideActions, CloneStarts, CloneConfigures, CloneEnds, Origin, Resolve, FetchRef,
     FetchRevision, Check, At, Inside
<1>4. ASSUME InsideActions(r) PROVE st'[r].side = st[r].side
  <2>1. CASE \E why \in Ended : EndRun(r, why)
    BY <2>1, Ending
  <2>2. CASE \E pc \in Places : Goto(r, pc)
    BY <2>2 DEF Goto, TypeOK
  <2>3. (\E why \in Ended : EndRun(r, why)) \/ (\E pc \in Places : Goto(r, pc))
    BY <1>4 DEF InsideActions, CloneStarts, CloneConfigures, CloneEnds, Origin, Resolve, FetchRef,
       FetchRevision, Check, Prepared, Fail, Ended, Places, Inside
  <2> QED
    BY <2>1, <2>2, <2>3
<1> QED
  BY <1>1, <1>2, <1>3, <1>4

\* A step inside a sound cache keeps it sound.
LEMMA SoundInside ==
  ASSUME TypeOK, Excluded, NEW r \in Runs, NEW s \in Hosts, Side(r) = s, Sound(s),
         Step(r), InsideActions(r)
  PROVE  Sound(s)'
<1>f. /\ orphans'[s] = orphans[s] /\ locked' = locked
      /\ st[r].pc \in Inside /\ st'[r].side = s
      /\ \A x \in Runs \ {r} : st'[x] = st[x]
  BY StepFrame, OthersStay DEF Side
<1>c. /\ cache[s] \in Clones /\ cache \in [Hosts -> Clones] /\ st \in [Runs -> Walks]
      /\ locked[r] \in Revisions /\ Transport(r) # Nil
      /\ s = "controller" => Transport(r) = "repository"
  BY NilAssumption DEF TypeOK, Walks, Places, Transport, Side
<1>h. \A rev \in Revisions : cache[s].has[rev] \in {"absent", "whole"}
  BY <1>c DEF Sound, Clones
<1>o. /\ st[r].pc # "cloning" /\ cache[s].there => OriginFits(s)
      /\ st[r].pc = "clone" => ~cache[s].there
      /\ st[r].pc \in {"cloning", "receiving"} => cache[s].there /\ Empty(s)
      /\ st[r].pc \notin {"clone", "cloning", "receiving"} => cache[s].there
      /\ st[r].pc = "check" => cache[s].has[locked[r]] = "whole"
      /\ ~cache[s].there => Empty(s)
  <2>1. \A x \in Runs \ {r} : Side(x) = s => st[x].pc # "cloning"
    BY <1>f, Alone DEF Inside
  <2> QED
    BY <2>1, <1>f DEF Sound, At
<1>e. ASSUME NEW why \in Ended, EndRun(r, why), cache'[s] = cache[s], st[r].pc # "cloning"
      PROVE  Sound(s)'
  <2>1. st'[r].pc = why /\ why \notin Inside \cup {"clone", "cloning", "receiving", "check", "pack", "worktree"}
    BY <1>e, Ending DEF Ended, Inside
  <2> QED
    BY <2>1, <1>e, <1>f, <1>h, <1>o, InsideStep DEF Empty, OriginFits
<1>1. CASE CloneStarts(r)
  <2>1. /\ st'[r].pc = "cloning" /\ st[r].pc = "clone"
        /\ cache'[s].there /\ cache'[s].has = cache[s].has
    BY <1>1, <1>c DEF CloneStarts, Goto, At, Clones, Walks
  <2> QED
    BY <2>1, <1>f, <1>h, <1>o, InsideStep DEF Empty
<1>2. CASE CloneConfigures(r)
  <2>1. /\ st'[r].pc = "receiving" /\ st[r].pc = "cloning"
        /\ cache'[s].there = cache[s].there /\ cache'[s].has = cache[s].has
        /\ cache'[s].origin = Transport(r)
    BY <1>2, <1>c DEF CloneConfigures, Goto, At, Clones, Walks
  <2> QED
    BY <2>1, <1>c, <1>f, <1>h, <1>o, InsideStep DEF Empty, OriginFits
<1>3. CASE CloneEnds(r)
  <2>0. st[r].pc = "receiving"
    BY <1>3 DEF CloneEnds, At
  <2>1. CASE cache'[s] = Fetched(cache[s], OfRef(r)) /\ Goto(r, "origin")
    <3>1. st'[r].pc = "origin"
      BY <2>1, <1>c DEF Goto, Walks
    <3>2. /\ cache'[s].there = cache[s].there /\ cache'[s].origin = cache[s].origin
          /\ \A rev \in Revisions : cache'[s].has[rev] = IF rev \in OfRef(r) THEN "whole" ELSE cache[s].has[rev]
      BY <2>1, <1>c, Fetching
    <3> QED
      BY <2>0, <3>1, <3>2, <1>f, <1>h, <1>o, InsideStep DEF Empty, OriginFits
  <2>2. CASE cache'[s] = NoClone /\ EndRun(r, "command")
    <3>1. st'[r].pc = "command"
      BY <2>2, Ending DEF Ended
    <3>2. cache'[s].there = FALSE /\ \A rev \in Revisions : cache'[s].has[rev] = "absent"
      BY <2>2, NoCloneFacts
    <3>3. "command" \notin Inside
      BY DEF Inside
    <3> QED
      BY <2>0, <3>1, <3>2, <3>3, <1>f, <1>h, <1>o, InsideStep DEF Empty
  <2> QED
    BY <1>3, <2>1, <2>2, <1>c DEF CloneEnds, Fail
<1>4. CASE Origin(r)
  <2>0. st[r].pc = "origin"
    BY <1>4 DEF Origin, At
  <2>1. CASE EndRun(r, "cache") /\ cache' = cache
    BY <2>0, <2>1, <1>e DEF Ended
  <2>2. CASE cache' = [cache EXCEPT ![s].origin = Transport(r)] /\ Goto(r, "resolve")
    <3>1. /\ st'[r].pc = "resolve"
          /\ cache'[s].there = cache[s].there /\ cache'[s].has = cache[s].has
          /\ cache'[s].origin = Transport(r)
      BY <2>2, <1>c DEF Goto, Clones, Walks
    <3> QED
      BY <2>0, <3>1, <1>c, <1>f, <1>h, <1>o, InsideStep DEF Empty, OriginFits
  <2> QED
    BY <1>4, <2>1, <2>2 DEF Origin, Fail
<1>5. CASE Resolve(r)
  <2>1. /\ cache'[s] = cache[s] /\ st[r].pc = "resolve"
        /\ \/ st'[r].pc = "fetch_ref"
           \/ st'[r].pc = "check" /\ cache[s].has[locked[r]] # "absent"
    BY <1>5, <1>c DEF Resolve, Goto, At, Resolves, Walks
  <2> QED
    BY <2>1, <1>c, <1>f, <1>h, <1>o, InsideStep DEF Empty, OriginFits
<1>6. CASE FetchRef(r) \/ FetchRevision(r)
  <2>0. st[r].pc \in {"fetch_ref", "fetch_revision"}
    BY <1>6 DEF FetchRef, FetchRevision, At
  <2>1. CASE cache' = cache /\ EndRun(r, "command")
    BY <2>0, <2>1, <1>e DEF Ended
  <2>2. CASE ~(cache' = cache /\ EndRun(r, "command"))
    <3>1. PICK revs : cache'[s] = Fetched(cache[s], revs)
                      /\ \/ st'[r].pc = "fetch_revision"
                         \/ st'[r].pc = "check" /\ cache'[s].has[locked[r]] # "absent"
      <4>1. CASE FetchRef(r)
        BY <4>1, <2>2, <1>c DEF FetchRef, Goto, Fail, Resolves, Walks
      <4>2. CASE FetchRevision(r)
        <5>1. /\ cache'[s] = Fetched(cache[s], {locked[r]}) /\ st'[r].pc = "check"
          BY <4>2, <2>2, <1>c DEF FetchRevision, Goto, Fail, Walks
        <5> QED
          BY <5>1, <1>c, Fetching
      <4> QED
        BY <1>6, <4>1, <4>2
    <3>2. /\ cache'[s].there = cache[s].there /\ cache'[s].origin = cache[s].origin
          /\ \A rev \in Revisions : cache'[s].has[rev] = IF rev \in revs THEN "whole" ELSE cache[s].has[rev]
      BY <3>1, <1>c, Fetching
    <3>3. cache[s].there
      BY <2>0, <1>o
    <3>4. /\ cache'[s].there /\ OriginFits(s)'
          /\ \A rev \in Revisions : cache'[s].has[rev] # "torn"
          /\ \A rev \in Revisions : cache[s].has[rev] = "whole" => cache'[s].has[rev] = "whole"
      <4>1. OriginFits(s)
        BY <2>0, <3>3, <1>o
      <4>2. OriginFits(s)'
        BY <4>1, <3>2 DEF OriginFits
      <4>3. ASSUME NEW rev \in Revisions
            PROVE  /\ cache'[s].has[rev] # "torn"
                   /\ cache[s].has[rev] = "whole" => cache'[s].has[rev] = "whole"
        BY <3>2, <1>h
      <4> QED
        BY <3>2, <3>3, <4>2, <4>3
    <3>5. /\ st'[r].pc \notin {"clone", "cloning", "receiving", "pack", "worktree"}
          /\ st'[r].pc = "check" => cache'[s].has[locked[r]] = "whole"
      BY <3>1, <3>2, <1>c, <1>h
    <3> QED
      BY <3>4, <3>5, <1>f, InsideStep
  <2> QED
    BY <2>1, <2>2
<1>7. CASE Check(r)
  <2>1. cache' = cache /\ st[r].pc = "check"
    BY <1>7 DEF Check, At
  <2>2. CASE EndRun(r, "revision")
    BY <2>1, <2>2, <1>e DEF Ended
  <2>3. CASE Prepared(r)
    <3>1. st'[r].pc \in {"pack", "worktree"} /\ st'[r].pc \notin Inside
      BY <2>3, <1>c DEF Prepared, Goto, Walks, Inside
    <3> QED
      BY <2>1, <3>1, <1>f, <1>h, <1>o, InsideStep DEF Empty, OriginFits
  <2> QED
    BY <1>7, <2>2, <2>3 DEF Check, Fail
<1> QED
  BY <1>1, <1>2, <1>3, <1>4, <1>5, <1>6, <1>7 DEF InsideActions

Clean == \A s \in Hosts : ~disturbed[s] => Sound(s)

\* A side on which nothing was cut off stays sound, whatever happens.
LEMMA CleanNext ==
  ASSUME TypeOK, Excluded, Placed, Clean, SourcesNext
  PROVE  Clean'
<1> SUFFICES ASSUME NEW s \in Hosts, ~disturbed'[s] PROVE Sound(s)'
  BY DEF Clean
<1>t. st \in [Runs -> Walks] /\ \A r \in Runs : Side(r) \in Hosts
  BY DEF TypeOK, Walks, Places, Side
<1>1. ASSUME NEW r \in Runs, Step(r) PROVE Sound(s)'
  <2>1. /\ Sound(s) /\ orphans'[s] = orphans[s] /\ locked' = locked
        /\ \A x \in Runs \ {r} : st'[x] = st[x]
        /\ Side(r) # s => cache'[s] = cache[s]
    BY <1>1, StepFrame, OthersStay DEF Clean
  <2>2. CASE InsideActions(r)
    <3>1. CASE Side(r) = s
      BY <3>1, <2>1, <2>2, <1>1, SoundInside
    <3>2. CASE Side(r) # s
      <4>1. st'[r].side # s
        BY <3>2, <2>2, <1>1, StepFrame DEF Side
      <4> QED
        BY <4>1, <3>2, <2>1, Untouched
    <3> QED
      BY <3>1, <3>2
  <2>3. CASE Flock(r)
    <3>1. /\ st'[r].side = st[r].side /\ cache' = cache /\ lock[Side(r)] = Nil
          /\ st'[r].pc = (IF cache[Side(r)].there THEN "origin" ELSE "clone")
      BY <2>3, <1>t DEF Flock, Walks
    <3>2. CASE Side(r) # s
      BY <3>1, <3>2, <2>1, Untouched DEF Side
    <3>3. CASE Side(r) = s
      <4>1. \A x \in Runs : Side(x) = s => st[x].pc \notin Inside
        BY <3>1, <3>3, NilAssumption DEF Excluded
      <4>2. cache[s].there => OriginFits(s)
        BY <4>1, <2>1 DEF Sound, At, Inside
      <4>3. ASSUME NEW x \in Runs \ {r} PROVE st'[x] = st[x] /\ Side(x)' = Side(x)
        BY <2>1 DEF Side
      <4>4. /\ \A rev \in Revisions : cache'[s].has[rev] # "torn"
            /\ ~cache'[s].there => Empty(s)'
            /\ orphans'[s] = {}
            /\ cache'[s].there => OriginFits(s)'
        BY <4>2, <3>1, <2>1 DEF Sound, Empty, OriginFits
      <4>5. ASSUME NEW x \in Runs, Side(x)' = s
            PROVE  /\ At(x, "clone")' => ~cache'[s].there
                   /\ At(x, "cloning")' => cache'[s].there /\ Empty(s)'
                   /\ At(x, "receiving")' => cache'[s].there /\ Empty(s)'
                   /\ st'[x].pc \in Inside \ {"clone", "cloning", "receiving"} => cache'[s].there
                   /\ st'[x].pc \in {"check", "pack", "worktree"} => cache'[s].has[locked'[x]] = "whole"
        <5>1. CASE x = r
          BY <5>1, <3>1, <3>3 DEF At
        <5>2. CASE x # r
          BY <5>2, <4>1, <4>3, <4>5, <3>1, <2>1 DEF Sound, At, Inside
        <5> QED
          BY <5>1, <5>2
      <4> QED
        BY <4>4, <4>5 DEF Sound
    <3> QED
      BY <3>2, <3>3
  <2>4. CASE Pack(r) \/ Stage(r) \/ Worktree(r)
    <3>1. cache' = cache /\ st[r].pc \notin Inside
      BY <2>4 DEF Pack, Stage, Worktree, At, Inside
    <3>2. st'[r].pc \in Ended \cup {"flock", "stage"}
      <4>1. CASE \E why \in Ended : EndRun(r, why)
        BY <4>1, Ending
      <4>2. CASE ~\E why \in Ended : EndRun(r, why)
        BY <4>2, <2>4, <1>t DEF Pack, Stage, Worktree, Goto, Fail, Ended, Walks
      <4> QED
        BY <4>1, <4>2
    <3> QED
      BY <3>1, <3>2, <2>1, Untouched
  <2> QED
    BY <1>1, <2>2, <2>3, <2>4 DEF Step, InsideActions
<1>2. ASSUME NEW r \in Runs, TimesOut(r) \/ Killed(r) PROVE Sound(s)'
  <2>1. Fault(Side(r)) /\ locked' = locked
    BY <1>2 DEF TimesOut, Killed
  <2>2. s # Side(r) /\ ~disturbed[s]
    BY <2>1, <1>t DEF Fault, TypeOK
  <2>3. cache'[s] = cache[s] /\ orphans'[s] = orphans[s]
    BY <1>2, <2>2 DEF TimesOut, Killed, TypeOK
  <2>4. \E why \in Ended : EndRun(r, why)
    BY <1>2 DEF TimesOut, Killed, Fail, Ended
  <2>5. st'[r].side # s /\ \A x \in Runs \ {r} : st'[x] = st[x]
    BY <2>2, <2>4, Ending DEF Side
  <2> QED
    BY <2>1, <2>2, <2>3, <2>5, Untouched DEF Clean
<1>3. CASE /\ ~disturbed[s] /\ cache'[s] = cache[s] /\ orphans'[s] = orphans[s]
           /\ locked' = locked /\ st' = st
  <2>1. Sound(s)
    BY <1>3 DEF Clean
  <2> QED
    BY <1>3, <2>1 DEF Sound, Empty, OriginFits, Side, At
<1>4. ASSUME NEW t \in Hosts, NEW o \in orphans[t], OrphanEnds(t, o) PROVE Sound(s)'
  <2>1. ~disturbed[s] /\ Sound(s)
    BY <1>4 DEF OrphanEnds, Clean
  <2>2. t # s
    BY <2>1 DEF Sound
  <2> QED
    BY <1>3, <1>4, <2>1, <2>2 DEF OrphanEnds, TypeOK
<1>5. ASSUME NEW rev \in Revisions, Rewritten(rev) PROVE Sound(s)'
  BY <1>5, <1>3 DEF Rewritten
<1> QED
  BY <1>1, <1>2, <1>4, <1>5 DEF SourcesNext

-----------------------------------------------------------------------------
(* The cache is to blame only when something was cut off                     *)

Blamed == \A r \in Runs : At(r, "cache") => disturbed[Side(r)]

LEMMA BlamedNext ==
  ASSUME TypeOK, Excluded, Placed, Clean, Blamed, SourcesNext
  PROVE  Blamed'
<1>t. st \in [Runs -> Walks] /\ \A r \in Runs : Side(r) \in Hosts
  BY DEF TypeOK, Walks, Places, Side
<1>1. ASSUME NEW r \in Runs, Step(r) PROVE Blamed'
  <2>1. disturbed' = disturbed /\ \A x \in Runs \ {r} : st'[x] = st[x]
    BY <1>1, StepFrame, OthersStay
  <2>2. SUFFICES ASSUME st'[r].pc = "cache" PROVE disturbed[st'[r].side]
    BY <2>1 DEF Blamed, At, Side
  <2>3. SUFFICES ASSUME ~disturbed[Side(r)] PROVE FALSE
    <3>1. CASE InsideActions(r)
      BY <3>1, <2>3, <1>1, StepFrame DEF Side
    <3>2. CASE ~InsideActions(r)
      <4>1. CASE \E why \in Ended : EndRun(r, why)
        BY <4>1, <2>3, Ending DEF Side
      <4>2. CASE ~\E why \in Ended : EndRun(r, why)
        BY <4>2, <3>2, <2>2, <1>1, <1>t DEF Step, InsideActions, Flock, Pack, Stage, Worktree,
           Goto, Fail, Ended, Walks
      <4> QED
        BY <4>1, <4>2
    <3> QED
      BY <3>1, <3>2
  <2>4. Sound(Side(r))
    BY <2>3, <1>t DEF Clean
  <2>5. ASSUME NEW why \in Ended \ {"cache"}, EndRun(r, why) PROVE FALSE
    BY <2>5, <2>2, Ending
  <2>6. ASSUME NEW pc \in Places \ {"cache"}, Goto(r, pc) PROVE FALSE
    BY <2>6, <2>2, <1>t DEF Goto, Walks
  <2>7. CASE Origin(r)
    <3>1. st[r].pc = "origin"
      BY <2>7 DEF Origin, At
    <3>2. cache[Side(r)].there
      BY <3>1, <2>4 DEF Sound, Inside
    <3>3. \A x \in Runs : Side(x) = Side(r) => st[x].pc # "cloning"
      BY <3>1, Alone DEF Inside
    <3>4. OriginFits(Side(r))
      BY <3>2, <3>3, <2>4 DEF Sound, At
    <3>5. Goto(r, "resolve")
      BY <3>4, <2>7 DEF Origin, OriginFits, Transport
    <3> QED
      BY <3>5, <2>6 DEF Places, Inside, Ended
  <2>8. CASE Pack(r)
    <3>1. Side(r) = "controller" /\ cache["controller"].has[locked[r]] = "whole"
      BY <2>8, <2>4 DEF Pack, At, Placed, Sound
    <3> QED
      BY <3>1, <2>8, <2>5, <2>6 DEF Pack, Fail, Places, Ended
  <2>9. CASE Worktree(r)
    <3>1. Side(r) = "worker" /\ cache["worker"].has[locked[r]] = "whole"
      BY <2>9, <2>4 DEF Worktree, At, Placed, Sound
    <3>2. ~EndRun(r, "command")
      BY <2>5 DEF Ended
    <3> QED
      BY <3>1, <3>2, <2>9, <2>2, <1>t DEF Worktree, Fail, Walks
  <2>10. CASE Flock(r)
    BY <2>10, <2>2, <1>t DEF Flock, Walks
  <2>11. CASE Stage(r)
    <3>1. ~EndRun(r, "command")
      BY <2>5 DEF Ended
    <3> QED
      BY <3>1, <2>11, <2>2, <1>t DEF Stage, Fail, Walks
  <2>12. CASE CloneStarts(r) \/ CloneConfigures(r) \/ CloneEnds(r) \/ Resolve(r)
    BY <2>12, <2>5, <2>6 DEF CloneStarts, CloneConfigures, CloneEnds, Resolve, Fail, Places,
       Inside, Ended
  <2>13. CASE FetchRef(r) \/ FetchRevision(r) \/ Check(r)
    BY <2>13, <2>5, <2>6 DEF FetchRef, FetchRevision, Check, Prepared, Fail, Places, Inside, Ended
  <2> QED
    BY <1>1, <2>7, <2>8, <2>9, <2>10, <2>11, <2>12, <2>13 DEF Step
<1>2. ASSUME NEW r \in Runs, TimesOut(r) \/ Killed(r) PROVE Blamed'
  <2>1. \E why \in Ended \ {"cache"} : EndRun(r, why)
    BY <1>2 DEF TimesOut, Killed, Fail, Ended
  <2>2. st'[r].pc # "cache" /\ \A x \in Runs \ {r} : st'[x] = st[x]
    BY <2>1, Ending
  <2>3. \A s \in Hosts : disturbed[s] => disturbed'[s]
    BY <1>2, <1>t DEF TimesOut, Killed, Fault, TypeOK
  <2> QED
    BY <2>2, <2>3, <1>t DEF Blamed, At, Side
<1>3. CASE UNCHANGED <<st, disturbed>>
  BY <1>3 DEF Blamed, At, Side
<1> QED
  BY <1>1, <1>2, <1>3 DEF SourcesNext, OrphanEnds, Rewritten

-----------------------------------------------------------------------------
(* The theorem                                                               *)

LEMMA IInit == SourcesInit => IInv
<1> SUFFICES ASSUME SourcesInit PROVE IInv
  OBVIOUS
<1>1. TypeOK
  BY TypeInit
<1>2. ASSUME NEW r \in Runs
      PROVE  /\ st[r].pc = "flock" /\ st[r].side = "controller" /\ st[r].role = Nil
             /\ \A role \in Roles : made[r][role] = Nil
  BY DEF SourcesInit
<1>3. Nil \notin Roles
  BY NilAssumption DEF Roles
<1>4. Excluded /\ Placed
  BY <1>2, <1>3 DEF Excluded, Placed, Inside, At, Side, Ended, Roles
<1>5. SourcesAreLocked
  BY <1>1, <1>2 DEF SourcesAreLocked, At
<1>6. \A s \in Hosts : Sound(s)
  BY <1>2, NoCloneFacts DEF SourcesInit, Sound, Empty, At, Inside
<1> QED
  BY <1>4, <1>5, <1>6 DEF IInv

LEMMA INext == IInv /\ [SourcesNext]_sourcesVars => IInv'
<1>1. CASE UNCHANGED sourcesVars
  <2>1. /\ TypeOK => TypeOK'
        /\ \A s \in Hosts : Sound(s) => Sound(s)'
    BY <1>1, TypeNext DEF sourcesVars, Sound, Empty, OriginFits, Side, At
  <2> QED
    BY <1>1, <2>1 DEF sourcesVars, IInv, SourcesAreLocked, Excluded, Placed, Side, At
<1>2. CASE IInv /\ SourcesNext
  <2>1. TypeOK /\ Excluded /\ Placed /\ Trusted /\ Complete /\ Blamed /\ Clean
    BY <1>2 DEF IInv, SourcesAreLocked, Trusted, Complete, Blamed, Clean
  <2>2. TypeOK' /\ Excluded' /\ Placed' /\ Trusted' /\ Complete' /\ Blamed' /\ Clean'
    BY <1>2, <2>1, TypeNext, ExcludedNext, PlacedNext, BlamedNext, CleanNext
  <2> QED
    BY <2>2 DEF IInv, SourcesAreLocked, Trusted, Complete, Blamed, Clean
<1> QED
  BY <1>1, <1>2

\* Worktrees are made from the locked commit alone, both of them when a run is
\* done, and a cache in which nothing was cut off serves every run.
\* (workspace.py prepare_git_source, create_source_bundle, create_source_worktree)
THEOREM LockedSources == SourcesSpec => []SourcesAreLocked
<1>1. IInv => SourcesAreLocked
  BY DEF IInv
<1> QED
  BY <1>1, IInit, INext, PTL DEF SourcesSpec
=============================================================================

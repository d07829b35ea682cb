-------------------------- MODULE TeamClaims_proofs --------------------------
(* The claims of tasks, for any number of workers, leaders, editors and tasks *)
(* and any dependencies: ClaimsInv is inductive.  Every write of a call is     *)
(* either backed by the files as the call has read them, or it clobbers.       *)
EXTENDS TeamClaims, TLAPS

LEMMA TokenFacts ==
  /\ \A k \in Token : k.by \in Worker /\ k.n \in Nat
  /\ None \notin Token /\ None \notin Task /\ None \notin Worker
BY TeamAssumption DEF Token

(* A call that may still draw a token draws one. *)
LEMMA NextTokenIsToken ==
  ASSUME TypeOK, NEW w \in Worker, issued[w] < MaxClaims[w]
  PROVE  /\ NextToken(w) \in Token
         /\ NextToken(w).by = w /\ NextToken(w).n = issued[w] + 1
<1>1. issued[w] \in Nat /\ MaxClaims[w] \in Nat
  BY TeamAssumption DEF TypeOK
<1>2. issued[w] + 1 \in 1..MaxClaims[w]
  BY <1>1
<1>3. NextToken(w) \in [by : {w}, n : 1..MaxClaims[w]]
  BY <1>2 DEF NextToken
<1> QED
  BY <1>3 DEF Token, NextToken

-----------------------------------------------------------------------------
(* What a step of a call does to the positions of the calls: p moves to l,    *)
(* with task t, claim k and reading s, and all others stay.                   *)
PlacesOK ==
  /\ pc \in [Process -> Labels]
  /\ at \in [Process -> Task \cup {None}]
  /\ tok \in [Process -> Token \cup {None}]
  /\ seen \in [Process -> [Task -> Records]]

Stays(q) == pc'[q] = pc[q] /\ at'[q] = at[q] /\ tok'[q] = tok[q] /\ seen'[q] = seen[q]

Alone(p) == \A q \in Process : q # p => Stays(q)

Moved(p, l, t, k, s) ==
  /\ pc'[p] = l /\ at'[p] = t /\ tok'[p] = k /\ seen'[p] = s
  /\ Alone(p) /\ PlacesOK'

ReadingFits(p) == \A u \in Task : Fits(seen[p][u])

LEMMA MovesReading ==
  ASSUME TypeOK, NEW p \in Process, NEW l \in Labels, NEW t \in Task \cup {None},
         NEW k \in Token \cup {None}, NEW s \in [Task -> Records],
         Goto(p, l, t, k), seen' = [seen EXCEPT ![p] = s]
  PROVE  Moved(p, l, t, k, s)
BY DEF Goto, Moved, Alone, Stays, PlacesOK, TypeOK

LEMMA Moves ==
  ASSUME TypeOK, NEW p \in Process, NEW l \in Labels, NEW t \in Task \cup {None},
         NEW k \in Token \cup {None}, Goto(p, l, t, k), seen' = seen
  PROVE  Moved(p, l, t, k, seen[p])
BY DEF Goto, Moved, Alone, Stays, PlacesOK, TypeOK

LEMMA CreatedFits ==
  Created \in [Task -> Records] /\ \A u \in Task : Fits(Created[u])
<1>1. ASSUME NEW u \in Task PROVE Created[u] \in Records /\ Fits(Created[u])
  BY TokenFacts, TeamAssumption DEF Created, Records, Fits, Status, Terminal
<1> QED
  BY <1>1 DEF Created

LEMMA Returns ==
  ASSUME TypeOK, NEW p \in Process, Return(p)
  PROVE  /\ Moved(p, "idle", None, None, Created)
         /\ gone' \in [Process -> SUBSET Worker] /\ todo' \in [Process -> SUBSET Task]
<1>1. "idle" \in Labels
  BY DEF Labels
<1>2. Moved(p, "idle", None, None, Created)
  BY <1>1, MovesReading, CreatedFits DEF Return
<1> QED
  BY <1>2 DEF Return, TypeOK

-----------------------------------------------------------------------------
(* The lemma all steps are proved by: a step of p keeps the invariant when it *)
(* keeps it for p, and when what it takes from others is revoked or clobbered.*)
DoneKept == \A u \in Task : task[u].status = "completed"
              => task'[u].status = "completed" \/ u \in clobbered'

FilesKept(p) == \A u \in Task : file[u] # None /\ file[u].by # p
                  => file'[u] = file[u] \/ u \in clobbered' \/ file[u] \in revoked'

LEMMA StepKeeps ==
  ASSUME ClaimsInv, NEW p \in Process, Alone(p), ReadingFits(p)', \A u \in Task : Fits(task'[u]),
         CallFits(p)', FileFits(p)',
         revoked \subseteq revoked', clobbered \subseteq clobbered', DoneKept, FilesKept(p),
         \A w \in Worker : w # p => issued'[w] = issued[w],
         \A g \in granted' : g \in granted \/ g.token.by = p,
         \A g \in granted' : HolderFits(g)'
  PROVE  RecordsFit' /\ CallsFit' /\ FilesFit' /\ HoldersFit'
<1> USE TokenFacts
<1>1. RecordsFit'
  BY DEF Alone, ReadingFits, Stays, RecordsFit, ClaimsInv, Fits
<1>2. ASSUME NEW q \in Process, q # p PROVE CallFits(q)'
  <2>1. CallFits(q) /\ Stays(q)
    BY <1>2 DEF ClaimsInv, CallsFit, Alone
  <2>2. q \in Worker => issued'[q] = issued[q]
    BY <1>2
  <2>3. Grant(q)' = Grant(q)
    BY <2>1 DEF Stays, Grant
  <2>4. pc[q] \in Making \cup Done => tok[q].by = q /\ Grant(q) \notin granted
    BY <2>1 DEF CallFits
  <2>5. pc[q] \in Making \cup Done => Grant(q)' \notin granted'
    BY <2>3, <2>4, <1>2 DEF Grant
  <2> QED
    BY <2>1, <2>2, <2>5 DEF CallFits, Stays, Making
<1>3. ASSUME NEW q \in Process, q # p PROVE FileFits(q)'
  <2>1. CallFits(q) /\ FileFits(q) /\ Stays(q) /\ TypeOK
    BY <1>3 DEF ClaimsInv, CallsFit, FilesFit, Alone
  <2>2. pc[q] \in {"fill", "recheck", "take"} =>
          at[q] \in Task /\ tok[q] \in Token /\ tok[q].by = q
    BY <2>1 DEF CallFits, Making
  <2>3. at[q] \notin clobbered' /\ pc[q] \in {"fill", "recheck", "take"} /\ tok[q] \notin revoked'
          => file'[at[q]] = tok[q]
    BY <2>1, <2>2, <1>3 DEF FileFits, FilesKept
  <2>4. pc[q] = "take" =>
          \A d \in seen[q][at[q]].needs.deps \ clobbered' : task'[d].status = "completed"
    <3>1. pc[q] = "take" => seen[q][at[q]].needs.deps \subseteq Task
      BY <2>1, <2>2 DEF TypeOK, Records, Needs
    <3> QED
      BY <2>1, <3>1 DEF FileFits, DoneKept
  <2> QED
    BY <2>1, <2>3, <2>4 DEF FileFits, Stays
<1> QED
  BY <1>1, <1>2, <1>3 DEF CallsFit, FilesFit, HoldersFit

-----------------------------------------------------------------------------
(* Steps that only read. *)
LEMMA TargetFacts ==
  /\ Targets \subseteq {"in_progress", "blocked", "completed", "failed"}
  /\ Targets \subseteq Labels
BY TeamAssumption DEF Status, Terminal, Labels

LEMMA ReadingKeeps ==
  ASSUME ClaimsInv, NEW p \in Process, NEW l, NEW t, NEW k, NEW s, Moved(p, l, t, k, s),
         \A u \in Task : Fits(s[u]), CallFits(p)', FileFits(p)',
         UNCHANGED <<task, file, issued, granted, revoked, clobbered>>
  PROVE  RecordsFit' /\ CallsFit' /\ FilesFit' /\ HoldersFit'
<1>1. \A u \in Task : Fits(task'[u])
  BY DEF ClaimsInv, RecordsFit
<1>2. DoneKept /\ FilesKept(p)
  BY DEF DoneKept, FilesKept
<1>3. \A g \in granted' : HolderFits(g)'
  BY DEF ClaimsInv, HoldersFit, HolderFits
<1>4. Alone(p) /\ ReadingFits(p)'
  BY DEF Moved, ReadingFits, Fits
<1> QED
  BY <1>1, <1>2, <1>3, <1>4, StepKeeps

LEMMA ReconcileKeeps ==
  ASSUME ClaimsInv, NEW p \in Process, Reconcile(p) PROVE ClaimsInv'
<1>1. Moved(p, "tasks", None, None, seen[p])
  BY Moves DEF Reconcile, Labels, ClaimsInv
<1>2. gone' \in [Process -> SUBSET Worker]
  BY TeamAssumption DEF Reconcile, ClaimsInv, TypeOK
<1>3. TypeOK'
  BY <1>1, <1>2 DEF Moved, PlacesOK, ClaimsInv, TypeOK, Reconcile, files, world
<1>4. CallFits(p)' /\ FileFits(p)'
  BY <1>1, TargetFacts, TeamAssumption
  DEF Reconcile, CallFits, FileFits, Moved, Making, Finishing, Done
<1> QED
  BY <1>1, <1>3, <1>4, ReadingKeeps DEF ClaimsInv, RecordsFit, Reconcile, files

LEMMA ReadTasksKeeps ==
  ASSUME ClaimsInv, NEW p \in Process, ReadTasks(p) PROVE ClaimsInv'
<1>1. Moved(p, "claims", None, None, task)
  BY MovesReading DEF ReadTasks, Labels, ClaimsInv, TypeOK
<1>2. TypeOK'
  BY <1>1 DEF Moved, PlacesOK, ClaimsInv, TypeOK, ReadTasks, files, world
<1>3. CallFits(p)' /\ FileFits(p)'
  BY <1>1, TargetFacts
  DEF ReadTasks, At, ClaimsInv, CallsFit, CallFits, FileFits, Moved, Making, Finishing, Done
<1> QED
  BY <1>1, <1>2, <1>3, ReadingKeeps DEF ClaimsInv, RecordsFit, ReadTasks, files

(* Every call may end. *)
LEMMA ReturnFits ==
  ASSUME NEW p \in Process, NEW s, Moved(p, "idle", None, None, s)
  PROVE  CallFits(p)' /\ FileFits(p)'
BY TargetFacts DEF CallFits, FileFits, Moved, Making, Finishing, Done

LEMMA LookAtClaimKeeps ==
  ASSUME ClaimsInv, NEW p \in Process, LookAtClaim(p) PROVE ClaimsInv'
<1> USE DEF ClaimsInv
<1>0. UNCHANGED <<files, world, issued, granted, revoked, clobbered>>
  BY DEF LookAtClaim
<1>1. CASE Return(p)
  BY <1>0, <1>1, Returns, ReturnFits, ReadingKeeps, CreatedFits
  DEF TypeOK, Moved, PlacesOK, files, world
<1>2. ASSUME NEW t \in todo[p], Goto(p, "revoke", t, ClaimOf(p, t)), IsStale(p, ClaimOf(p, t)),
             todo' = [todo EXCEPT ![p] = @ \ {t}], UNCHANGED <<seen, gone>>
      PROVE  ClaimsInv'
  <2>1. t \in Task /\ ClaimOf(p, t) \in Token
    BY <1>2 DEF IsStale, TypeOK
  <2>2. Moved(p, "revoke", t, ClaimOf(p, t), seen[p])
    BY <1>2, <2>1, Moves DEF Labels
  <2>3. TypeOK'
    BY <1>0, <1>2, <2>2 DEF TypeOK, Moved, PlacesOK, files, world
  <2>4. CallFits(p)' /\ FileFits(p)'
    BY <1>0, <2>1, <2>2, TargetFacts
    DEF LookAtClaim, ClaimOf, At, CallsFit, CallFits, FileFits, Moved, Making, Finishing, Done
  <2> QED
    BY <1>0, <2>2, <2>3, <2>4, ReadingKeeps DEF RecordsFit, files
<1>3. ASSUME NEW t \in todo[p], Goto(p, "claims", None, None),
             todo' = [todo EXCEPT ![p] = @ \ {t}], UNCHANGED <<seen, gone>>
      PROVE  ClaimsInv'
  <2>2. Moved(p, "claims", None, None, seen[p])
    BY <1>3, Moves DEF Labels
  <2>3. TypeOK'
    BY <1>0, <1>3, <2>2 DEF TypeOK, Moved, PlacesOK, files, world
  <2>4. CallFits(p)' /\ FileFits(p)'
    BY <1>0, <2>2, TargetFacts
    DEF LookAtClaim, At, CallsFit, CallFits, FileFits, Moved, Making, Finishing, Done
  <2> QED
    BY <1>0, <2>2, <2>3, <2>4, ReadingKeeps DEF RecordsFit, files
<1> QED
  BY <1>1, <1>2, <1>3 DEF LookAtClaim

LEMMA ReconciledKeeps ==
  ASSUME ClaimsInv, NEW p \in Process, Reconciled(p) PROVE ClaimsInv'
<1> USE DEF ClaimsInv
<1>0. UNCHANGED <<files, world, issued, granted, revoked, clobbered>>
  BY DEF Reconciled
<1>1. CASE Return(p)
  BY <1>0, <1>1, Returns, ReturnFits, ReadingKeeps, CreatedFits
  DEF TypeOK, Moved, PlacesOK, files, world
<1>2. CASE p \in Worker /\ Goto(p, "pick", None, None) /\ UNCHANGED <<seen, gone, todo>>
  <2>1. Moved(p, "pick", None, None, seen[p])
    BY <1>2, Moves DEF Labels
  <2>2. TypeOK'
    BY <1>0, <1>2, <2>1 DEF TypeOK, Moved, PlacesOK, files, world
  <2>3. CallFits(p)' /\ FileFits(p)'
    BY <1>0, <1>2, <2>1, TargetFacts
    DEF Reconciled, At, CallsFit, CallFits, FileFits, Moved, Making, Finishing, Done
  <2> QED
    BY <1>0, <2>1, <2>2, <2>3, ReadingKeeps DEF RecordsFit, files
<1> QED
  BY <1>1, <1>2 DEF Reconciled

(* A step that goes on with the task and the claim it has. *)
LEMMA Continues ==
  ASSUME TypeOK, NEW p \in Process, NEW l \in Labels, Continue(p, l)
  PROVE  /\ Moved(p, l, at[p], tok[p], seen[p])
         /\ gone' \in [Process -> SUBSET Worker] /\ todo' \in [Process -> SUBSET Task]
<1>1. at[p] \in Task \cup {None} /\ tok[p] \in Token \cup {None}
  BY DEF TypeOK
<1> QED
  BY <1>1, Moves DEF Continue, TypeOK

LEMMA PickKeeps ==
  ASSUME ClaimsInv, NEW p \in Process, Pick(p) PROVE ClaimsInv'
<1> USE DEF ClaimsInv
<1>0. UNCHANGED <<files, world, issued, granted, revoked, clobbered>>
  BY DEF Pick
<1>1. CASE Return(p)
  BY <1>0, <1>1, Returns, ReturnFits, ReadingKeeps, CreatedFits
  DEF TypeOK, Moved, PlacesOK, files, world
<1>2. ASSUME NEW t \in Task, Goto(p, "active", t, None), UNCHANGED <<seen, gone, todo>>
      PROVE  ClaimsInv'
  <2>1. Moved(p, "active", t, None, seen[p])
    BY <1>2, Moves DEF Labels
  <2>2. TypeOK'
    BY <1>0, <1>2, <2>1 DEF TypeOK, Moved, PlacesOK, files, world
  <2>3. CallFits(p)' /\ FileFits(p)'
    BY <1>0, <1>2, <2>1, TargetFacts
    DEF Pick, At, CallsFit, CallFits, FileFits, Moved, Making, Finishing, Done
  <2> QED
    BY <1>0, <2>1, <2>2, <2>3, ReadingKeeps DEF RecordsFit, files
<1> QED
  BY <1>1, <1>2 DEF Pick

LEMMA CheckActiveKeeps ==
  ASSUME ClaimsInv, NEW p \in Process, CheckActive(p) PROVE ClaimsInv'
<1> USE DEF ClaimsInv
<1>0. UNCHANGED <<files, world, issued, granted, revoked, clobbered>>
  BY DEF CheckActive
<1>1. CASE Return(p)
  BY <1>0, <1>1, Returns, ReturnFits, ReadingKeeps, CreatedFits
  DEF TypeOK, Moved, PlacesOK, files, world
<1>2. CASE Continue(p, "open")
  <2>1. Moved(p, "open", at[p], tok[p], seen[p])
        /\ gone' \in [Process -> SUBSET Worker] /\ todo' \in [Process -> SUBSET Task]
    BY <1>2, Continues DEF Labels
  <2>2. TypeOK'
    BY <1>0, <2>1 DEF TypeOK, Moved, PlacesOK, files, world
  <2>3. CallFits(p)' /\ FileFits(p)'
    BY <1>0, <2>1, TargetFacts
    DEF CheckActive, At, CallsFit, CallFits, FileFits, Moved, Making, Finishing, Done
  <2> QED
    BY <1>0, <2>1, <2>2, <2>3, ReadingKeeps DEF RecordsFit, files
<1> QED
  BY <1>1, <1>2 DEF CheckActive

LEMMA FillClaimKeeps ==
  ASSUME ClaimsInv, NEW p \in Process, FillClaim(p) PROVE ClaimsInv'
<1> USE DEF ClaimsInv
<1>0. UNCHANGED <<task, file, world, issued, granted, revoked, clobbered>> /\ Continue(p, "recheck")
  BY DEF FillClaim
<1>1. Moved(p, "recheck", at[p], tok[p], seen[p])
      /\ gone' \in [Process -> SUBSET Worker] /\ todo' \in [Process -> SUBSET Task]
  BY <1>0, Continues DEF Labels
<1>2. TypeOK'
  BY <1>0, <1>1 DEF FillClaim, TypeOK, Moved, PlacesOK, world
<1>3. CallFits(p) /\ FileFits(p) /\ pc[p] = "fill"
  BY DEF FillClaim, At, CallsFit, FilesFit
<1>4. Grant(p)' = Grant(p)
  BY <1>1 DEF Grant, Moved
<1>5. CallFits(p)' /\ FileFits(p)'
  BY <1>0, <1>1, <1>3, <1>4, TargetFacts DEF CallFits, FileFits, Moved, Making, Finishing, Done
<1> QED
  BY <1>0, <1>1, <1>2, <1>5, ReadingKeeps DEF RecordsFit

LEMMA RecheckKeeps ==
  ASSUME ClaimsInv, NEW p \in Process, Recheck(p) PROVE ClaimsInv'
<1> USE DEF ClaimsInv
<1> DEFINE l == IF Eligible(p, at[p], task) THEN "take" ELSE "undo"
<1>0. UNCHANGED <<files, world, issued, granted, gone, todo, revoked, clobbered>>
      /\ Goto(p, l, at[p], tok[p]) /\ seen' = [seen EXCEPT ![p] = task]
  BY DEF Recheck
<1>1. CallFits(p) /\ FileFits(p) /\ pc[p] = "recheck"
  BY DEF Recheck, At, CallsFit, FilesFit
<1>2. Moved(p, l, at[p], tok[p], task)
  BY <1>0, MovesReading DEF Labels, TypeOK
<1>3. TypeOK'
  BY <1>0, <1>2 DEF TypeOK, Moved, PlacesOK, files, world
<1>4. Grant(p)' = Grant(p)
  BY <1>2 DEF Grant, Moved
<1>5. l = "take" => /\ task[at[p]].status = "pending"
                    /\ \A d \in task[at[p]].needs.deps : task[d].status = "completed"
  BY DEF Eligible
<1>7. l \in {"take", "undo"}
  OBVIOUS
<1> HIDE DEF l
<1>8. CallFits(p)'
  BY <1>0, <1>1, <1>2, <1>4, <1>5, <1>7, TargetFacts DEF CallFits, Moved, Making, Finishing, Done
<1>9. FileFits(p)'
  BY <1>0, <1>1, <1>2, <1>5, <1>7 DEF FileFits, Moved, files
<1> QED
  BY <1>0, <1>2, <1>3, <1>8, <1>9, ReadingKeeps DEF RecordsFit, files

LEMMA GrantedClaim ==
  ASSUME TypeOK, NEW g \in granted
  PROVE  g.task \in Task /\ g.token \in Token /\ g = [task |-> g.task, token |-> g.token]
BY DEF TypeOK

(* transitionJwcTeamTaskStatus and releaseJwcTeamTaskClaim begin alike. *)
LEMMA FinishingKeeps ==
  ASSUME ClaimsInv, NEW w \in Worker, NEW g \in granted, NEW l \in Finishing, Accepted(w, g),
         Goto(w, l, g.task, g.token), seen' = [seen EXCEPT ![w] = task],
         UNCHANGED <<files, world, issued, granted, gone, todo, revoked, clobbered>>
  PROVE  ClaimsInv'
<1> USE DEF ClaimsInv
<1>1. w \in Process /\ l \in Labels
  BY TargetFacts DEF Process, Finishing, Labels
<1>2. Moved(w, l, g.task, g.token, task)
  BY <1>1, GrantedClaim, MovesReading DEF TypeOK
<1>3. TypeOK'
  BY <1>2 DEF TypeOK, Moved, PlacesOK, files, world
<1>4. CallFits(w)' /\ FileFits(w)'
  BY <1>2, GrantedClaim, TargetFacts
  DEF Accepted, CallFits, FileFits, Moved, Making, Finishing, Done
<1> QED
  BY <1>1, <1>2, <1>3, <1>4, ReadingKeeps DEF RecordsFit, files

LEMMA TransitionKeeps ==
  ASSUME ClaimsInv, NEW w \in Worker, NEW status \in Targets, Transition(w, status) PROVE ClaimsInv'
BY FinishingKeeps DEF Transition, Finishing

LEMMA ReleaseKeeps ==
  ASSUME ClaimsInv, NEW w \in Worker, Release(w) PROVE ClaimsInv'
BY FinishingKeeps DEF Release, Finishing

LEMMA CheckOwnedKeeps ==
  ASSUME ClaimsInv, NEW p \in Process, CheckOwned(p) PROVE ClaimsInv'
<1> USE DEF ClaimsInv
<1>0. UNCHANGED <<files, world, issued, granted, revoked, clobbered>>
  BY DEF CheckOwned
<1>1. CASE Return(p)
  BY <1>0, <1>1, Returns, ReturnFits, ReadingKeeps, CreatedFits
  DEF TypeOK, Moved, PlacesOK, files, world
<1>2. CASE Continue(p, "settled")
  <2>1. Moved(p, "settled", at[p], tok[p], seen[p])
        /\ gone' \in [Process -> SUBSET Worker] /\ todo' \in [Process -> SUBSET Task]
    BY <1>2, Continues DEF Labels
  <2>2. TypeOK'
    BY <1>0, <2>1 DEF TypeOK, Moved, PlacesOK, files, world
  <2>3. Grant(p)' = Grant(p)
    BY <2>1 DEF Grant, Moved
  <2>4. CallFits(p) /\ pc[p] = "released"
    BY DEF CheckOwned, At, CallsFit
  <2>5. CallFits(p)' /\ FileFits(p)'
    BY <1>0, <2>1, <2>3, <2>4, TargetFacts DEF CallFits, FileFits, Moved, Making, Finishing, Done
  <2> QED
    BY <1>0, <2>1, <2>2, <2>5, ReadingKeeps DEF RecordsFit, files
<1> QED
  BY <1>1, <1>2 DEF CheckOwned

LEMMA ReadForUpdateKeeps ==
  ASSUME ClaimsInv, NEW p \in Process, ReadForUpdate(p) PROVE ClaimsInv'
<1> USE DEF ClaimsInv
<1>0. PICK t \in Task : Goto(p, "update", t, None)
  BY DEF ReadForUpdate
<1>1. Moved(p, "update", t, None, task)
  BY <1>0, MovesReading DEF ReadForUpdate, Labels, TypeOK
<1>2. TypeOK'
  BY <1>1 DEF ReadForUpdate, TypeOK, Moved, PlacesOK, files, world
<1>3. CallFits(p)' /\ FileFits(p)'
  BY <1>1, TargetFacts DEF CallFits, FileFits, Moved, Making, Finishing, Done
<1> QED
  BY <1>1, <1>2, <1>3, ReadingKeeps DEF ReadForUpdate, RecordsFit, files

-----------------------------------------------------------------------------
(* Steps that write a task.  The holder of an unclobbered task is named in    *)
(* the record as the call has read it, and stays so.                          *)
LEMMA HolderStays ==
  ASSUME ClaimsInv, NEW g \in granted, g \in granted',
         clobbered \subseteq clobbered', revoked \subseteq revoked',
         \A h \in granted' : h \in granted,
         issued[g.token.by] <= issued'[g.token.by],
         issued[g.token.by] \in Nat, issued'[g.token.by] \in Nat,
         g.task \notin clobbered' /\ g.token \notin revoked'
           => task'[g.task].claim = task[g.task].claim /\ file'[g.task] = file[g.task]
  PROVE  HolderFits(g)'
<1>1. HolderFits(g) /\ g.task \in Task /\ g.token \in Token
  BY GrantedClaim DEF ClaimsInv, HoldersFit
<1>2. g.token.n <= issued'[g.token.by]
  BY <1>1, TokenFacts DEF HolderFits
<1> QED
  BY <1>1, <1>2 DEF HolderFits

Backed(p, r) ==
  /\ seen[p][at[p]].status = "completed" => r.status = "completed"
  /\ \A g \in granted' : /\ g.task = at[p] /\ g.token \notin revoked
                          /\ seen[p][at[p]].claim = g.token => r.claim = g.token

LEMMA WritingKeeps ==
  ASSUME ClaimsInv, NEW p \in Process, Alone(p), ReadingFits(p)',
         NEW r \in Records, Fits(r), at[p] \in Task, WriteTask(p, at[p], r),
         UNCHANGED <<file, issued, revoked>>, granted' \subseteq granted,
         CallFits(p)', FileFits(p)',
         Backed(p, r)
  PROVE  RecordsFit' /\ CallsFit' /\ FilesFit' /\ HoldersFit'
<1> USE DEF ClaimsInv
<1>1. \A u \in Task : task'[u] = IF u = at[p] THEN r ELSE task[u]
  BY DEF WriteTask, TypeOK
<1>2. clobbered \subseteq clobbered' /\ (at[p] \in clobbered' \/ task[at[p]] = seen[p][at[p]])
  BY DEF WriteTask
<1>3. \A u \in Task : Fits(task'[u])
  BY <1>1 DEF RecordsFit
<1>4. DoneKept /\ FilesKept(p)
  BY <1>1, <1>2 DEF DoneKept, FilesKept, Backed
<1>5. ASSUME NEW g \in granted' PROVE HolderFits(g)'
  <2>1. HolderFits(g) /\ g \in granted /\ g.task \in Task /\ g.token \in Token
    BY GrantedClaim DEF HoldersFit
  <2>2. issued[g.token.by] \in Nat
    BY <2>1, TokenFacts DEF TypeOK
  <2>3. g.task \notin clobbered' /\ g.token \notin revoked => task'[g.task].claim = task[g.task].claim
    BY <1>1, <1>2, <2>1 DEF HolderFits, Backed
  <2> QED
    BY <1>2, <1>4, <2>1, <2>2, <2>3, HolderStays
<1> QED
  BY <1>2, <1>3, <1>4, <1>5, StepKeeps

LEMMA RecordFacts ==
  ASSUME NEW r \in Records
  PROVE  r.status \in Status /\ r.owner \in Worker \cup {None} /\ r.claim \in Token \cup {None}
BY DEF Records

LEMMA ChangedIsRecord ==
  ASSUME NEW p \in Process, seen[p][at[p]] \in Records, NEW status \in Status,
         NEW owner \in Worker \cup {None}, NEW claim \in Token \cup {None}
  PROVE  /\ Changed(p, status, owner, claim) \in Records
         /\ Changed(p, status, owner, claim).status = status
         /\ Changed(p, status, owner, claim).owner = owner
         /\ Changed(p, status, owner, claim).claim = claim
BY DEF Changed, Records

LEMMA ReadFacts ==
  ASSUME TypeOK, RecordsFit, NEW p \in Process, at[p] \in Task
  PROVE  seen[p][at[p]] \in Records /\ Fits(seen[p][at[p]])
BY DEF TypeOK, RecordsFit

LEMMA PendingFits ==
  ASSUME NEW p \in Process, seen[p][at[p]] \in Records, NEW o \in Worker \cup {None}
  PROVE  Changed(p, "pending", o, None) \in Records /\ Fits(Changed(p, "pending", o, None))
BY ChangedIsRecord, TokenFacts DEF Fits, Status

LEMMA RequeueKeeps ==
  ASSUME ClaimsInv, NEW p \in Process, Requeue(p) PROVE ClaimsInv'
<1> USE DEF ClaimsInv
<1> DEFINE r == seen[p][at[p]]
<1>1. CallFits(p) /\ pc[p] = "requeue"
  BY DEF CallsFit, Requeue, At
<1>2. /\ at[p] \in Task /\ tok[p] \in revoked
      /\ r.claim \in {None, tok[p]} /\ r.status = "in_progress"
  BY <1>1 DEF CallFits
<1>3. r \in Records /\ Fits(r)
  BY <1>2, ReadFacts
<1>4. Changed(p, "pending", r.owner, None) \in Records /\ Fits(Changed(p, "pending", r.owner, None))
  BY <1>3, RecordFacts, PendingFits
<1>5. Moved(p, "claims", None, None, seen[p])
  BY Moves DEF Requeue, Labels
<1>6. TypeOK'
  BY <1>4, <1>5, <1>2 DEF Requeue, WriteTask, TypeOK, Moved, PlacesOK, world
<1>7. CallFits(p)' /\ FileFits(p)'
  BY <1>1, <1>5, TargetFacts DEF Requeue, CallFits, FileFits, Moved, Making, Finishing, Done
<1>8. r.claim # None
  BY <1>2, <1>3 DEF Fits
<1>9. /\ WriteTask(p, at[p], Changed(p, "pending", r.owner, None))
      /\ UNCHANGED <<file, issued, granted, revoked>>
  BY DEF Requeue
<1>10. Alone(p) /\ ReadingFits(p)'
  BY <1>5 DEF Moved, ReadingFits, Fits, RecordsFit
<1>11. Backed(p, Changed(p, "pending", r.owner, None))
  BY <1>2, <1>8, <1>9 DEF Backed
<1>12. RecordsFit' /\ CallsFit' /\ FilesFit' /\ HoldersFit'
  BY <1>2, <1>4, <1>7, <1>9, <1>10, <1>11, WritingKeeps
<1> QED
  BY <1>6, <1>12

LEMMA WriteReleasedKeeps ==
  ASSUME ClaimsInv, NEW p \in Process, WriteReleased(p) PROVE ClaimsInv'
<1> USE DEF ClaimsInv
<1> DEFINE r == seen[p][at[p]]
<1>1. CallFits(p) /\ pc[p] = "release"
  BY DEF CallsFit, WriteReleased, At
<1>2. /\ p \in Worker /\ at[p] \in Task /\ tok[p] \in Token /\ tok[p].by = p /\ r.claim = tok[p]
  BY <1>1 DEF CallFits, Finishing
<1>3. r \in Records /\ Fits(r)
  BY <1>2, ReadFacts
<1>4. Changed(p, "pending", r.owner, None) \in Records /\ Fits(Changed(p, "pending", r.owner, None))
  BY <1>3, RecordFacts, PendingFits
<1>5. Moved(p, "released", at[p], tok[p], seen[p])
      /\ gone' \in [Process -> SUBSET Worker] /\ todo' \in [Process -> SUBSET Task]
  BY Continues DEF WriteReleased, Labels
<1>6. TypeOK'
  BY <1>4, <1>5, <1>2 DEF WriteReleased, Finished, WriteTask, TypeOK, Moved, PlacesOK, world
<1>7. Grant(p)' = Grant(p) /\ granted' = granted \ {Grant(p)}
  BY <1>5 DEF Moved, Grant, WriteReleased, Finished
<1>8. CallFits(p)' /\ FileFits(p)'
  BY <1>1, <1>2, <1>5, <1>7, TargetFacts DEF CallFits, FileFits, Moved, Making, Finishing, Done
<1>9. \A g \in granted' : g.task = at[p] => g.token # tok[p]
  BY <1>7, GrantedClaim DEF Grant
<1>10. r.status # "completed"
  BY <1>2, <1>3, TokenFacts DEF Fits
<1>11. /\ WriteTask(p, at[p], Changed(p, "pending", r.owner, None))
       /\ UNCHANGED <<file, issued, revoked>> /\ granted' \subseteq granted
  BY <1>7 DEF WriteReleased
<1>12. Alone(p) /\ ReadingFits(p)'
  BY <1>5 DEF Moved, ReadingFits, Fits, RecordsFit
<1>13. Backed(p, Changed(p, "pending", r.owner, None))
  BY <1>2, <1>9, <1>10 DEF Backed
<1>14. RecordsFit' /\ CallsFit' /\ FilesFit' /\ HoldersFit'
  BY <1>2, <1>4, <1>8, <1>11, <1>12, <1>13, WritingKeeps
<1> QED
  BY <1>6, <1>14

(* An edit keeps status, owner and claim. *)
LEMMA UpdateKeeps ==
  ASSUME ClaimsInv, NEW p \in Process, Update(p) PROVE ClaimsInv'
<1> USE DEF ClaimsInv
<1>1. at[p] \in Task
  BY DEF CallsFit, CallFits, Update, At
<1>2. seen[p][at[p]] \in Records /\ Fits(seen[p][at[p]])
  BY <1>1, ReadFacts
<1>3. PICK n \in {seen[p][at[p]].needs} \cup Edits :
        WriteTask(p, at[p], [seen[p][at[p]] EXCEPT !.needs = n])
  BY DEF Update
<1> DEFINE written == [seen[p][at[p]] EXCEPT !.needs = n]
<1>4. /\ written \in Records /\ written.status = seen[p][at[p]].status
      /\ written.owner = seen[p][at[p]].owner /\ written.claim = seen[p][at[p]].claim
  BY <1>2, TeamAssumption DEF Records
<1>5. WriteTask(p, at[p], written) /\ UNCHANGED <<file, torn, world, issued, granted, revoked>>
  BY <1>3 DEF Update
<1> HIDE DEF written
<1>6. Fits(written)
  BY <1>2, <1>4 DEF Fits
<1>7. Moved(p, "idle", None, None, Created)
      /\ gone' \in [Process -> SUBSET Worker] /\ todo' \in [Process -> SUBSET Task]
  BY Returns DEF Update
<1>8. TypeOK'
  BY <1>1, <1>4, <1>5, <1>7 DEF WriteTask, TypeOK, Moved, PlacesOK, world
<1>9. CallFits(p)' /\ FileFits(p)'
  BY <1>7, ReturnFits
<1>10. Alone(p) /\ ReadingFits(p)'
  BY <1>7, CreatedFits DEF Moved, ReadingFits, Fits
<1>11. Backed(p, written)
  BY <1>4 DEF Backed
<1>12. RecordsFit' /\ CallsFit' /\ FilesFit' /\ HoldersFit'
  BY <1>1, <1>4, <1>5, <1>6, <1>9, <1>10, <1>11, WritingKeeps
<1> QED
  BY <1>8, <1>12

LEMMA WriteStatusKeeps ==
  ASSUME ClaimsInv, NEW p \in Process, NEW status \in Targets, WriteStatus(p, status)
  PROVE  ClaimsInv'
<1> USE DEF ClaimsInv
<1> DEFINE r == seen[p][at[p]]
           written == Changed(p, status, r.owner, IF status \in Terminal THEN None ELSE r.claim)
<1>1. CallFits(p) /\ pc[p] = status /\ status \in Status
  BY TeamAssumption DEF CallsFit, WriteStatus, At
<1>2. /\ p \in Worker /\ at[p] \in Task /\ tok[p] \in Token /\ tok[p].by = p /\ r.claim = tok[p]
  BY <1>1 DEF CallFits, Finishing
<1>3. r \in Records /\ Fits(r)
  BY <1>2, ReadFacts
<1>4. r.owner = p /\ r.status # "completed"
  BY <1>2, <1>3, TokenFacts DEF Fits
<1>5. /\ written \in Records /\ Fits(written)
      /\ written.status = status /\ (status \notin Terminal => written.claim = r.claim)
  <2>1. r.owner \in Worker \cup {None} /\ r.claim \in Token \cup {None}
    BY <1>3, RecordFacts
  <2>2. /\ written \in Records /\ written.status = status /\ written.owner = r.owner
        /\ written.claim = IF status \in Terminal THEN None ELSE r.claim
    BY <1>1, <1>3, <2>1, ChangedIsRecord
  <2> QED
    BY <1>1, <1>2, <1>4, <2>2, TokenFacts, TargetFacts DEF Fits, Terminal
<1>6. WriteTask(p, at[p], written) /\ UNCHANGED <<file, torn, world, issued, revoked>>
  BY DEF WriteStatus
<1> HIDE DEF written
<1>7. CASE status \in Terminal
  <2>1. Continue(p, "settled") /\ granted' = granted \ {Grant(p)}
    BY <1>7 DEF WriteStatus, Finished, Grant
  <2>2. Moved(p, "settled", at[p], tok[p], seen[p])
        /\ gone' \in [Process -> SUBSET Worker] /\ todo' \in [Process -> SUBSET Task]
    BY <2>1, Continues DEF Labels
  <2>3. TypeOK'
    BY <1>2, <1>5, <1>6, <2>1, <2>2 DEF WriteTask, TypeOK, Moved, PlacesOK, world
  <2>4. Grant(p)' = Grant(p)
    BY <2>2 DEF Moved, Grant
  <2>5. CallFits(p)' /\ FileFits(p)'
    BY <1>2, <2>1, <2>2, <2>4, TargetFacts DEF CallFits, FileFits, Moved, Making, Finishing, Done
  <2>6. Alone(p) /\ ReadingFits(p)'
    BY <2>2 DEF Moved, ReadingFits, Fits, RecordsFit
  <2>7. \A g \in granted' : g.task = at[p] => g.token # tok[p]
    BY <2>1, GrantedClaim DEF Grant
  <2>8. Backed(p, written)
    BY <1>2, <1>4, <2>7 DEF Backed
  <2>9. RecordsFit' /\ CallsFit' /\ FilesFit' /\ HoldersFit'
    BY <1>2, <1>5, <1>6, <2>1, <2>5, <2>6, <2>8, WritingKeeps
  <2> QED
    BY <2>3, <2>9
<1>8. CASE status \notin Terminal
  <2>1. Return(p) /\ granted' = granted
    BY <1>8 DEF WriteStatus
  <2>2. Moved(p, "idle", None, None, Created)
        /\ gone' \in [Process -> SUBSET Worker] /\ todo' \in [Process -> SUBSET Task]
    BY <2>1, Returns
  <2>3. TypeOK'
    BY <1>2, <1>5, <1>6, <2>1, <2>2 DEF WriteTask, TypeOK, Moved, PlacesOK, world
  <2>4. CallFits(p)' /\ FileFits(p)'
    BY <2>2, ReturnFits
  <2>5. Alone(p) /\ ReadingFits(p)'
    BY <2>2, CreatedFits DEF Moved, ReadingFits, Fits
  <2>6. Backed(p, written)
    BY <1>4, <1>5, <1>8 DEF Backed
  <2>7. RecordsFit' /\ CallsFit' /\ FilesFit' /\ HoldersFit'
    BY <1>2, <1>5, <1>6, <2>1, <2>4, <2>5, <2>6, WritingKeeps
  <2> QED
    BY <2>3, <2>7
<1> QED
  BY <1>7, <1>8

(* Taking the task: the claim file still holds the token, so nobody else has  *)
(* the task.                                                                  *)
LEMMA TakeKeeps ==
  ASSUME ClaimsInv, NEW p \in Process, Take(p) PROVE ClaimsInv'
<1> USE DEF ClaimsInv
<1> DEFINE written == Changed(p, "in_progress", p, tok[p])
<1>1. CallFits(p) /\ FileFits(p) /\ pc[p] = "take"
  BY DEF CallsFit, FilesFit, Take, At
<1>2. /\ p \in Worker /\ at[p] \in Task /\ tok[p] \in Token /\ tok[p].by = p
      /\ tok[p].n = issued[p] /\ seen[p][at[p]].status = "pending"
  BY <1>1 DEF CallFits, Making
<1>3. at[p] \notin clobbered /\ tok[p] \notin revoked => file[at[p]] = tok[p]
  BY <1>1 DEF FileFits
<1>4. written \in Records /\ Fits(written) /\ written.claim = tok[p]
  <2>1. seen[p][at[p]] \in Records
    BY <1>2, ReadFacts
  <2>2. "in_progress" \in Status
    BY DEF Status
  <2>3. /\ written \in Records /\ written.status = "in_progress"
        /\ written.owner = p /\ written.claim = tok[p]
    BY <1>2, <2>1, <2>2, ChangedIsRecord
  <2> QED
    BY <1>2, <2>3, TokenFacts DEF Fits
<1>5. PICK grant \in [task : Task, token : Token] : grant = Grant(p)
  BY <1>2 DEF Grant
<1>6. grant.task = at[p] /\ grant.token = tok[p] /\ written.claim = tok[p]
  BY <1>4, <1>5 DEF Grant
<1>7. /\ WriteTask(p, at[p], written) /\ granted' = granted \cup {grant}
      /\ UNCHANGED <<file, torn, world, issued, revoked>> /\ Return(p)
  BY <1>5 DEF Take, Grant
<1>8. Moved(p, "idle", None, None, Created)
      /\ gone' \in [Process -> SUBSET Worker] /\ todo' \in [Process -> SUBSET Task]
  BY <1>7, Returns
<1> HIDE DEF written
<1>9. TypeOK'
  BY <1>2, <1>4, <1>5, <1>7, <1>8 DEF WriteTask, TypeOK, Moved, PlacesOK, world
<1>10. CallFits(p)' /\ FileFits(p)'
  BY <1>8, ReturnFits
<1>11. Alone(p) /\ ReadingFits(p)'
  BY <1>8, CreatedFits DEF Moved, ReadingFits, Fits
<1>12. \A u \in Task : task'[u] = IF u = at[p] THEN written ELSE task[u]
  BY <1>7 DEF WriteTask, TypeOK
<1>13. clobbered \subseteq clobbered' /\ (at[p] \in clobbered' \/ task[at[p]] = seen[p][at[p]])
  BY <1>7 DEF WriteTask
<1>14. \A u \in Task : Fits(task'[u])
  BY <1>4, <1>12 DEF RecordsFit
<1>15. DoneKept /\ FilesKept(p)
  BY <1>2, <1>7, <1>12, <1>13 DEF DoneKept, FilesKept
<1>16. ASSUME NEW g \in granted, g.task \notin clobbered', g.token \notin revoked
       PROVE  g.task # at[p]
  <2>1. g.task \in Task /\ g.token \in Token /\ task[g.task].claim = g.token /\ Fits(task[g.task])
    BY <1>13, <1>16, GrantedClaim DEF HoldersFit, HolderFits, RecordsFit
  <2> QED
    BY <1>2, <1>13, <1>16, <2>1, TokenFacts DEF Fits
<1>17. ASSUME NEW g \in granted, g # grant PROVE HolderFits(g)'
  <2>1. HolderFits(g) /\ g.task \in Task /\ g.token \in Token
    BY GrantedClaim DEF HoldersFit
  <2>2. g.token.n <= issued'[g.token.by]
    BY <1>7, <2>1 DEF HolderFits
  <2>3. g.task \notin clobbered' /\ g.token \notin revoked'
          => task'[g.task].claim = g.token /\ file'[g.task] = g.token
    BY <1>7, <1>12, <1>13, <1>16, <2>1 DEF HolderFits
  <2>4. g.task \notin clobbered' /\ g.token \notin revoked'
          => \A h \in granted' : h.task = g.task /\ h.token \notin revoked' => h = g
    BY <1>7, <1>6, <1>13, <1>16, <2>1 DEF HolderFits
  <2> QED
    BY <2>2, <2>3, <2>4 DEF HolderFits
<1>18. HolderFits(grant)'
  <2>1. grant.token.n <= issued'[grant.token.by]
    BY <1>2, <1>6, <1>7 DEF TypeOK
  <2>2. grant.task \notin clobbered' /\ grant.token \notin revoked'
          => task'[grant.task].claim = grant.token /\ file'[grant.task] = grant.token
    BY <1>2, <1>3, <1>6, <1>7, <1>12, <1>13
  <2>3. grant.task \notin clobbered' /\ grant.token \notin revoked'
          => \A h \in granted' : h.task = grant.task /\ h.token \notin revoked' => h = grant
    BY <1>6, <1>7, <1>16
  <2> QED
    BY <2>1, <2>2, <2>3 DEF HolderFits
<1>19. RecordsFit' /\ CallsFit' /\ FilesFit' /\ HoldersFit'
  BY <1>2, <1>7, <1>6, <1>10, <1>11, <1>13, <1>14, <1>15, <1>17, <1>18, StepKeeps
<1> QED
  BY <1>9, <1>19

-----------------------------------------------------------------------------
(* Steps that remove or make a claim file. *)
LEMMA RemovingKeeps ==
  ASSUME ClaimsInv, NEW p \in Process, Alone(p), ReadingFits(p)',
         at[p] \in Task, tok[p] \in Token, RemoveClaim(at[p], tok[p]),
         UNCHANGED <<task, issued, granted>>, revoked \subseteq revoked',
         CallFits(p)', FileFits(p)',
         tok[p] \in revoked' \/ (tok[p].by = p /\ Grant(p) \notin granted)
  PROVE  RecordsFit' /\ CallsFit' /\ FilesFit' /\ HoldersFit'
<1> USE DEF ClaimsInv
<1>1. \A u \in Task : file'[u] = IF u = at[p] THEN None ELSE file[u]
  BY DEF RemoveClaim, TypeOK
<1>2. clobbered \subseteq clobbered' /\ (at[p] \in clobbered' \/ file[at[p]] \in {None, tok[p]})
  BY DEF RemoveClaim
<1>3. DoneKept /\ FilesKept(p)
  BY <1>1, <1>2 DEF DoneKept, FilesKept
<1>4. ASSUME NEW g \in granted' PROVE HolderFits(g)'
  <2>1. /\ HolderFits(g) /\ g \in granted /\ g.task \in Task /\ g.token \in Token
        /\ g = [task |-> g.task, token |-> g.token]
    BY GrantedClaim DEF HoldersFit
  <2>2. issued[g.token.by] \in Nat
    BY <2>1, TokenFacts DEF TypeOK
  <2>3. g.task = at[p] => g.token # tok[p] \/ tok[p] \in revoked'
    BY <2>1 DEF Grant
  <2>4. g.task \notin clobbered' /\ g.token \notin revoked' => file'[g.task] = file[g.task]
    BY <1>1, <1>2, <2>1, <2>3, TokenFacts DEF HolderFits
  <2> QED
    BY <1>2, <1>3, <2>1, <2>2, <2>4, HolderStays
<1>5. \A u \in Task : Fits(task'[u])
  BY DEF RecordsFit
<1> QED
  BY <1>2, <1>3, <1>4, <1>5, StepKeeps

LEMMA RevokeKeeps ==
  ASSUME ClaimsInv, NEW p \in Process, Revoke(p) PROVE ClaimsInv'
<1> USE DEF ClaimsInv
<1> DEFINE l == IF seen[p][at[p]].status = "in_progress" THEN "requeue" ELSE "claims"
<1>1. CallFits(p) /\ pc[p] = "revoke"
  BY DEF CallsFit, Revoke, At
<1>2. at[p] \in Task /\ tok[p] \in Token /\ seen[p][at[p]].claim \in {None, tok[p]}
  BY <1>1 DEF CallFits
<1>3. /\ RemoveClaim(at[p], tok[p]) /\ revoked' = revoked \cup {tok[p]}
      /\ UNCHANGED <<task, torn, world, issued, granted>> /\ Continue(p, l)
  BY DEF Revoke
<1>4. Moved(p, l, at[p], tok[p], seen[p])
      /\ gone' \in [Process -> SUBSET Worker] /\ todo' \in [Process -> SUBSET Task]
  BY <1>3, Continues DEF Labels
<1>5. l \in {"requeue", "claims"} /\ (l = "requeue" => seen[p][at[p]].status = "in_progress")
  OBVIOUS
<1> HIDE DEF l
<1>6. TypeOK'
  BY <1>2, <1>3, <1>4 DEF RemoveClaim, TypeOK, Moved, PlacesOK, world
<1>7. CallFits(p)' /\ FileFits(p)'
  BY <1>1, <1>2, <1>3, <1>4, <1>5, TargetFacts
  DEF CallFits, FileFits, Moved, Making, Finishing, Done
<1>8. Alone(p) /\ ReadingFits(p)'
  BY <1>4 DEF Moved, ReadingFits, Fits, RecordsFit
<1>9. RecordsFit' /\ CallsFit' /\ FilesFit' /\ HoldersFit'
  BY <1>2, <1>3, <1>7, <1>8, RemovingKeeps
<1> QED
  BY <1>6, <1>9

(* Undo and RemoveSettled: a call takes its own claim back. *)
LEMMA TakingBackKeeps ==
  ASSUME ClaimsInv, NEW p \in Process, pc[p] \in Making \cup Done, Return(p),
         RemoveClaim(at[p], tok[p]), UNCHANGED <<task, torn, world, issued, granted, revoked>>
  PROVE  ClaimsInv'
<1> USE DEF ClaimsInv
<1>1. CallFits(p)
  BY DEF CallsFit
<1>2. at[p] \in Task /\ tok[p] \in Token /\ tok[p].by = p /\ Grant(p) \notin granted
  BY <1>1 DEF CallFits
<1>3. Moved(p, "idle", None, None, Created)
      /\ gone' \in [Process -> SUBSET Worker] /\ todo' \in [Process -> SUBSET Task]
  BY Returns
<1>4. TypeOK'
  BY <1>2, <1>3 DEF RemoveClaim, TypeOK, Moved, PlacesOK, world
<1>5. CallFits(p)' /\ FileFits(p)'
  BY <1>3, ReturnFits
<1>6. Alone(p) /\ ReadingFits(p)'
  BY <1>3, CreatedFits DEF Moved, ReadingFits, Fits
<1>7. RecordsFit' /\ CallsFit' /\ FilesFit' /\ HoldersFit'
  BY <1>2, <1>5, <1>6, RemovingKeeps
<1> QED
  BY <1>4, <1>7

LEMMA UndoKeeps ==
  ASSUME ClaimsInv, NEW p \in Process, Undo(p) PROVE ClaimsInv'
BY TakingBackKeeps DEF Undo, At, Making

LEMMA RemoveSettledKeeps ==
  ASSUME ClaimsInv, NEW p \in Process, RemoveSettled(p) PROVE ClaimsInv'
BY TakingBackKeeps DEF RemoveSettled, At, Done

LEMMA OpenClaimKeeps ==
  ASSUME ClaimsInv, NEW p \in Process, OpenClaim(p) PROVE ClaimsInv'
<1> USE DEF ClaimsInv
<1>0. UNCHANGED <<task, world, granted, revoked, clobbered>>
  BY DEF OpenClaim
<1>1. CASE Return(p) /\ UNCHANGED <<file, torn, issued>>
  BY <1>0, <1>1, Returns, ReturnFits, ReadingKeeps, CreatedFits
  DEF TypeOK, Moved, PlacesOK, world
<1>2. CASE file[at[p]] = None /\ Goto(p, "fill", at[p], NextToken(p))
  <2>1. CallFits(p) /\ pc[p] = "open"
    BY DEF CallsFit, OpenClaim, At
  <2>2. p \in Worker /\ at[p] \in Task /\ issued[p] < MaxClaims[p]
    BY <2>1 DEF CallFits
  <2>3. PICK k \in Token : k = NextToken(p) /\ k.by = p /\ k.n = issued[p] + 1
    BY <2>2, NextTokenIsToken
  <2>4. /\ file' = [file EXCEPT ![at[p]] = k] /\ torn' = torn \cup {k}
        /\ issued' = [issued EXCEPT ![p] = @ + 1] /\ Goto(p, "fill", at[p], k)
        /\ UNCHANGED <<seen, gone, todo>>
    BY <1>2, <2>3, TokenFacts DEF OpenClaim
  <2>5. Moved(p, "fill", at[p], k, seen[p])
    BY <2>2, <2>4, Moves DEF Labels
  <2>6. TypeOK'
    BY <1>0, <2>2, <2>4, <2>5 DEF TypeOK, Moved, PlacesOK, world
  <2>7. /\ \A w \in Worker : issued'[w] = IF w = p THEN issued[p] + 1 ELSE issued[w]
        /\ \A w \in Worker : issued[w] \in Nat
        /\ \A u \in Task : file'[u] = IF u = at[p] THEN k ELSE file[u]
    BY <2>2, <2>4 DEF TypeOK
  <2>8. Grant(p)' \notin granted'
    <3>1. Grant(p)'.token = k
      BY <2>5 DEF Grant, Moved
    <3>2. \A g \in granted : g.token # k
      BY <2>2, <2>3, <2>7 DEF HoldersFit, HolderFits
    <3> QED
      BY <1>0, <3>1, <3>2
  <2>9. CallFits(p)' /\ FileFits(p)'
    BY <2>2, <2>3, <2>5, <2>7, <2>8, TargetFacts
    DEF CallFits, FileFits, Moved, Making, Finishing, Done
  <2>10. Alone(p) /\ ReadingFits(p)'
    BY <2>5 DEF Moved, ReadingFits, Fits, RecordsFit
  <2>11. DoneKept /\ FilesKept(p)
    BY <1>0, <1>2, <2>7 DEF DoneKept, FilesKept
  <2>12. ASSUME NEW g \in granted' PROVE HolderFits(g)'
    <3>1. HolderFits(g) /\ g \in granted /\ g.task \in Task /\ g.token \in Token
      BY <1>0, GrantedClaim DEF HoldersFit
    <3>2. /\ issued[g.token.by] \in Nat /\ issued'[g.token.by] \in Nat
          /\ issued[g.token.by] <= issued'[g.token.by]
      BY <2>2, <2>7, <3>1, TokenFacts
    <3>3. g.task \notin clobbered' /\ g.token \notin revoked' => file'[g.task] = file[g.task]
      BY <1>0, <1>2, <2>7, <3>1, TokenFacts DEF HolderFits
    <3> QED
      BY <1>0, <2>11, <3>1, <3>2, <3>3, HolderStays
  <2>13. \A u \in Task : Fits(task'[u])
    BY <1>0 DEF RecordsFit
  <2>14. RecordsFit' /\ CallsFit' /\ FilesFit' /\ HoldersFit'
    BY <1>0, <2>7, <2>9, <2>10, <2>11, <2>12, <2>13, StepKeeps
  <2> QED
    BY <2>6, <2>14
<1> QED
  BY <1>1, <1>2 DEF OpenClaim

-----------------------------------------------------------------------------
(* Time and kills. *)
LEMMA KillKeeps ==
  ASSUME ClaimsInv, NEW w \in Worker, Kill(w) PROVE ClaimsInv'
<1> USE DEF ClaimsInv
<1>1. w \in Process
  BY DEF Process
<1>2. /\ Return(w) /\ dead' = dead \cup {w} /\ granted' = {g \in granted : g.token.by # w}
      /\ UNCHANGED <<files, expired, stale, issued, revoked, clobbered>>
  BY DEF Kill
<1>3. Moved(w, "idle", None, None, Created)
      /\ gone' \in [Process -> SUBSET Worker] /\ todo' \in [Process -> SUBSET Task]
  BY <1>1, <1>2, Returns
<1>4. TypeOK'
  BY <1>2, <1>3 DEF TypeOK, Moved, PlacesOK, files
<1>5. CallFits(w)' /\ FileFits(w)'
  BY <1>1, <1>3, ReturnFits
<1>6. Alone(w) /\ ReadingFits(w)'
  BY <1>3, CreatedFits DEF Moved, ReadingFits, Fits
<1>7. DoneKept /\ FilesKept(w) /\ \A u \in Task : Fits(task'[u])
  BY <1>2 DEF DoneKept, FilesKept, RecordsFit, files
<1>8. ASSUME NEW g \in granted' PROVE HolderFits(g)'
  <2>1. HolderFits(g) /\ g \in granted /\ g.task \in Task /\ g.token \in Token
    BY <1>2, GrantedClaim DEF HoldersFit
  <2>2. issued[g.token.by] \in Nat
    BY <2>1, TokenFacts DEF TypeOK
  <2> QED
    BY <1>2, <1>7, <2>1, <2>2, HolderStays DEF files
<1>9. RecordsFit' /\ CallsFit' /\ FilesFit' /\ HoldersFit'
  BY <1>1, <1>2, <1>5, <1>6, <1>7, <1>8, StepKeeps
<1> QED
  BY <1>4, <1>9

(* Expiry and ageing touch no file and no call. *)
LEMMA WorldKeeps ==
  ASSUME ClaimsInv, UNCHANGED <<files, issued, granted, local, revoked, clobbered>>,
         expired' \subseteq Token, stale' \subseteq Worker, dead' \subseteq Worker
  PROVE  ClaimsInv'
<1> USE DEF files, local
<1>1. TypeOK'
  BY DEF ClaimsInv, TypeOK
<1>2. RecordsFit' /\ CallsFit'
  BY DEF ClaimsInv, RecordsFit, CallsFit, Fits, CallFits, Grant, Making, Finishing, Done
<1>3. FilesFit' /\ HoldersFit'
  BY DEF ClaimsInv, FilesFit, FileFits, HoldersFit, HolderFits
<1> QED
  BY <1>1, <1>2, <1>3 DEF ClaimsInv

LEMMA InitFits == Init => ClaimsInv
<1> SUFFICES ASSUME Init PROVE ClaimsInv
  OBVIOUS
<1> USE TokenFacts, TeamAssumption DEF Init
<1>1. \A t \in Task : task[t] \in Records /\ Fits(task[t])
  BY CreatedFits
<1>2. TypeOK
  BY <1>1, CreatedFits DEF TypeOK, Labels
<1>3. RecordsFit
  BY <1>1, CreatedFits DEF RecordsFit
<1>4. CallsFit /\ FilesFit /\ HoldersFit
  BY TargetFacts DEF CallsFit, CallFits, FilesFit, FileFits, HoldersFit, Making, Finishing, Done
<1> QED
  BY <1>2, <1>3, <1>4 DEF ClaimsInv

LEMMA NextKeeps == ClaimsInv /\ [Next]_vars => ClaimsInv'
<1> SUFFICES ASSUME ClaimsInv, [Next]_vars PROVE ClaimsInv'
  OBVIOUS
<1>1. ASSUME NEW p \in Process, Steps(p) PROVE ClaimsInv'
  BY <1>1, ReadTasksKeeps, LookAtClaimKeeps, RevokeKeeps, RequeueKeeps, ReconciledKeeps, PickKeeps,
     CheckActiveKeeps, OpenClaimKeeps, FillClaimKeeps, RecheckKeeps, UndoKeeps, TakeKeeps,
     WriteStatusKeeps, RemoveSettledKeeps, WriteReleasedKeeps, CheckOwnedKeeps, UpdateKeeps
  DEF Steps
<1>2. ASSUME NEW p \in Process, Reconcile(p) \/ ReadForUpdate(p) PROVE ClaimsInv'
  BY <1>2, ReconcileKeeps, ReadForUpdateKeeps
<1>3. ASSUME NEW w \in Worker, (\E status \in Targets : Transition(w, status)) \/ Release(w)
      PROVE  ClaimsInv'
  BY <1>3, TransitionKeeps, ReleaseKeeps
<1>4. ASSUME NEW k \in Token, Expire(k) PROVE ClaimsInv'
  BY <1>4, WorldKeeps DEF Expire, ClaimsInv, TypeOK
<1>5. ASSUME NEW w \in Worker, GoStale(w) PROVE ClaimsInv'
  BY <1>5, WorldKeeps DEF GoStale, ClaimsInv, TypeOK, world
<1>6. ASSUME NEW w \in Worker, Kill(w) PROVE ClaimsInv'
  BY <1>6, KillKeeps
<1>7. CASE UNCHANGED vars
  BY <1>7, WorldKeeps DEF vars, world, ClaimsInv, TypeOK
<1> QED
  BY <1>1, <1>2, <1>3, <1>4, <1>5, <1>6, <1>7 DEF Next

(* For any team: what a call writes or removes follows from what it has read, *)
(* a claim in the making is where its maker left it and made of what was      *)
(* complete, and up to what some call has clobbered the worker that was told  *)
(* it holds a task does hold it, whatever editors make of the task meanwhile  *)
(* (claimJwcTeamTask, transitionJwcTeamTaskStatus, releaseJwcTeamTaskClaim,   *)
(* reconcileJwcTeamStaleClaims, updateJwcTeamTask).                           *)
THEOREM TeamClaimsInvariant == Spec => []ClaimsInv
BY InitFits, NextKeeps, PTL DEF Spec

(* Two workers are told that they hold one task only when a recovery has       *)
(* revoked the claim of one of them or some call has clobbered the task.      *)
OneHolder ==
  \A g, h \in granted :
    g.task = h.task /\ g.task \notin clobbered /\ {g.token, h.token} \cap revoked = {} => g = h

THEOREM TeamOneHolder == Spec => []OneHolder
<1>1. ClaimsInv => OneHolder
  BY DEF ClaimsInv, HoldersFit, HolderFits, OneHolder
<1> QED
  BY <1>1, TeamClaimsInvariant, PTL
=============================================================================

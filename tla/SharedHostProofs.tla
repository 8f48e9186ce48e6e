--------------------------- MODULE SharedHostProofs ---------------------------
(***************************************************************************)
(* What holds of the parts of MCSharedHost: of CredentialStorage, for every *)
(* number of processes and references, every mix of slots and operations,  *)
(* and any number of crashes and faults; of SystemService, for every       *)
(* number of processes, pids, starts and stops; and of SourceDocuments,    *)
(* for every number of processes, sites and commands, every lifetime, age  *)
(* and number of redirects: of its cases only CasesAssumption is used.     *)
(***************************************************************************)
EXTENDS MCSharedHost, Sequences, FiniteSetTheorems, TLAPS

\* What the job of a process holds where its steps rely on it.
Coherence ==
  \A p \in Procs :
    /\ pc[p] \in {"recoverRow", "put", "activate", "erase", "drop"} => job[p].at \in Refs
    /\ pc[p] \in {"refreshing", "granted"} => job[p].kind = "refresh"

TypeInv == TypeOK /\ Coherence

LEMMA TodoTyped ==
  ASSUME job \in [Procs -> Job], NEW p \in Procs, NEW t \in SUBSET Refs
  PROVE  [job EXCEPT ![p].todo = t] \in [Procs -> Job]
  BY DEF Job

LEMMA AtTyped ==
  ASSUME job \in [Procs -> Job], NEW p \in Procs, NEW r \in Refs
  PROVE  [job EXCEPT ![p].at = r] \in [Procs -> Job]
  BY DEF Job

\* The catch block leaves a well-formed job.
LEMMA AbandonTyped ==
  ASSUME TypeInv, NEW p \in Procs, Abandon(p)
  PROVE  /\ job' \in [Procs -> Job]
         /\ pc' = [pc EXCEPT ![p] = "mark"]
         /\ job'[p].todo = job[p].news /\ job'[p].slot = job[p].slot
         /\ \A q \in Procs \ {p} : job'[q] = job[q]
<1>1. job \in [Procs -> Job] /\ job[p] \in Job
  BY DEF TypeInv, TypeOK
<1>2. job' = [job EXCEPT ![p] = [job[p] EXCEPT !.todo = job[p].news, !.at = NoRef]]
  BY <1>1 DEF Abandon, Job
<1>3. [job[p] EXCEPT !.todo = job[p].news, !.at = NoRef] \in Job
  BY <1>1 DEF Job
<1> QED
  BY <1>1, <1>2, <1>3 DEF Abandon, Goto

LEMMA TypeInvInit == Init => TypeInv
  BY BoundsAssumption, SlotsAssumption, RefsAssumption
     DEF Init, TypeInv, TypeOK, Coherence, PCs, Job, NoJob, Kinds, NoRef, AllSlots

LEMMA TypeInvStep == TypeInv /\ [Next]_vars => TypeInv'
<1> USE BoundsAssumption, SlotsAssumption, RefsAssumption
    DEF TypeInv, TypeOK, Coherence, PCs, Job, NoJob, Kinds, NoRef, AllSlots,
        Goto, disk, Fault, SetState, IsNext, Abandon
<1> SUFFICES ASSUME TypeInv, [Next]_vars PROVE TypeInv'
  OBVIOUS
<1>1. ASSUME NEW p \in Procs, Open(p) PROVE TypeInv'
  BY <1>1 DEF Open, Interrupted
<1>2. ASSUME NEW p \in Procs, RecoverSecret(p) PROVE TypeInv'
  <2>1. PICK r \in Refs : job' = [job EXCEPT ![p].at = r] /\ vault' = vault \ {r}
    BY <1>2 DEF RecoverSecret
  <2>2. job' \in [Procs -> Job]
    BY <2>1, AtTyped
  <2>3. job'[p].at \in Refs
    BY <2>1
  <2> QED
    BY <1>2, <2>1, <2>2, <2>3 DEF RecoverSecret
<1>3. ASSUME NEW p \in Procs, RecoverRow(p) PROVE TypeInv'
  BY <1>3 DEF RecoverRow
<1>4. ASSUME NEW p \in Procs, RecoverFail(p) PROVE TypeInv'
  <2>1. job' = [job EXCEPT ![p] = NoJob] /\ NoJob \in Job
    BY <1>4 DEF RecoverFail
  <2>2. vault' \in SUBSET Refs /\ UNCHANGED <<setting, row, issued, login, swept, crashes>>
    BY <1>4 DEF RecoverFail
  <2>3. pc' = [pc EXCEPT ![p] = "closed"] /\ faults' \in 0..MaxFaults
    BY <1>4 DEF RecoverFail
  <2> QED
    BY <2>1, <2>2, <2>3
<1>5. ASSUME NEW p \in Procs, RecoverDone(p) PROVE TypeInv'
  BY <1>5 DEF RecoverDone
<1>6. ASSUME NEW p \in Procs, BeginLogin(p) PROVE TypeInv'
  BY <1>6 DEF BeginLogin, BeginWrite
<1>7. ASSUME NEW p \in Procs, BeginSet(p) PROVE TypeInv'
  BY <1>7 DEF BeginSet, BeginWrite
<1>8. ASSUME NEW p \in Procs, StartRefresh(p) PROVE TypeInv'
  BY <1>8 DEF StartRefresh
<1>9. ASSUME NEW p \in Procs, BeginClear(p) PROVE TypeInv'
  <2>1. PICK s \in Slots :
          job' = [job EXCEPT ![p] = [NoJob EXCEPT !.kind = "clear", !.slot = s, !.prev = setting[s]]]
    BY <1>9 DEF BeginClear
  <2>2. job' \in [Procs -> Job]
    BY <2>1
  <2> QED
    BY <1>9, <2>1, <2>2 DEF BeginClear
<1>10. ASSUME NEW p \in Procs, ReadRefreshToken(p) PROVE TypeInv'
  BY <1>10 DEF ReadRefreshToken
<1>11. ASSUME NEW p \in Procs, RefuseRefreshToken(p) PROVE TypeInv'
  BY <1>11 DEF RefuseRefreshToken
<1>12. ASSUME NEW p \in Procs, BeginRefresh(p) PROVE TypeInv'
  BY <1>12 DEF BeginRefresh, BeginWrite
<1>13. ASSUME NEW p \in Procs, RefreshRejected(p) PROVE TypeInv'
  BY <1>13 DEF RefreshRejected
<1>14. ASSUME NEW p \in Procs, InsertRow(p) PROVE TypeInv'
  <2>1. PICK r \in Refs : job' = [job EXCEPT ![p].at = r] /\ row' = [row EXCEPT ![r] = "pending"]
    BY <1>14 DEF InsertRow
  <2>2. job' \in [Procs -> Job]
    BY <2>1, AtTyped
  <2>3. job'[p].at \in Refs
    BY <2>1
  <2> QED
    BY <1>14, <2>1, <2>2, <2>3, SMTT(30) DEF InsertRow
<1>15. ASSUME NEW p \in Procs, Put(p) PROVE TypeInv'
  BY <1>15 DEF Put
<1>16. ASSUME NEW p \in Procs, PutFail(p) PROVE TypeInv'
  BY <1>16 DEF PutFail
<1>17. ASSUME NEW p \in Procs, Activate(p) PROVE TypeInv'
  BY <1>17 DEF Activate
<1>18. ASSUME NEW p \in Procs, Commit(p) PROVE TypeInv'
  BY <1>18 DEF Commit, Replaced
<1>19. ASSUME NEW p \in Procs, CommitRefused(p) PROVE TypeInv'
  <2>1. job' \in [Procs -> Job] /\ pc' = [pc EXCEPT ![p] = "mark"]
    BY <1>19, AbandonTyped DEF CommitRefused
  <2> QED
    BY <1>19, <2>1 DEF CommitRefused
<1>20. ASSUME NEW p \in Procs, CommitFail(p) PROVE TypeInv'
  <2>1. job' \in [Procs -> Job] /\ pc' = [pc EXCEPT ![p] = "mark"]
    BY <1>20, AbandonTyped DEF CommitFail
  <2> QED
    BY <1>20, <2>1 DEF CommitFail
<1>21. ASSUME NEW p \in Procs, Unset(p) PROVE TypeInv'
  <2>1. job' \in [Procs -> Job]
    BY <1>21, TodoTyped DEF Unset
  <2> QED
    BY <1>21, <2>1 DEF Unset
<1>22. ASSUME NEW p \in Procs, MarkDeleting(p) PROVE TypeInv'
  <2>1. PICK r \in Refs : job' = [job EXCEPT ![p].at = r] /\ SetState(r, "deleting")
    BY <1>22 DEF MarkDeleting
  <2>2. job' \in [Procs -> Job]
    BY <2>1, AtTyped
  <2>3. job'[p].at \in Refs
    BY <2>1
  <2> QED
    BY <1>22, <2>1, <2>2, <2>3, SMTT(30) DEF MarkDeleting
<1>23. ASSUME NEW p \in Procs, Erase(p) PROVE TypeInv'
  BY <1>23 DEF Erase
<1>24. ASSUME NEW p \in Procs, EraseFail(p) PROVE TypeInv'
  BY <1>24 DEF EraseFail
<1>25. ASSUME NEW p \in Procs, DropRow(p) PROVE TypeInv'
  BY <1>25 DEF DropRow
<1>26. ASSUME NEW p \in Procs, Finish(p) PROVE TypeInv'
  BY <1>26 DEF Finish
<1>30. ASSUME NEW p \in Procs, UnsetFail(p) PROVE TypeInv'
  BY <1>30 DEF UnsetFail
<1>31. ASSUME NEW p \in Procs, MarkFail(p) PROVE TypeInv'
  <2>1. PICK r \in Refs : job' = [job EXCEPT ![p].todo = @ \ {r}]
    BY <1>31 DEF MarkFail
  <2>2. job' = [job EXCEPT ![p].todo = job[p].todo \ {r}] /\ job[p].todo \ {r} \in SUBSET Refs
    BY <2>1 DEF Job
  <2>3. job' \in [Procs -> Job]
    BY <2>2, TodoTyped
  <2> QED
    BY <1>31, <2>1, <2>3 DEF MarkFail
<1>27. ASSUME NEW p \in Procs, Exit(p) PROVE TypeInv'
  BY <1>27 DEF Exit
<1>28. ASSUME NEW p \in Procs, Crash(p) PROVE TypeInv'
  BY <1>28 DEF Crash
<1>29. CASE UNCHANGED vars
  BY <1>29 DEF vars
<1> QED
  BY <1>1, <1>2, <1>3, <1>4, <1>5, <1>6, <1>7, <1>8, <1>9, <1>10, <1>11, <1>12, <1>13, <1>14, <1>15, <1>16, <1>17, <1>18, <1>19, <1>20, <1>21, <1>22, <1>23, <1>24, <1>25, <1>26, <1>27, <1>28, <1>29, <1>30, <1>31
     DEF Next, Work, Recover, Begin, Refreshing, Create, Write, Discard

\* Every variable keeps its type (TypeOK): in particular the working reference
\* of a loop is a reference whenever a step uses it.
THEOREM TypeCorrect == Spec => []TypeInv
<1>1. Init => TypeInv
  BY TypeInvInit
<1>2. TypeInv /\ [Next]_vars => TypeInv'
  BY TypeInvStep
<1> QED
  BY <1>1, <1>2, PTL DEF Spec

\* Every reachable state of the credential storage is well typed.
THEOREM TypeSafety == Spec => []TypeOK
<1>1. TypeInv => TypeOK
  BY DEF TypeInv
<1> QED
  BY <1>1, TypeCorrect, PTL

-----------------------------------------------------------------------------
\* A step that writes no setting, draws no reference and at most lets go of
\* references preserves the ownership.
LEMMA LettingGo ==
  ASSUME Ownership, UNCHANGED <<setting, issued>>,
         \A q \in Procs : /\ Making(q)' \subseteq Making(q)
                          /\ Held(q)' \subseteq Held(q)
                          /\ Discarding(q)' \subseteq Discarding(q)
                          /\ job'[q].slot = job[q].slot \/ Held(q)' = {}
  PROVE  Ownership'
<1> USE DEF Ownership
<1>1. \A s \in AllSlots : setting'[s] \subseteq issued'
  OBVIOUS
<1>2. \A q \in Procs : Making(q)' \cup Held(q)' \cup Discarding(q)' \subseteq issued'
  OBVIOUS
<1>3. \A q \in Procs, s \in AllSlots : s # job'[q].slot => Held(q)' \cap setting'[s] = {}
  OBVIOUS
<1>4. \A p, q \in Procs : Making(p)' \cap (Held(q)' \cup Discarding(q)') = {}
  OBVIOUS
<1>5. /\ \A q \in Procs, s \in AllSlots : Making(q)' \cap setting'[s] = {}
      /\ \A q \in Procs, s \in AllSlots : Discarding(q)' \cap setting'[s] = {}
      /\ \A p, q \in Procs : p # q => Making(p)' \cap Making(q)' = {}
  OBVIOUS
<1> QED
  BY <1>1, <1>2, <1>3, <1>4, <1>5

\* Giving up the references one has drawn.
LEMMA Abandoning ==
  ASSUME TypeInv, Ownership, UNCHANGED <<setting, issued>>,
         NEW p \in Procs, Abandon(p),
         pc[p] \in {"insert", "put", "activate", "commit"}
  PROVE  Ownership'
<1>1. Making(p) = job[p].news /\ Discarding(p) = {}
  BY DEF Making, Discarding
<1>2. /\ Making(p)' = {}
      /\ Held(p)' = {}
      /\ Discarding(p)' = Making(p)
      /\ job'[p].slot = job[p].slot
  BY <1>1, AbandonTyped DEF Making, Held, Discarding, TypeInv, TypeOK
<1>3. \A q \in Procs \ {p} : /\ Making(q)' = Making(q)
                             /\ Held(q)' = Held(q)
                             /\ Discarding(q)' = Discarding(q)
                             /\ job'[q].slot = job[q].slot
  BY AbandonTyped DEF Making, Held, Discarding, TypeInv, TypeOK
<1> USE DEF Ownership
<1>4. \A q \in Procs : Making(q)' \cup Held(q)' \cup Discarding(q)' \subseteq issued'
  BY <1>2, <1>3
<1>5. /\ \A q \in Procs, s \in AllSlots : Making(q)' \cap setting'[s] = {}
      /\ \A q \in Procs, s \in AllSlots : Discarding(q)' \cap setting'[s] = {}
      /\ \A q \in Procs, s \in AllSlots : s # job'[q].slot => Held(q)' \cap setting'[s] = {}
  BY <1>2, <1>3
<1>6. /\ \A a, q \in Procs : a # q => Making(a)' \cap Making(q)' = {}
      /\ \A a, q \in Procs : Making(a)' \cap (Held(q)' \cup Discarding(q)') = {}
  BY <1>2, <1>3
<1>7. /\ \A s \in AllSlots : setting'[s] \subseteq issued'
      /\ \A s, t \in AllSlots : s # t => setting'[s] \cap setting'[t] = {}
  OBVIOUS
<1> QED
  BY <1>4, <1>5, <1>6, <1>7

\* Drawing fresh references.
LEMMA Drawing ==
  ASSUME TypeInv, Ownership,
         NEW p \in Procs, NEW s \in AllSlots, NEW kind, NEW expected, NEW line, NEW prev,
         prev = {} \/ prev = setting[s],
         BeginWrite(p, s, kind, expected, line, prev)
  PROVE  Ownership'
<1>1. PICK new \in SUBSET (Refs \ issued) :
        /\ issued' = issued \cup new
        /\ job' = [job EXCEPT ![p] =
             [kind |-> kind, slot |-> s, expected |-> expected,
              line |-> IF kind = "login" THEN new ELSE line,
              prev |-> prev, news |-> new, todo |-> new, at |-> NoRef]]
        /\ pc' = [pc EXCEPT ![p] = "insert"]
        /\ setting' = setting
  BY DEF BeginWrite, Goto, disk
<1>2. /\ Making(p)' = new
      /\ Held(p)' = prev
      /\ Discarding(p)' = {}
      /\ job'[p].slot = s
  BY <1>1 DEF Making, Held, Discarding, TypeInv, TypeOK
<1>3. \A q \in Procs \ {p} : /\ Making(q)' = Making(q)
                             /\ Held(q)' = Held(q)
                             /\ Discarding(q)' = Discarding(q)
                             /\ job'[q].slot = job[q].slot
  BY <1>1 DEF Making, Held, Discarding, TypeInv, TypeOK
<1>4. new \cap issued = {} /\ prev \subseteq issued /\ prev \cap new = {}
  BY <1>1 DEF Ownership
<1> USE DEF Ownership
<1>5. \A q \in Procs : Making(q)' \cup Held(q)' \cup Discarding(q)' \subseteq issued'
  BY <1>1, <1>2, <1>3, <1>4
<1>6. /\ \A q \in Procs, t \in AllSlots : Making(q)' \cap setting'[t] = {}
      /\ \A q \in Procs, t \in AllSlots : Discarding(q)' \cap setting'[t] = {}
      /\ \A q \in Procs, t \in AllSlots : t # job'[q].slot => Held(q)' \cap setting'[t] = {}
  BY <1>1, <1>2, <1>3, <1>4
<1>7. /\ \A a, q \in Procs : a # q => Making(a)' \cap Making(q)' = {}
      /\ \A a, q \in Procs : Making(a)' \cap (Held(q)' \cup Discarding(q)') = {}
  <2> SUFFICES ASSUME NEW a \in Procs, NEW q \in Procs
               PROVE  /\ a # q => Making(a)' \cap Making(q)' = {}
                      /\ Making(a)' \cap (Held(q)' \cup Discarding(q)') = {}
    OBVIOUS
  <2>1. CASE a = p /\ q = p
    BY <2>1, <1>2, <1>4
  <2>2. CASE a = p /\ q # p
    BY <2>2, <1>2, <1>3, <1>4
  <2>3. CASE a # p /\ q = p
    BY <2>3, <1>2, <1>3, <1>4
  <2>4. CASE a # p /\ q # p
    BY <2>4, <1>3
  <2> QED
    BY <2>1, <2>2, <2>3, <2>4
<1>8. /\ \A t \in AllSlots : setting'[t] \subseteq issued'
      /\ \A t, u \in AllSlots : t # u => setting'[t] \cap setting'[u] = {}
  BY <1>1
<1> QED
  BY <1>5, <1>6, <1>7, <1>8

\* Replacing a setting: whatever the write puts there is what it had drawn or
\* nothing, and whatever it then discards is what it read of that slot.
LEMMA Replacing ==
  ASSUME TypeInv, Ownership, issued' = issued,
         NEW p \in Procs, NEW s \in AllSlots, s = job[p].slot,
         NEW value, value = {} \/ value = Making(p),
         NEW old, old = Held(p) \/ old = setting[s],
         setting' = [setting EXCEPT ![s] = value],
         job' = [job EXCEPT ![p].todo = old],
         pc' = [pc EXCEPT ![p] = "mark"]
  PROVE  Ownership'
<1>1. /\ Making(p)' = {}
      /\ Held(p)' = {}
      /\ Discarding(p)' = old
      /\ job'[p].slot = s
  BY DEF Making, Held, Discarding, TypeInv, TypeOK, Job
<1>2. /\ \A q \in Procs \ {p} : Making(q)' = Making(q)
      /\ \A q \in Procs \ {p} : Held(q)' = Held(q)
      /\ \A q \in Procs \ {p} : Discarding(q)' = Discarding(q)
      /\ \A q \in Procs \ {p} : job'[q].slot = job[q].slot
  BY DEF Making, Held, Discarding, TypeInv, TypeOK
<1>3. /\ setting'[s] = value
      /\ \A t \in AllSlots \ {s} : setting'[t] = setting[t]
  BY DEF TypeInv, TypeOK
<1>4. old \subseteq issued /\ value \subseteq issued /\ old \cap value = {}
  BY DEF Ownership
<1>5. \A t \in AllSlots \ {s} : old \cap setting[t] = {} /\ value \cap setting[t] = {}
  BY DEF Ownership
<1>6. \A q \in Procs \ {p} : /\ value \cap Making(q) = {} /\ old \cap Making(q) = {}
                             /\ value \cap (Held(q) \cup Discarding(q)) = {}
  BY DEF Ownership
<1> USE DEF Ownership
<1>7. /\ \A t \in AllSlots : setting'[t] \subseteq issued'
      /\ \A t, u \in AllSlots : t # u => setting'[t] \cap setting'[u] = {}
  BY <1>3, <1>4, <1>5
<1>8. \A q \in Procs : Making(q)' \cup Held(q)' \cup Discarding(q)' \subseteq issued'
  BY <1>1, <1>2, <1>4
<1>9. \A q \in Procs, t \in AllSlots : Making(q)' \cap setting'[t] = {}
  BY <1>1, <1>2, <1>3, <1>6
<1>10. \A q \in Procs, t \in AllSlots : Discarding(q)' \cap setting'[t] = {}
  BY <1>1, <1>2, <1>3, <1>4, <1>5, <1>6
<1>11. \A q \in Procs, t \in AllSlots : t # job'[q].slot => Held(q)' \cap setting'[t] = {}
  BY <1>1, <1>2, <1>3, <1>6
<1>12. \A a, q \in Procs : a # q => Making(a)' \cap Making(q)' = {}
  BY <1>1, <1>2
<1>13. \A a, q \in Procs : Making(a)' \cap (Held(q)' \cup Discarding(q)') = {}
  BY <1>1, <1>2, <1>6
<1> QED
  BY <1>7, <1>8, <1>9, <1>10, <1>11, <1>12, <1>13

\* Reading a setting that is about to be deleted.
LEMMA Remembering ==
  ASSUME TypeInv, Ownership, UNCHANGED <<setting, issued>>,
         NEW p \in Procs, NEW s \in AllSlots, pc[p] = "ready",
         job' = [job EXCEPT ![p] = [NoJob EXCEPT !.kind = "clear", !.slot = s, !.prev = setting[s]]],
         pc' = [pc EXCEPT ![p] = "unset"]
  PROVE  Ownership'
<1>1. /\ Making(p)' = {}
      /\ Held(p)' = setting[s]
      /\ Discarding(p)' = {}
      /\ job'[p].slot = s
  BY DEF Making, Held, Discarding, TypeInv, TypeOK, NoJob
<1>2. /\ \A q \in Procs \ {p} : Making(q)' = Making(q)
      /\ \A q \in Procs \ {p} : Held(q)' = Held(q)
      /\ \A q \in Procs \ {p} : Discarding(q)' = Discarding(q)
      /\ \A q \in Procs \ {p} : job'[q].slot = job[q].slot
  BY DEF Making, Held, Discarding, TypeInv, TypeOK
<1> USE DEF Ownership
<1>3. /\ \A t \in AllSlots : setting'[t] \subseteq issued'
      /\ \A t, u \in AllSlots : t # u => setting'[t] \cap setting'[u] = {}
  OBVIOUS
<1>4. \A q \in Procs : Making(q)' \cup Held(q)' \cup Discarding(q)' \subseteq issued'
  BY <1>1, <1>2
<1>5. /\ \A q \in Procs, t \in AllSlots : Making(q)' \cap setting'[t] = {}
      /\ \A q \in Procs, t \in AllSlots : Discarding(q)' \cap setting'[t] = {}
      /\ \A q \in Procs, t \in AllSlots : t # job'[q].slot => Held(q)' \cap setting'[t] = {}
  BY <1>1, <1>2
<1>6. /\ \A a, q \in Procs : a # q => Making(a)' \cap Making(q)' = {}
      /\ \A a, q \in Procs : Making(a)' \cap (Held(q)' \cup Discarding(q)') = {}
  BY <1>1, <1>2
<1> QED
  BY <1>3, <1>4, <1>5, <1>6

LEMMA OwnershipStep == TypeInv /\ Ownership /\ [Next]_vars => Ownership'
<1> SUFFICES ASSUME TypeInv, Ownership, [Next]_vars PROVE Ownership'
  OBVIOUS
<1> USE DEF Goto, disk
<1>1. ASSUME NEW p \in Procs, Open(p) PROVE Ownership'
  BY <1>1, LettingGo DEF Open, Making, Held, Discarding, TypeInv, TypeOK, Job
<1>2. ASSUME NEW p \in Procs, Recover(p) PROVE Ownership'
  BY <1>2, LettingGo
     DEF Recover, RecoverSecret, RecoverRow, RecoverFail, RecoverDone,
         Making, Held, Discarding, TypeInv, TypeOK, Job
<1>3. ASSUME NEW p \in Procs, StartRefresh(p) PROVE Ownership'
  BY <1>3, LettingGo DEF StartRefresh, Making, Held, Discarding, TypeInv, TypeOK, Job
<1>4. ASSUME NEW p \in Procs, BeginLogin(p) PROVE Ownership'
  BY <1>4, Drawing DEF BeginLogin, AllSlots
<1>5. ASSUME NEW p \in Procs, BeginSet(p) PROVE Ownership'
  BY <1>5, Drawing, SlotsAssumption DEF BeginSet
<1>6. ASSUME NEW p \in Procs, BeginRefresh(p) PROVE Ownership'
  BY <1>6, Drawing DEF BeginRefresh, AllSlots
<1>7. ASSUME NEW p \in Procs, ReadRefreshToken(p) \/ RefuseRefreshToken(p) \/ RefreshRejected(p)
      PROVE Ownership'
  BY <1>7, LettingGo
     DEF ReadRefreshToken, RefuseRefreshToken, RefreshRejected,
         Making, Held, Discarding, TypeInv, TypeOK, Job
<1>8. ASSUME NEW p \in Procs, InsertRow(p) \/ Put(p) \/ Activate(p) PROVE Ownership'
  BY <1>8, LettingGo
     DEF InsertRow, Put, Activate, Making, Held, Discarding, TypeInv, TypeOK, Job
<1>9. ASSUME NEW p \in Procs, PutFail(p) \/ CommitRefused(p) \/ CommitFail(p) PROVE Ownership'
  BY <1>9, Abandoning DEF PutFail, CommitRefused, CommitFail
<1>10. ASSUME NEW p \in Procs, Commit(p) PROVE Ownership'
  BY <1>10, Replacing DEF Commit, Replaced, Making, Held, TypeInv, TypeOK, Job, AllSlots
<1>11. ASSUME NEW p \in Procs, Unset(p) PROVE Ownership'
  BY <1>11, Replacing DEF Unset, Making, Held, TypeInv, TypeOK, Job, AllSlots
<1>12. ASSUME NEW p \in Procs, Discard(p) \/ UnsetFail(p) PROVE Ownership'
  BY <1>12, LettingGo
     DEF UnsetFail, Discard, MarkDeleting, MarkFail, Erase, EraseFail, DropRow, Finish,
         Making, Held, Discarding, TypeInv, TypeOK, Job
<1>13. ASSUME NEW p \in Procs, Exit(p) \/ Crash(p) PROVE Ownership'
  BY <1>13, LettingGo DEF Exit, Crash, Making, Held, Discarding, TypeInv, TypeOK, Job
<1>15. ASSUME NEW p \in Procs, BeginClear(p) PROVE Ownership'
  BY <1>15, Remembering, SlotsAssumption DEF BeginClear
<1>14. CASE UNCHANGED vars
  BY <1>14, LettingGo DEF vars, Making, Held, Discarding
<1> QED
  BY <1>1, <1>2, <1>3, <1>4, <1>5, <1>6, <1>7, <1>8, <1>9, <1>10, <1>11, <1>12, <1>13, <1>14, <1>15
     DEF Next, Work, Begin, Refreshing, Create, Write

\* A reference has one owner at a time: drawn references are in no setting
\* before they are committed, and what an operation will discard is in no
\* setting once it starts discarding (setAuth, setApiKey, clearAuth, ...).
THEOREM OwnershipInvariant == Spec => []Ownership
<1>1. Init => Ownership
  BY DEF Init, Ownership, Making, Held, Discarding, NoJob
<1>2. TypeInv /\ Ownership /\ [Next]_vars => Ownership'
  BY OwnershipStep
<1> QED
  BY <1>1, <1>2, TypeCorrect, PTL DEF Spec

\* No setting ever refers to a secret that some process is discarding.
THEOREM DiscardSafety == Spec => []DiscardSafe
<1>1. Ownership => DiscardSafe
  BY DEF Ownership, DiscardSafe, Referenced
<1> QED
  BY <1>1, OwnershipInvariant, PTL

-----------------------------------------------------------------------------
\* What a step may do without disturbing Lineage: leave the stored session and
\* the writes of every process as they are, or let go of some.
LEMMA LineageKept ==
  ASSUME Lineage, UNCHANGED <<login, issued>>,
         setting'["auth"] = setting["auth"],
         \A q \in Procs :
           \/ ~ Writes(q)' /\ ~ Refreshes(q)' /\ Making(q)' = {}
           \/ /\ job'[q].news = job[q].news /\ job'[q].slot = job[q].slot
              /\ job'[q].kind = job[q].kind /\ job'[q].line = job[q].line
              /\ job'[q].expected = job[q].expected
              /\ Writes(q)' = Writes(q) /\ Refreshes(q)' = Refreshes(q)
              /\ Making(q)' = Making(q)
  PROVE  Lineage'
<1>1. /\ login' \subseteq issued'
      /\ \A p \in Procs : Writes(p)' =>
           /\ job'[p].news # {} /\ job'[p].news \cap login' = {}
           /\ job'[p].slot = "auth" => job'[p].kind \in {"login", "refresh"}
           /\ job'[p].kind = "login" => job'[p].line = job'[p].news
  BY DEF Lineage
<1>2. \A p \in Procs : Refreshes(p)' =>
        /\ job'[p].expected # {} /\ job'[p].expected \subseteq issued'
        /\ setting'["auth"] = job'[p].expected => login' = job'[p].line
  BY DEF Lineage
<1>3. \A p, q \in Procs : Refreshes(p)' => Making(q)' \cap job'[p].expected = {}
  BY DEF Lineage
<1> QED
  BY <1>1, <1>2, <1>3 DEF Lineage

LEMMA LineageDrawn ==
  ASSUME TypeInv, Ownership, Lineage,
         NEW p \in Procs, NEW s \in AllSlots, NEW kind, NEW expected, NEW line, NEW prev,
         s = "auth" => kind \in {"login", "refresh"},
         kind = "refresh" => /\ Refreshes(p) /\ job[p].expected = expected
                             /\ job[p].line = line,
         BeginWrite(p, s, kind, expected, line, prev)
  PROVE  Lineage'
<1>1. PICK new \in SUBSET (Refs \ issued) :
        /\ Cardinality(new) = Width(s)
        /\ issued' = issued \cup new
        /\ job' = [job EXCEPT ![p] =
             [kind |-> kind, slot |-> s, expected |-> expected,
              line |-> IF kind = "login" THEN new ELSE line,
              prev |-> prev, news |-> new, todo |-> new, at |-> NoRef]]
        /\ pc' = [pc EXCEPT ![p] = "insert"]
        /\ setting' = setting /\ login' = login
  BY DEF BeginWrite, Goto, disk
<1>2. new # {}
  BY <1>1, FS_EmptySet DEF Width
<1>3. new \cap issued = {}
  BY <1>1
<1>4. /\ job'[p].news = new /\ job'[p].slot = s /\ job'[p].kind = kind
      /\ job'[p].expected = expected
      /\ job'[p].line = IF kind = "login" THEN new ELSE line
      /\ Making(p)' = new /\ Writes(p)' /\ (Refreshes(p)' => kind = "refresh")
  BY <1>1 DEF Making, Writes, Refreshes, TypeInv, TypeOK
<1>5. \A q \in Procs \ {p} :
        /\ job'[q] = job[q] /\ Making(q)' = Making(q)
        /\ Writes(q)' = Writes(q) /\ Refreshes(q)' = Refreshes(q)
  BY <1>1 DEF Making, Writes, Refreshes, TypeInv, TypeOK
<1>6. login' \subseteq issued'
  BY <1>1 DEF Lineage
<1>7. \A q \in Procs : Writes(q)' =>
        /\ job'[q].news # {} /\ job'[q].news \cap login' = {}
        /\ job'[q].slot = "auth" => job'[q].kind \in {"login", "refresh"}
        /\ job'[q].kind = "login" => job'[q].line = job'[q].news
  BY <1>1, <1>2, <1>3, <1>4, <1>5 DEF Lineage
<1>8. \A q \in Procs : Refreshes(q)' =>
        /\ job'[q].expected # {} /\ job'[q].expected \subseteq issued'
        /\ setting'["auth"] = job'[q].expected => login' = job'[q].line
  BY <1>1, <1>4, <1>5 DEF Lineage
<1>9. \A q \in Procs : Refreshes(q)' => job'[q].expected \subseteq issued
  BY <1>4, <1>5 DEF Lineage
<1>10. \A q, a \in Procs : Refreshes(q)' => Making(a)' \cap job'[q].expected = {}
  <2> SUFFICES ASSUME NEW q \in Procs, NEW a \in Procs, Refreshes(q)'
               PROVE  Making(a)' \cap job'[q].expected = {}
    OBVIOUS
  <2>1. CASE a = p
    BY <2>1, <1>3, <1>4, <1>9
  <2>2. CASE a # p /\ q = p
    <3>1. kind = "refresh" /\ Refreshes(p)' /\ job'[p].expected = expected
      BY <2>2, <1>4
    <3>2. Refreshes(p) /\ job[p].expected = expected
      BY <3>1
    <3> QED
      BY <2>2, <3>1, <3>2, <1>5 DEF Lineage
  <2>3. CASE a # p /\ q # p
    BY <2>3, <1>5 DEF Lineage
  <2> QED
    BY <2>1, <2>2, <2>3
<1> QED
  BY <1>6, <1>7, <1>8, <1>10 DEF Lineage

\* The two steps that change the stored session.
LEMMA LineageReplaced ==
  ASSUME TypeInv, Ownership, Lineage, issued' = issued,
         NEW p \in Procs, NEW old, NEW value, NEW line,
         \/ value = {} /\ line = {}
         \/ /\ Writes(p) /\ job[p].slot = "auth" /\ ~ SessionChanged(p)
            /\ value = job[p].news /\ line = job[p].line,
         setting'["auth"] = value, login' = line,
         job' = [job EXCEPT ![p].todo = old], pc' = [pc EXCEPT ![p] = "mark"]
  PROVE  Lineage'
<1>1. ~ Writes(p)' /\ ~ Refreshes(p)' /\ Making(p)' = {}
  BY DEF Writes, Refreshes, Making, TypeInv, TypeOK
<1>2. \A q \in Procs \ {p} :
        /\ job'[q] = job[q] /\ Making(q)' = Making(q)
        /\ Writes(q)' = Writes(q) /\ Refreshes(q)' = Refreshes(q)
  BY DEF Making, Writes, Refreshes, TypeInv, TypeOK
<1>3. \A q \in Procs : Writes(q) => Making(q) = job[q].news
  BY DEF Writes, Making
<1>4. /\ line \subseteq issued
      /\ \A q \in Procs \ {p} : Writes(q) => job[q].news \cap line = {}
  <2>1. CASE value = {} /\ line = {}
    BY <2>1
  <2>2. CASE Writes(p) /\ job[p].slot = "auth" /\ ~ SessionChanged(p) /\ line = job[p].line
    <3>1. CASE job[p].kind = "login"
      <4>1. line = Making(p)
        BY <2>2, <3>1, <1>3 DEF Lineage
      <4>2. line \subseteq issued
        BY <4>1 DEF Ownership
      <4>3. \A q \in Procs \ {p} : Writes(q) => job[q].news \cap line = {}
        BY <4>1, <1>3 DEF Ownership
      <4> QED
        BY <4>2, <4>3
    <3>2. CASE job[p].kind = "refresh"
      <4>1. Refreshes(p) /\ setting["auth"] = job[p].expected
        BY <2>2, <3>2 DEF SessionChanged, Refreshes, Writes
      <4>2. line = login
        BY <2>2, <4>1 DEF Lineage
      <4> QED
        BY <4>2 DEF Lineage
    <3> QED
      BY <2>2, <3>1, <3>2 DEF Lineage
  <2> QED
    BY <2>1, <2>2
<1>5. \A q \in Procs \ {p} : Refreshes(q) => value # job[q].expected
  <2>1. CASE value = {}
    BY <2>1 DEF Lineage
  <2>2. CASE Writes(p) /\ value = job[p].news
    BY <2>2, <1>3 DEF Lineage
  <2> QED
    BY <2>1, <2>2
<1>6. \A q \in Procs : Writes(q)' =>
        /\ job'[q].news # {} /\ job'[q].news \cap login' = {}
        /\ job'[q].slot = "auth" => job'[q].kind \in {"login", "refresh"}
        /\ job'[q].kind = "login" => job'[q].line = job'[q].news
  BY <1>1, <1>2, <1>4 DEF Lineage
<1>7. \A q \in Procs : Refreshes(q)' =>
        /\ job'[q].expected # {} /\ job'[q].expected \subseteq issued'
        /\ setting'["auth"] = job'[q].expected => login' = job'[q].line
  BY <1>1, <1>2, <1>5 DEF Lineage
<1>8. \A q, a \in Procs : Refreshes(q)' => Making(a)' \cap job'[q].expected = {}
  BY <1>1, <1>2 DEF Lineage
<1> QED
  BY <1>4, <1>6, <1>7, <1>8 DEF Lineage

LEMMA LineageStep == TypeInv /\ Ownership /\ Lineage /\ [Next]_vars => Lineage'
<1> SUFFICES ASSUME TypeInv, Ownership, Lineage, [Next]_vars PROVE Lineage'
  OBVIOUS
<1> USE DEF Goto, disk
<1>1. ASSUME NEW p \in Procs, Open(p) \/ Exit(p) \/ Crash(p) PROVE Lineage'
  BY <1>1, LineageKept
     DEF Open, Exit, Crash, Making, Writes, Refreshes, TypeInv, TypeOK, Job, NoJob
<1>2. ASSUME NEW p \in Procs, Recover(p) PROVE Lineage'
  BY <1>2, LineageKept
     DEF Recover, RecoverSecret, RecoverRow, RecoverFail, RecoverDone,
         Making, Writes, Refreshes, TypeInv, TypeOK, Job, NoJob
<1>3. ASSUME NEW p \in Procs, StartRefresh(p) PROVE Lineage'
  <2>1. /\ setting["auth"] # {} /\ setting["auth"] \subseteq issued
        /\ \A q \in Procs : Making(q) \cap setting["auth"] = {}
    BY <1>3 DEF StartRefresh, Ownership, AllSlots
  <2>2. UNCHANGED <<setting, issued, login>>
    BY <1>3 DEF StartRefresh
  <2>3. /\ ~ Writes(p)' /\ Making(p)' = {}
        /\ job'[p].expected = setting["auth"] /\ job'[p].line = login
    BY <1>3 DEF StartRefresh, Writes, Making, TypeInv, TypeOK, NoJob
  <2>4. \A q \in Procs \ {p} :
          /\ job'[q] = job[q] /\ Making(q)' = Making(q)
          /\ Writes(q)' = Writes(q) /\ Refreshes(q)' = Refreshes(q)
    BY <1>3 DEF StartRefresh, Making, Writes, Refreshes, TypeInv, TypeOK
  <2>5. /\ login' \subseteq issued'
        /\ \A q \in Procs : Writes(q)' =>
             /\ job'[q].news # {} /\ job'[q].news \cap login' = {}
             /\ job'[q].slot = "auth" => job'[q].kind \in {"login", "refresh"}
             /\ job'[q].kind = "login" => job'[q].line = job'[q].news
    BY <2>2, <2>3, <2>4 DEF Lineage
  <2>6. \A q \in Procs : Refreshes(q)' =>
          /\ job'[q].expected # {} /\ job'[q].expected \subseteq issued'
          /\ setting'["auth"] = job'[q].expected => login' = job'[q].line
    BY <2>1, <2>2, <2>3, <2>4 DEF Lineage
  <2>7. \A q, a \in Procs : Refreshes(q)' => Making(a)' \cap job'[q].expected = {}
    BY <2>1, <2>3, <2>4 DEF Lineage
  <2> QED
    BY <2>5, <2>6, <2>7 DEF Lineage
<1>4. ASSUME NEW p \in Procs, BeginLogin(p) PROVE Lineage'
  BY <1>4, LineageDrawn DEF BeginLogin, AllSlots
<1>5. ASSUME NEW p \in Procs, BeginSet(p) PROVE Lineage'
  BY <1>5, LineageDrawn, SlotsAssumption DEF BeginSet
<1>6. ASSUME NEW p \in Procs, BeginRefresh(p) PROVE Lineage'
  BY <1>6, LineageDrawn DEF BeginRefresh, AllSlots, Refreshes, TypeInv, Coherence
<1>7. ASSUME NEW p \in Procs, ReadRefreshToken(p) \/ RefuseRefreshToken(p) \/ RefreshRejected(p)
      PROVE Lineage'
  BY <1>7, LineageKept
     DEF ReadRefreshToken, RefuseRefreshToken, RefreshRejected,
         Making, Writes, Refreshes, TypeInv, TypeOK, Job, NoJob
<1>8. ASSUME NEW p \in Procs, InsertRow(p) \/ Put(p) \/ Activate(p) PROVE Lineage'
  BY <1>8, LineageKept
     DEF InsertRow, Put, Activate, Making, Writes, Refreshes, TypeInv, TypeOK, Job
<1>9. ASSUME NEW p \in Procs, PutFail(p) \/ CommitRefused(p) \/ CommitFail(p) PROVE Lineage'
  BY <1>9, LineageKept
     DEF PutFail, CommitRefused, CommitFail, Abandon, Making, Writes, Refreshes, TypeInv, TypeOK, Job
<1>10. ASSUME NEW p \in Procs, Commit(p) PROVE Lineage'
  <2>1. CASE job[p].slot = "auth"
    BY <1>10, <2>1, LineageReplaced DEF Commit, Writes, TypeInv, TypeOK, AllSlots
  <2>2. CASE job[p].slot # "auth"
    BY <1>10, <2>2, LineageKept
       DEF Commit, Making, Writes, Refreshes, TypeInv, TypeOK, Job, AllSlots
  <2> QED
    BY <2>1, <2>2
<1>11. ASSUME NEW p \in Procs, Unset(p) PROVE Lineage'
  <2>1. CASE job[p].slot = "auth"
    BY <1>11, <2>1, LineageReplaced DEF Unset, TypeInv, TypeOK, AllSlots
  <2>2. CASE job[p].slot # "auth"
    BY <1>11, <2>2, LineageKept
       DEF Unset, Making, Writes, Refreshes, TypeInv, TypeOK, Job, AllSlots
  <2> QED
    BY <2>1, <2>2
<1>12. ASSUME NEW p \in Procs, Discard(p) \/ UnsetFail(p) PROVE Lineage'
  BY <1>12, LineageKept
     DEF UnsetFail, Discard, MarkDeleting, MarkFail, Erase, EraseFail, DropRow, Finish,
         Making, Writes, Refreshes, TypeInv, TypeOK, Job, NoJob
<1>13. ASSUME NEW p \in Procs, BeginClear(p) PROVE Lineage'
  BY <1>13, LineageKept
     DEF BeginClear, Making, Writes, Refreshes, TypeInv, TypeOK, Job, NoJob
<1>14. CASE UNCHANGED vars
  BY <1>14, LineageKept DEF vars, Making, Writes, Refreshes
<1> QED
  BY <1>1, <1>2, <1>3, <1>4, <1>5, <1>6, <1>7, <1>8, <1>9, <1>10, <1>11, <1>12, <1>13, <1>14
     DEF Next, Work, Begin, Refreshing, Create, Write

THEOREM LineageInvariant == Spec => []Lineage
<1>1. Init => Lineage
  BY DEF Init, Lineage, Writes, Refreshes, Making
<1>2. TypeInv /\ Ownership /\ Lineage /\ [Next]_vars => Lineage'
  BY LineageStep
<1> QED
  BY <1>1, <1>2, TypeCorrect, OwnershipInvariant, PTL DEF Spec

\* A commit to "auth" is a login or a refresh of the register.
LEMMA CommitIsRegisterStep ==
  ASSUME TypeInv, Ownership, Lineage, NEW p \in Procs, Commit(p), job[p].slot = "auth"
  PROVE  Register!Login \/ Register!Refresh
<1>1. /\ Writes(p) /\ Making(p) = job[p].news
      /\ job[p].news \in (SUBSET Refs) \ {{}}
      /\ setting'["auth"] = job[p].news /\ login' = job[p].line
  <2>1. Writes(p) /\ Making(p) = job[p].news
    BY DEF Commit, Writes, Making
  <2>2. job[p].news \in SUBSET Refs /\ job[p].news # {}
    BY <2>1 DEF Lineage, TypeInv, TypeOK, Job
  <2>3. setting'["auth"] = job[p].news /\ login' = job[p].line
    <3>1. setting' = [setting EXCEPT !["auth"] = job[p].news] /\ login' = job[p].line
      BY DEF Commit
    <3> QED
      BY <3>1 DEF TypeInv, TypeOK, AllSlots
  <2> QED
    BY <2>1, <2>2, <2>3
<1>2. CASE job[p].kind = "login"
  BY <1>1, <1>2 DEF Lineage, Register!Login
<1>3. CASE job[p].kind = "refresh"
  <2>1. /\ setting["auth"] = job[p].expected /\ setting["auth"] # {} /\ login' = login
    BY <1>1, <1>3 DEF Commit, SessionChanged, Refreshes, Writes, Lineage
  <2>2. job[p].news # setting["auth"] /\ job[p].news # login
    BY <1>1 DEF Ownership, Lineage, AllSlots
  <2> QED
    BY <1>1, <2>1, <2>2 DEF Register!Refresh
<1> QED
  BY <1>1, <1>2, <1>3 DEF Lineage

LEMMA RegisterStep ==
  TypeInv /\ Ownership /\ Lineage /\ [Next]_vars => [Register!Next]_(Register!vars)
<1> SUFFICES ASSUME TypeInv, Ownership, Lineage, [Next]_vars,
                    ~ UNCHANGED <<setting["auth"], login>>
             PROVE  Register!Next
  BY DEF Register!vars
<1>1. ASSUME NEW p \in Procs, Commit(p) PROVE Register!Next
  <2>1. job[p].slot = "auth"
    BY <1>1 DEF Commit, TypeInv, TypeOK, AllSlots
  <2> QED
    BY <1>1, <2>1, CommitIsRegisterStep DEF Register!Next
<1>2. ASSUME NEW p \in Procs, Unset(p) PROVE Register!Next
  <2>1. job[p].slot = "auth"
    BY <1>2 DEF Unset, TypeInv, TypeOK, AllSlots
  <2>2. setting'["auth"] = {} /\ login' = {}
    BY <1>2, <2>1 DEF Unset, TypeInv, TypeOK, AllSlots
  <2> QED
    BY <2>2 DEF Register!Next, Register!Logout
<1>3. ASSUME NEW p \in Procs, Open(p) \/ Begin(p) \/ Recover(p) \/ Refreshing(p) \/ Create(p)
                                \/ Discard(p) \/ Exit(p) \/ Crash(p)
                                \/ CommitRefused(p) \/ CommitFail(p) \/ UnsetFail(p)
      PROVE FALSE
  BY <1>3
     DEF disk, Open, Begin, BeginLogin, BeginSet, StartRefresh, BeginClear, BeginWrite,
         Recover, RecoverSecret, RecoverRow, RecoverFail, RecoverDone,
         Refreshing, ReadRefreshToken, RefuseRefreshToken, BeginRefresh, RefreshRejected,
         Create, InsertRow, Put, PutFail, Activate,
         Discard, MarkDeleting, MarkFail, Erase, EraseFail, DropRow, Finish, Exit, Crash,
         CommitRefused, CommitFail, UnsetFail
<1>4. CASE UNCHANGED vars
  BY <1>4 DEF vars
<1> QED
  BY <1>1, <1>2, <1>3, <1>4 DEF Next, Work, Write

\* The storage implements the register of AuthSession: every step of every
\* process is a login, a refresh of the current login, a logout, or leaves the
\* stored session alone.
THEOREM StorageImplementsRegister == Spec => SessionRegister
<1>1. Init => Register!Init
  BY DEF Init, Register!Init, AllSlots
<1>2. TypeInv /\ Ownership /\ Lineage /\ [Next]_vars => [Register!Next]_(Register!vars)
  BY RegisterStep
<1> QED
  BY <1>1, <1>2, TypeCorrect, OwnershipInvariant, LineageInvariant, PTL
     DEF Spec, SessionRegister, Register!Spec

-----------------------------------------------------------------------------
(* Stored secrets can be read, and none is left behind.                     *)

Kept(r) == r \in vault /\ row[r] = "active"

\* What an operation relies on: the references it has done with are kept, the
\* one it works on is where its label says, and recovery only handles what it
\* has listed.
Progress(p) ==
  /\ Writes(p) =>
       /\ job[p].todo \subseteq job[p].news
       /\ \A r \in job[p].news \ (job[p].todo \cup swept) : Kept(r)
  /\ pc[p] = "commit" => job[p].todo = {}
  /\ pc[p] \in {"put", "activate"} =>
       job[p].at \in job[p].todo /\ (job[p].at \notin swept => row[job[p].at] = "pending")
  /\ pc[p] = "activate" /\ job[p].at \notin swept => job[p].at \in vault
  /\ pc[p] \in {"recover", "recoverRow"} => job[p].todo \subseteq swept
  /\ pc[p] \in {"recoverRow", "erase", "drop"} => job[p].at \in job[p].todo
  /\ pc[p] = "erase" => row[job[p].at] \in {"deleting", "none"}
  /\ pc[p] = "drop" => job[p].at \notin vault

Safekeeping ==
  /\ \A p \in Procs : Progress(p)
  /\ StoredSecretsReadable
  /\ \A r \in vault \ swept : row[r] # "none"

\* A step of p that changes the rows and secrets of references in `touched` only,
\* which were listed for recovery or are p's own.
LEMMA OthersProgress ==
  ASSUME TypeInv, Ownership, Safekeeping, NEW p \in Procs,
         NEW touched \in SUBSET (swept \cup Making(p) \cup Discarding(p)),
         \A r \in Refs \ touched : (r \in vault' <=> r \in vault) /\ row'[r] = row[r],
         \A r \in touched \ Making(p) : (r \in vault' => r \in vault)
                                          /\ (row'[r] = row[r] \/ row'[r] \in {"deleting", "none"}),
         swept \subseteq swept',
         \A q \in Procs \ {p} : job'[q] = job[q] /\ pc'[q] = pc[q]
  PROVE  /\ \A q \in Procs \ {p} : Progress(q)'
         /\ setting' = setting => StoredSecretsReadable'
<1>1. ASSUME NEW q \in Procs \ {p}
      PROVE  Progress(q)'
  <2>1. Progress(q)
    BY DEF Safekeeping
  <2>2. Making(q)' = Making(q) /\ Writes(q)' = Writes(q) /\ job'[q] = job[q] /\ pc'[q] = pc[q]
    BY DEF Making, Writes
  <2>3. /\ job[q].news \subseteq Refs /\ job[q].todo \subseteq Refs /\ job[q].at \in Refs \cup {NoRef}
        /\ pc[q] \in {"recoverRow", "put", "activate", "erase", "drop"} => job[q].at \in Refs
    BY DEF TypeInv, TypeOK, Job, Coherence
  <2>4. Making(q) \cap touched \subseteq swept
    BY DEF Ownership
  <2>5. Discarding(q) \cap Making(p) = {}
    BY DEF Ownership
  <2>6. Writes(q)' =>
          /\ job'[q].todo \subseteq job'[q].news
          /\ \A r \in job'[q].news \ (job'[q].todo \cup swept') : r \in vault' /\ row'[r] = "active"
    <3>1. SUFFICES ASSUME Writes(q)
                   PROVE  /\ job[q].todo \subseteq job[q].news
                          /\ \A r \in job[q].news \ (job[q].todo \cup swept') : r \in vault' /\ row'[r] = "active"
      BY <2>2
    <3>2. Making(q) = job[q].news
      BY <3>1 DEF Making, Writes
    <3> QED
      BY <3>1, <3>2, <2>1, <2>3, <2>4 DEF Progress, Kept
  <2>7. pc[q] \in {"put", "activate"} =>
          /\ job[q].at \notin swept' => row'[job[q].at] = "pending"
          /\ pc[q] = "activate" /\ job[q].at \notin swept' => job[q].at \in vault'
    <3>1. SUFFICES ASSUME pc[q] \in {"put", "activate"}, job[q].at \notin swept'
                   PROVE  row'[job[q].at] = "pending" /\ (pc[q] = "activate" => job[q].at \in vault')
      OBVIOUS
    <3>2. job[q].at \in Making(q)
      BY <3>1, <2>1 DEF Progress, Making, Writes
    <3>3. job[q].at \notin touched
      BY <3>1, <3>2, <2>4
    <3> QED
      BY <3>1, <3>3, <2>1, <2>3 DEF Progress
  <2>8. pc[q] \in {"erase", "drop"} =>
          /\ pc[q] = "erase" => row'[job[q].at] \in {"deleting", "none"}
          /\ pc[q] = "drop" => job[q].at \notin vault'
    <3>1. SUFFICES ASSUME pc[q] \in {"erase", "drop"}
                   PROVE  /\ pc[q] = "erase" => row'[job[q].at] \in {"deleting", "none"}
                          /\ pc[q] = "drop" => job[q].at \notin vault'
      OBVIOUS
    <3>2. job[q].at \in Discarding(q) /\ job[q].at \in Refs
      BY <3>1, <2>1, <2>3 DEF Progress, Discarding
    <3>3. job[q].at \notin Making(p)
      BY <3>2, <2>5
    <3> QED
      BY <3>1, <3>2, <3>3, <2>1 DEF Progress
  <2> QED
    BY <2>1, <2>2, <2>6, <2>7, <2>8 DEF Progress, Kept
<1>2. ASSUME setting' = setting
      PROVE  StoredSecretsReadable'
  <2>1. Referenced' = Referenced /\ Referenced \subseteq Refs
    BY <1>2 DEF Referenced, TypeInv, TypeOK
  <2>2. Referenced \cap touched \subseteq swept
    BY DEF Ownership, Referenced
  <2> QED
    BY <2>1, <2>2 DEF Safekeeping, StoredSecretsReadable
<1> QED
  BY <1>1, <1>2

\* A step that changes no row, secret or setting, after which p makes, recovers
\* and erases nothing.
LEMMA Idling ==
  ASSUME TypeInv, Ownership, Safekeeping, NEW p \in Procs,
         UNCHANGED disk, swept' = swept,
         pc'[p] \in {"closed", "ready", "refreshing", "granted", "unset", "mark"},
         \A q \in Procs \ {p} : job'[q] = job[q] /\ pc'[q] = pc[q]
  PROVE  Safekeeping'
<1>1. setting' = setting /\ row' = row /\ vault' = vault
  BY DEF disk
<1>2. /\ \A q \in Procs \ {p} : Progress(q)'
      /\ StoredSecretsReadable'
  <2>1. {} \in SUBSET (swept \cup Making(p) \cup Discarding(p))
    OBVIOUS
  <2> QED
    BY <1>1, <2>1, OthersProgress
<1>3. Progress(p)'
  BY DEF Progress, Making, Writes
<1> QED
  BY <1>1, <1>2, <1>3 DEF Safekeeping

LEMMA JobsOf ==
  ASSUME TypeInv, NEW p \in Procs
  PROVE  /\ job[p] \in Job /\ job[p].news \subseteq Refs /\ job[p].todo \subseteq Refs
         /\ pc[p] \in PCs /\ vault \subseteq Refs /\ swept \subseteq Refs
         /\ job \in [Procs -> Job] /\ pc \in [Procs -> PCs]
         /\ row \in [Refs -> {"none", "pending", "active", "deleting"}]
BY DEF TypeInv, TypeOK, Job

LEMMA RecoverSafe ==
  ASSUME TypeInv, Ownership, Safekeeping, NEW p \in Procs, Open(p) \/ Recover(p)
  PROVE  Safekeeping'
<1>0. Progress(p) /\ \A r \in vault \ swept : row[r] # "none"
  BY DEF Safekeeping
<1>1. CASE Open(p)
  <2>1. /\ job'[p].todo = Interrupted /\ pc'[p] = "recover" /\ swept' = swept \cup Interrupted
        /\ \A q \in Procs \ {p} : job'[q] = job[q] /\ pc'[q] = pc[q]
        /\ setting' = setting /\ row' = row /\ vault' = vault
    BY <1>1, JobsOf DEF Open, Goto, disk, Job
  <2>2. Progress(p)'
    BY <2>1 DEF Progress, Making, Writes
  <2>3. {} \in SUBSET (swept \cup Making(p) \cup Discarding(p))
    OBVIOUS
  <2>4. /\ \A q \in Procs \ {p} : Progress(q)'
        /\ StoredSecretsReadable'
    BY <2>1, <2>3, OthersProgress
  <2> QED
    BY <1>0, <2>1, <2>2, <2>4 DEF Safekeeping
<1>2. CASE RecoverSecret(p)
  <2>1. PICK r \in job[p].todo : /\ vault' = vault \ {r}
                                 /\ job' = [job EXCEPT ![p].at = r]
    BY <1>2 DEF RecoverSecret, IsNext
  <2>2. /\ job'[p].todo = job[p].todo /\ job'[p].at = r /\ pc'[p] = "recoverRow"
        /\ \A q \in Procs \ {p} : job'[q] = job[q] /\ pc'[q] = pc[q]
        /\ setting' = setting /\ row' = row /\ swept' = swept /\ pc[p] = "recover"
    BY <1>2, <2>1, JobsOf DEF RecoverSecret, Goto, Job
  <2>3. r \in swept
    BY <1>0, <2>2 DEF Progress
  <2>4. Progress(p)'
    BY <1>0, <2>2 DEF Progress, Making, Writes
  <2>5. /\ \A q \in Procs \ {p} : Progress(q)'
        /\ StoredSecretsReadable'
    <3>1. {r} \in SUBSET (swept \cup Making(p) \cup Discarding(p))
      BY <2>3
    <3> QED
      BY <2>1, <2>2, <3>1, OthersProgress
  <2> QED
    BY <1>0, <2>1, <2>2, <2>4, <2>5 DEF Safekeeping
<1>3. CASE RecoverRow(p)
  <2> DEFINE r == job[p].at
  <2>1. r \in swept /\ r \in Refs
    BY <1>0, <1>3, JobsOf DEF Progress, RecoverRow, TypeInv, Coherence
  <2>2. /\ row' = [row EXCEPT ![r] = "none"] /\ vault' = vault /\ setting' = setting /\ swept' = swept
        /\ pc[p] = "recoverRow" /\ pc'[p] = "recover"
        /\ job'[p].todo = job[p].todo \ {r}
        /\ \A q \in Procs \ {p} : job'[q] = job[q] /\ pc'[q] = pc[q]
    BY <1>3, JobsOf DEF RecoverRow, Goto, Job
  <2> HIDE DEF r
  <2>3. row'[r] = "none" /\ \A t \in Refs \ {r} : row'[t] = row[t]
    BY <2>1, <2>2, JobsOf
  <2>4. Progress(p)'
    BY <1>0, <2>2 DEF Progress, Making, Writes
  <2>5. /\ \A q \in Procs \ {p} : Progress(q)'
        /\ StoredSecretsReadable'
    <3>1. {r} \in SUBSET (swept \cup Making(p) \cup Discarding(p))
      BY <2>1
    <3> QED
      BY <2>2, <2>3, <3>1, OthersProgress
  <2>6. \A t \in vault' \ swept' : row'[t] # "none"
    BY <1>0, <2>1, <2>2, <2>3, JobsOf
  <2> QED
    BY <2>4, <2>5, <2>6 DEF Safekeeping
<1>4. CASE RecoverFail(p)
  <2>1. PICK r \in job[p].todo : vault' \in {vault, vault \ {r}}
    BY <1>0, <1>4 DEF RecoverFail, IsNext, Progress
  <2>2. /\ pc[p] \in {"recover", "recoverRow"} /\ pc'[p] = "closed" /\ setting' = setting /\ row' = row /\ swept' = swept
        /\ \A q \in Procs \ {p} : job'[q] = job[q] /\ pc'[q] = pc[q]
    BY <1>4, JobsOf DEF RecoverFail, Goto
  <2>3. r \in swept
    BY <1>0, <2>2 DEF Progress
  <2>4. Progress(p)'
    BY <2>2 DEF Progress, Making, Writes
  <2>5. /\ \A q \in Procs \ {p} : Progress(q)'
        /\ StoredSecretsReadable'
    <3>1. {r} \in SUBSET (swept \cup Making(p) \cup Discarding(p))
      BY <2>3
    <3> QED
      BY <2>1, <2>2, <3>1, OthersProgress
  <2> QED
    BY <1>0, <2>1, <2>2, <2>4, <2>5 DEF Safekeeping
<1>5. CASE RecoverDone(p)
  <2>1. /\ UNCHANGED disk /\ swept' = swept /\ pc'[p] = "ready"
        /\ \A q \in Procs \ {p} : job'[q] = job[q] /\ pc'[q] = pc[q]
    BY <1>5, JobsOf DEF RecoverDone, Goto
  <2> QED
    BY <2>1, Idling
<1> QED
  BY <1>1, <1>2, <1>3, <1>4, <1>5 DEF Recover

LEMMA BeginSafe ==
  ASSUME TypeInv, Ownership, Safekeeping, NEW p \in Procs, Begin(p) \/ Refreshing(p)
  PROVE  Safekeeping'
<1>1. ASSUME NEW s, NEW kind, NEW expected, NEW line, NEW prev,
             BeginWrite(p, s, kind, expected, line, prev)
      PROVE  Safekeeping'
  <2>1. PICK new \in SUBSET (Refs \ issued) :
          job' = [job EXCEPT ![p] =
            [kind |-> kind, slot |-> s, expected |-> expected,
             line |-> IF kind = "login" THEN new ELSE line,
             prev |-> prev, news |-> new, todo |-> new, at |-> NoRef]]
    BY <1>1 DEF BeginWrite
  <2>2. /\ job'[p].news = new /\ job'[p].todo = new /\ pc'[p] = "insert" /\ swept' = swept
        /\ setting' = setting /\ row' = row /\ vault' = vault
        /\ \A q \in Procs \ {p} : job'[q] = job[q] /\ pc'[q] = pc[q]
    BY <1>1, <2>1, JobsOf DEF BeginWrite, Goto, disk
  <2>3. Progress(p)'
    BY <2>2 DEF Progress, Writes
  <2>4. {} \in SUBSET (swept \cup Making(p) \cup Discarding(p))
    OBVIOUS
  <2>5. /\ \A q \in Procs \ {p} : Progress(q)'
        /\ StoredSecretsReadable'
    BY <2>2, <2>4, OthersProgress
  <2> QED
    BY <2>2, <2>3, <2>5 DEF Safekeeping
<1>2. CASE BeginLogin(p) \/ BeginSet(p) \/ BeginRefresh(p)
  BY <1>1, <1>2 DEF BeginLogin, BeginSet, BeginRefresh
<1>3. CASE \/ StartRefresh(p) \/ BeginClear(p)
           \/ ReadRefreshToken(p) \/ RefuseRefreshToken(p) \/ RefreshRejected(p)
  <2>1. /\ UNCHANGED disk /\ swept' = swept
        /\ pc'[p] \in {"closed", "ready", "refreshing", "granted", "unset", "mark"}
    BY <1>3, JobsOf DEF StartRefresh, BeginClear, ReadRefreshToken, RefuseRefreshToken, RefreshRejected, Goto
  <2>2. \A q \in Procs \ {p} : job'[q] = job[q] /\ pc'[q] = pc[q]
    BY <1>3, JobsOf DEF StartRefresh, BeginClear, ReadRefreshToken, RefuseRefreshToken, RefreshRejected, Goto
  <2> QED
    BY <2>1, <2>2, Idling
<1> QED
  BY <1>2, <1>3 DEF Begin, Refreshing

LEMMA CreateSafe ==
  ASSUME TypeInv, Ownership, Safekeeping, NEW p \in Procs, Create(p)
  PROVE  Safekeeping'
<1>0. Progress(p) /\ \A r \in vault \ swept : row[r] # "none"
  BY DEF Safekeeping
<1>1. CASE InsertRow(p)
  <2>1. PICK r \in job[p].todo : row' = [row EXCEPT ![r] = "pending"] /\ job' = [job EXCEPT ![p].at = r]
    BY <1>1 DEF InsertRow, IsNext
  <2>2. /\ job'[p].todo = job[p].todo /\ job'[p].news = job[p].news /\ job'[p].at = r
        /\ pc[p] = "insert" /\ pc'[p] = "put"
        /\ setting' = setting /\ vault' = vault /\ swept' = swept
        /\ \A q \in Procs \ {p} : job'[q] = job[q] /\ pc'[q] = pc[q]
    BY <1>1, <2>1, JobsOf DEF InsertRow, Goto, Job
  <2>3. r \in Refs /\ row'[r] = "pending" /\ \A t \in Refs \ {r} : row'[t] = row[t]
    BY <2>1, JobsOf
  <2>4. r \in Making(p)
    BY <1>0, <2>2 DEF Progress, Making, Writes
  <2>5. Progress(p)'
    BY <1>0, <2>2, <2>3, JobsOf DEF Progress, Writes, Kept
  <2>6. /\ \A q \in Procs \ {p} : Progress(q)'
        /\ StoredSecretsReadable'
    <3>1. {r} \in SUBSET (swept \cup Making(p) \cup Discarding(p))
      BY <2>4
    <3> QED
      BY <2>2, <2>3, <2>4, <3>1, OthersProgress
  <2>7. \A t \in vault' \ swept' : row'[t] # "none"
    BY <1>0, <2>2, <2>3, JobsOf
  <2> QED
    BY <2>5, <2>6, <2>7 DEF Safekeeping
<1>2. CASE Put(p) \/ PutFail(p)
  <2> DEFINE r == job[p].at
  <2>1. /\ pc[p] = "put" /\ setting' = setting /\ row' = row /\ swept' = swept
        /\ vault' \in {vault, vault \cup {r}}
    BY <1>2 DEF Put, PutFail
  <2>2. r \in Refs /\ r \in Making(p) /\ (r \notin swept => row[r] = "pending")
    BY <1>0, <2>1, JobsOf DEF Progress, Making, Writes
  <2>3. \A q \in Procs \ {p} : job'[q] = job[q] /\ pc'[q] = pc[q]
    BY <1>2, JobsOf, AbandonTyped DEF Put, PutFail, Goto
  <2> HIDE DEF r
  <2>4. /\ \A q \in Procs \ {p} : Progress(q)'
        /\ StoredSecretsReadable'
    <3>1. {r} \in SUBSET (swept \cup Making(p) \cup Discarding(p))
      BY <2>2
    <3> QED
      BY <2>1, <2>2, <2>3, <3>1, OthersProgress
  <2>5. \A t \in vault' \ swept' : row'[t] # "none"
    BY <1>0, <2>1, <2>2
  <2>6. CASE Put(p)
    <3>1. job'[p] = job[p] /\ pc'[p] = "activate" /\ r \in vault' /\ vault \subseteq vault'
      BY <2>6, JobsOf DEF Put, Goto, r
    <3>2. Progress(p)'
      BY <1>0, <2>1, <3>1 DEF Progress, Writes, Kept, r
    <3> QED
      BY <2>4, <2>5, <3>2 DEF Safekeeping
  <2>7. CASE PutFail(p)
    <3>1. pc'[p] = "mark"
      BY <2>7, JobsOf, AbandonTyped DEF PutFail
    <3>2. Progress(p)'
      BY <3>1 DEF Progress, Writes
    <3> QED
      BY <2>4, <2>5, <3>2 DEF Safekeeping
  <2> QED
    BY <1>2, <2>6, <2>7
<1>3. CASE Activate(p)
  <2> DEFINE r == job[p].at
  <2>1. /\ pc[p] = "activate" /\ setting' = setting /\ vault' = vault /\ swept' = swept
        /\ row' = [row EXCEPT ![r] = IF @ = "none" THEN "none" ELSE "active"]
        /\ pc'[p] = IF job[p].todo = {r} THEN "commit" ELSE "insert"
        /\ \A q \in Procs \ {p} : job'[q] = job[q] /\ pc'[q] = pc[q]
    BY <1>3, JobsOf DEF Activate, SetState, Goto
  <2>2. job'[p].todo = job[p].todo \ {r} /\ job'[p].news = job[p].news
    BY <1>3, JobsOf DEF Activate, Job
  <2>3. r \in Refs /\ r \in Making(p) /\ (r \notin swept => row[r] = "pending" /\ r \in vault)
    BY <1>0, <2>1, JobsOf DEF Progress, Making, Writes
  <2> HIDE DEF r
  <2>4. /\ \A t \in Refs \ {r} : row'[t] = row[t]
        /\ row'[r] = IF row[r] = "none" THEN "none" ELSE "active"
    BY <2>1, <2>3, JobsOf
  <2>5. /\ \A q \in Procs \ {p} : Progress(q)'
        /\ StoredSecretsReadable'
    <3>1. {r} \in SUBSET (swept \cup Making(p) \cup Discarding(p))
      BY <2>3
    <3> QED
      BY <2>1, <2>3, <2>4, <3>1, OthersProgress
  <2>6. \A t \in vault' \ swept' : row'[t] # "none"
    BY <1>0, <2>1, <2>4, JobsOf
  <2>7. job'[p].todo \subseteq job'[p].news /\ (pc'[p] = "commit" => job'[p].todo = {})
    BY <1>0, <2>1, <2>2 DEF Progress, Writes
  <2>8. ASSUME NEW t \in job'[p].news \ (job'[p].todo \cup swept')
        PROVE  Kept(t)'
    <3>1. t = r \/ t \in job[p].news \ (job[p].todo \cup swept)
      BY <2>1, <2>2
    <3>2. t \in Refs /\ t \notin swept
      BY <2>1, <2>2, JobsOf
    <3>3. CASE t = r
      BY <3>2, <3>3, <2>1, <2>3, <2>4 DEF Kept
    <3>4. CASE t # r
      <4>1. Kept(t)
        BY <3>1, <3>4, <1>0, <2>1 DEF Progress, Writes
      <4> QED
        BY <3>2, <3>4, <4>1, <2>1, <2>4 DEF Kept
    <3> QED
      BY <3>3, <3>4
  <2>9. Progress(p)'
    BY <2>1, <2>7, <2>8 DEF Progress
  <2> QED
    BY <2>5, <2>6, <2>9 DEF Safekeeping
<1> QED
  BY <1>1, <1>2, <1>3 DEF Create

LEMMA WriteSafe ==
  ASSUME TypeInv, Ownership, Safekeeping, NEW p \in Procs, Write(p)
  PROVE  Safekeeping'
<1>0. Progress(p) /\ \A r \in vault \ swept : row[r] # "none"
  BY DEF Safekeeping
<1>1. CASE CommitRefused(p) \/ CommitFail(p)
  <2>1. Abandon(p) /\ UNCHANGED disk /\ swept' = swept
    BY <1>1 DEF CommitRefused, CommitFail
  <2>2. pc'[p] = "mark" /\ \A q \in Procs \ {p} : job'[q] = job[q] /\ pc'[q] = pc[q]
    BY <2>1, JobsOf, AbandonTyped
  <2> QED
    BY <2>1, <2>2, Idling
<1>2. CASE Commit(p) \/ Unset(p)
  <2>1. /\ row' = row /\ vault' = vault /\ swept' = swept /\ pc'[p] = "mark"
        /\ \A q \in Procs \ {p} : job'[q] = job[q] /\ pc'[q] = pc[q]
    BY <1>2, JobsOf DEF Commit, Unset, Goto
  <2>2. Progress(p)'
    BY <2>1 DEF Progress, Writes
  <2>3. {} \in SUBSET (swept \cup Making(p) \cup Discarding(p))
    OBVIOUS
  <2>4. \A q \in Procs \ {p} : Progress(q)'
    BY <2>1, <2>3, OthersProgress
  <2>5. ASSUME NEW s \in AllSlots, NEW r \in setting'[s], r \notin swept
        PROVE  Kept(r)
    <3>1. CASE r \in setting[s]
      BY <2>5, <3>1 DEF Safekeeping, StoredSecretsReadable, Referenced, Kept
    <3>2. CASE r \notin setting[s]
      <4>1. Commit(p) /\ r \in job[p].news
        <5>1. setting' \in {[setting EXCEPT ![job[p].slot] = job[p].news], [setting EXCEPT ![job[p].slot] = {}]}
          BY <1>2 DEF Commit, Unset
        <5>2. setting \in [AllSlots -> SUBSET Refs]
          BY DEF TypeInv, TypeOK
        <5>3. CASE Commit(p)
          BY <5>2, <5>3, <3>2, <2>5 DEF Commit
        <5>4. CASE Unset(p)
          BY <5>2, <5>4, <3>2, <2>5 DEF Unset
        <5> QED
          BY <1>2, <5>3, <5>4
      <4>2. pc[p] = "commit" /\ job[p].todo = {}
        BY <4>1, <1>0 DEF Commit, Progress
      <4> QED
        BY <4>1, <4>2, <2>5, <1>0 DEF Progress, Writes
    <3> QED
      BY <3>1, <3>2
  <2>6. StoredSecretsReadable'
    BY <2>1, <2>5 DEF StoredSecretsReadable, Referenced, Kept
  <2> QED
    BY <1>0, <2>1, <2>2, <2>4, <2>6 DEF Safekeeping
<1>3. CASE UnsetFail(p)
  <2>1. /\ UNCHANGED disk /\ swept' = swept /\ pc'[p] = "ready"
        /\ \A q \in Procs \ {p} : job'[q] = job[q] /\ pc'[q] = pc[q]
    BY <1>3, JobsOf DEF UnsetFail, Goto
  <2> QED
    BY <2>1, Idling
<1> QED
  BY <1>1, <1>2, <1>3 DEF Write

LEMMA DiscardSafeStep ==
  ASSUME TypeInv, Ownership, Safekeeping, NEW p \in Procs, Discard(p)
  PROVE  Safekeeping'
<1>0. Progress(p) /\ \A r \in vault \ swept : row[r] # "none"
  BY DEF Safekeeping
<1>1. CASE MarkDeleting(p)
  <2>1. PICK r \in job[p].todo : SetState(r, "deleting") /\ job' = [job EXCEPT ![p].at = r]
    BY <1>1 DEF MarkDeleting, IsNext
  <2>2. /\ job'[p].todo = job[p].todo /\ job'[p].at = r /\ pc[p] = "mark" /\ pc'[p] = "erase"
        /\ setting' = setting /\ vault' = vault /\ swept' = swept
        /\ \A q \in Procs \ {p} : job'[q] = job[q] /\ pc'[q] = pc[q]
    BY <1>1, <2>1, JobsOf DEF MarkDeleting, Goto, Job
  <2>3. /\ r \in Refs /\ r \in Discarding(p)
        /\ row'[r] = IF row[r] = "none" THEN "none" ELSE "deleting"
        /\ \A t \in Refs \ {r} : row'[t] = row[t]
    BY <2>1, <2>2, JobsOf DEF SetState, Discarding
  <2>4. Progress(p)'
    BY <2>2, <2>3 DEF Progress, Writes
  <2>5. /\ \A q \in Procs \ {p} : Progress(q)'
        /\ StoredSecretsReadable'
    <3>1. {r} \in SUBSET (swept \cup Making(p) \cup Discarding(p))
      BY <2>3
    <3>2. row'[r] \in {"deleting", "none"}
      BY <2>3
    <3> QED
      BY <2>2, <2>3, <3>1, <3>2, OthersProgress, ZenonT(60)
  <2>6. \A t \in vault' \ swept' : row'[t] # "none"
    BY <1>0, <2>2, <2>3, JobsOf
  <2> QED
    BY <2>4, <2>5, <2>6 DEF Safekeeping
<1>2. CASE Erase(p) \/ EraseFail(p)
  <2> DEFINE r == job[p].at
  <2>1. /\ pc[p] \in {"erase", "drop"} /\ setting' = setting /\ row' = row /\ swept' = swept
        /\ vault' \in {vault, vault \ {r}}
        /\ \A q \in Procs \ {p} : job'[q] = job[q] /\ pc'[q] = pc[q]
    BY <1>2, JobsOf DEF Erase, EraseFail, Goto
  <2>2. r \in Discarding(p)
    BY <1>0, <2>1 DEF Progress, Discarding
  <2>3. Progress(p)'
    <3>1. CASE Erase(p)
      <4>1. job'[p] = job[p] /\ pc'[p] = "drop" /\ r \notin vault'
        BY <3>1, JobsOf DEF Erase, Goto
      <4> QED
        BY <4>1, <1>0, <2>1 DEF Progress, Writes
    <3>2. CASE EraseFail(p)
      <4>1. pc'[p] = "mark"
        BY <3>2, JobsOf DEF EraseFail, Goto
      <4> QED
        BY <4>1 DEF Progress, Writes
    <3> QED
      BY <1>2, <3>1, <3>2
  <2> HIDE DEF r
  <2>4. /\ \A q \in Procs \ {p} : Progress(q)'
        /\ StoredSecretsReadable'
    <3>1. {r} \in SUBSET (swept \cup Making(p) \cup Discarding(p))
      BY <2>2
    <3> QED
      BY <2>1, <3>1, OthersProgress
  <2>5. \A t \in vault' \ swept' : row'[t] # "none"
    BY <1>0, <2>1
  <2> QED
    BY <2>3, <2>4, <2>5 DEF Safekeeping
<1>3. CASE DropRow(p)
  <2> DEFINE r == job[p].at
  <2>1. /\ pc[p] = "drop" /\ pc'[p] = "mark" /\ setting' = setting /\ vault' = vault /\ swept' = swept
        /\ row' = [row EXCEPT ![r] = "none"]
        /\ \A q \in Procs \ {p} : job'[q] = job[q] /\ pc'[q] = pc[q]
    BY <1>3, JobsOf DEF DropRow, Goto
  <2>2. r \in Discarding(p) /\ r \notin vault /\ r \in Refs
    BY <1>0, <2>1, JobsOf DEF Progress, Discarding
  <2> HIDE DEF r
  <2>3. row'[r] = "none" /\ \A t \in Refs \ {r} : row'[t] = row[t]
    BY <2>1, <2>2, JobsOf
  <2>4. Progress(p)'
    BY <2>1 DEF Progress, Writes
  <2>5. /\ \A q \in Procs \ {p} : Progress(q)'
        /\ StoredSecretsReadable'
    <3>1. {r} \in SUBSET (swept \cup Making(p) \cup Discarding(p))
      BY <2>2
    <3> QED
      BY <2>1, <2>3, <3>1, OthersProgress
  <2>6. \A t \in vault' \ swept' : row'[t] # "none"
    BY <1>0, <2>1, <2>2, <2>3, JobsOf
  <2> QED
    BY <2>4, <2>5, <2>6 DEF Safekeeping
<1>4. CASE Finish(p) \/ MarkFail(p)
  <2>1. /\ UNCHANGED disk /\ swept' = swept /\ pc'[p] \in {"ready", "mark"}
        /\ \A q \in Procs \ {p} : job'[q] = job[q] /\ pc'[q] = pc[q]
    BY <1>4, JobsOf DEF Finish, MarkFail, Goto
  <2> QED
    BY <2>1, Idling
<1> QED
  BY <1>1, <1>2, <1>3, <1>4 DEF Discard

LEMMA SafekeepingStep == TypeInv /\ Ownership /\ Safekeeping /\ [Next]_vars => Safekeeping'
<1> SUFFICES ASSUME TypeInv, Ownership, Safekeeping, [Next]_vars PROVE Safekeeping'
  OBVIOUS
<1>1. ASSUME NEW p \in Procs, Exit(p) \/ Crash(p)
      PROVE  Safekeeping'
  <2>1. /\ UNCHANGED disk /\ swept' = swept /\ pc'[p] = "closed"
        /\ \A q \in Procs \ {p} : job'[q] = job[q] /\ pc'[q] = pc[q]
    BY <1>1, JobsOf DEF Exit, Crash, Goto
  <2> QED
    BY <2>1, Idling
<1>2. CASE UNCHANGED vars
  BY <1>2 DEF vars, Safekeeping, Progress, Writes, Kept, StoredSecretsReadable, Referenced
<1> QED
  BY <1>1, <1>2, RecoverSafe, BeginSafe, CreateSafe, WriteSafe, DiscardSafeStep DEF Next, Work

\* What operations do with rows and secrets keeps every stored secret readable.
THEOREM SafekeepingInvariant == Spec => []Safekeeping
<1>1. Init => Safekeeping
  BY DEF Init, Safekeeping, Progress, Writes, StoredSecretsReadable, Referenced, NoJob
<1>2. TypeInv /\ Ownership /\ Safekeeping /\ [Next]_vars => Safekeeping'
  BY SafekeepingStep
<1> QED
  BY <1>1, <1>2, TypeCorrect, OwnershipInvariant, PTL DEF Spec

\* A reference that a setting holds can be read back, whatever crashes, fails or
\* writes at the same time, unless a recovery listed it while it was being created.
THEOREM StoredSecretsStayReadable == Spec => []StoredSecretsReadable
<1>1. Safekeeping => StoredSecretsReadable
  BY DEF Safekeeping
<1> QED
  BY <1>1, SafekeepingInvariant, PTL

-----------------------------------------------------------------------------
(* No secret is left behind.                                                *)

\* Only a set or a clear works on a setting it has read before its transaction.
KindInv ==
  \A p \in Procs :
    /\ Writes(p) /\ job[p].slot # "auth" => job[p].kind = "set"
    /\ pc[p] = "unset" => job[p].kind = "clear"

LEMMA KindStep == TypeInv /\ KindInv /\ [Next]_vars => KindInv'
<1> SUFFICES ASSUME TypeInv, KindInv, [Next]_vars PROVE KindInv'
  OBVIOUS
<1>1. ASSUME NEW p \in Procs, \A q \in Procs \ {p} : job'[q] = job[q] /\ pc'[q] = pc[q],
             \/ ~ Writes(p)' /\ pc'[p] # "unset"
             \/ /\ Writes(p)' => Writes(p)
                /\ pc'[p] # "unset"
                /\ job'[p].slot = job[p].slot /\ job'[p].kind = job[p].kind
      PROVE  KindInv'
  BY <1>1 DEF KindInv, Writes
<1>2. ASSUME NEW p \in Procs, BeginLogin(p) \/ BeginSet(p) \/ BeginRefresh(p)
      PROVE  KindInv'
  <2>1. /\ job'[p].slot # "auth" => job'[p].kind = "set"
        /\ pc'[p] = "insert"
        /\ \A q \in Procs \ {p} : job'[q] = job[q] /\ pc'[q] = pc[q]
    BY <1>2, JobsOf DEF BeginLogin, BeginSet, BeginRefresh, BeginWrite, Goto
  <2> QED
    BY <2>1 DEF KindInv, Writes
<1>3. ASSUME NEW p \in Procs, BeginClear(p)
      PROVE  KindInv'
  <2>1. /\ job'[p].kind = "clear" /\ pc'[p] = "unset"
        /\ \A q \in Procs \ {p} : job'[q] = job[q] /\ pc'[q] = pc[q]
    BY <1>3, JobsOf DEF BeginClear, Goto, NoJob
  <2> QED
    BY <2>1 DEF KindInv, Writes
<1>4. ASSUME NEW p \in Procs,
             \/ Open(p) \/ Recover(p) \/ StartRefresh(p) \/ Discard(p) \/ UnsetFail(p) \/ Exit(p) \/ Crash(p)
             \/ ReadRefreshToken(p) \/ RefuseRefreshToken(p) \/ RefreshRejected(p)
      PROVE  KindInv'
  <2>1. /\ pc'[p] \notin {"insert", "put", "activate", "commit", "unset"}
        /\ \A q \in Procs \ {p} : job'[q] = job[q] /\ pc'[q] = pc[q]
    BY <1>4, JobsOf DEF Open, Recover, RecoverSecret, RecoverRow, RecoverFail, RecoverDone, StartRefresh,
       Discard, MarkDeleting, MarkFail, Erase, EraseFail, DropRow, Finish, UnsetFail, Exit, Crash,
       ReadRefreshToken, RefuseRefreshToken, RefreshRejected, Goto
  <2> QED
    BY <1>1, <2>1 DEF Writes
<1>5. ASSUME NEW p \in Procs, InsertRow(p) \/ Put(p) \/ Activate(p)
      PROVE  KindInv'
  <2>1. /\ job'[p].slot = job[p].slot /\ job'[p].kind = job[p].kind
        /\ pc[p] \in {"insert", "put", "activate"} /\ pc'[p] # "unset"
        /\ \A q \in Procs \ {p} : job'[q] = job[q] /\ pc'[q] = pc[q]
    BY <1>5, JobsOf DEF InsertRow, Put, Activate, Goto, Job
  <2> QED
    BY <1>1, <2>1 DEF Writes
<1>6. ASSUME NEW p \in Procs, PutFail(p) \/ CommitRefused(p) \/ CommitFail(p)
      PROVE  KindInv'
  <2>1. pc'[p] = "mark" /\ \A q \in Procs \ {p} : job'[q] = job[q] /\ pc'[q] = pc[q]
    BY <1>6, JobsOf, AbandonTyped DEF PutFail, CommitRefused, CommitFail
  <2> QED
    BY <1>1, <2>1 DEF Writes
<1>7. ASSUME NEW p \in Procs, Commit(p) \/ Unset(p)
      PROVE  KindInv'
  <2>1. pc'[p] = "mark" /\ \A q \in Procs \ {p} : job'[q] = job[q] /\ pc'[q] = pc[q]
    BY <1>7, JobsOf DEF Commit, Unset, Goto
  <2> QED
    BY <1>1, <2>1 DEF Writes
<1>8. CASE UNCHANGED vars
  BY <1>8 DEF vars, KindInv, Writes
<1> QED
  BY <1>2, <1>3, <1>4, <1>5, <1>6, <1>7, <1>8 DEF Next, Begin, Work, Refreshing, Create, Write

\* What p is responsible for.
Mine(p) == Making(p) \cup Discarding(p)

\* A step of p leaves nothing behind if every secret that nothing accounts for
\* after it was there before, with nothing and not p accounting for it.
LEMMA NothingLost ==
  ASSUME NEW p \in Procs, swept \subseteq swept',
         \A q \in Procs \ {p} : job'[q] = job[q] /\ pc'[q] = pc[q],
         \A r \in vault' \ (swept' \cup Referenced' \cup Mine(p)') :
           row'[r] \notin {"pending", "deleting"} =>
             r \in vault /\ r \notin Referenced /\ row[r] \notin {"pending", "deleting"} /\ r \notin Mine(p)
  PROVE  Leaked' \subseteq Leaked
<1>1. \A q \in Procs \ {p} : Mine(q)' = Mine(q)
  BY DEF Mine, Making, Discarding
<1>2. SUFFICES ASSUME NEW r \in Leaked'
               PROVE  r \in Leaked
  OBVIOUS
<1>3. /\ r \in vault' \ (Referenced' \cup swept') /\ row'[r] \notin {"pending", "deleting"}
      /\ \A q \in Procs : r \notin Mine(q)'
  BY DEF Leaked, Mine
<1>4. r \in vault /\ r \notin Referenced /\ row[r] \notin {"pending", "deleting"} /\ r \notin Mine(p)
  BY <1>3
<1>5. \A q \in Procs : r \notin Mine(q)
  BY <1>1, <1>3, <1>4
<1> QED
  BY <1>3, <1>4, <1>5 DEF Leaked, Mine

LEMMA LeakStep ==
  ASSUME TypeInv, Safekeeping, KindInv, [Next]_vars,
         ~ \E p \in Procs :
             Crash(p) \/ MarkFail(p) \/ (Outdated(p) /\ (Commit(p) \/ Unset(p)))
  PROVE  Leaked' \subseteq Leaked
<1>1. ASSUME NEW p \in Procs, \/ Open(p) \/ Begin(p) \/ Refreshing(p) \/ RecoverDone(p)
                               \/ UnsetFail(p) \/ Finish(p) \/ Exit(p)
      PROVE  Leaked' \subseteq Leaked
  <2>1. Mine(p) = {}
    BY <1>1, JobsOf DEF Open, Begin, BeginLogin, BeginSet, StartRefresh, BeginClear, Refreshing,
       ReadRefreshToken, RefuseRefreshToken, BeginRefresh, RefreshRejected, RecoverDone,
       UnsetFail, Finish, Exit, Mine, Making, Discarding
  <2>2. /\ setting' = setting /\ row' = row /\ vault' = vault /\ swept \subseteq swept'
        /\ \A q \in Procs \ {p} : job'[q] = job[q] /\ pc'[q] = pc[q]
    BY <1>1, JobsOf DEF Open, Begin, BeginLogin, BeginSet, StartRefresh, BeginClear, Refreshing,
       ReadRefreshToken, RefuseRefreshToken, BeginRefresh, BeginWrite, RefreshRejected, RecoverDone,
       UnsetFail, Finish, Exit, Goto, disk
  <2>3. Referenced' = Referenced
    BY <2>2 DEF Referenced
  <2> QED
    BY <2>1, <2>2, <2>3, NothingLost
<1>2. ASSUME NEW p \in Procs, RecoverSecret(p) \/ RecoverRow(p) \/ RecoverFail(p)
      PROVE  Leaked' \subseteq Leaked
  <2>1. pc[p] \in {"recover", "recoverRow"} /\ Progress(p)
    BY <1>2 DEF RecoverSecret, RecoverRow, RecoverFail, Safekeeping
  <2>2. /\ setting' = setting /\ vault' \subseteq vault /\ swept' = swept
        /\ \A q \in Procs \ {p} : job'[q] = job[q] /\ pc'[q] = pc[q]
    BY <1>2, JobsOf DEF RecoverSecret, RecoverRow, RecoverFail, Goto
  <2>3. Referenced' = Referenced /\ Mine(p) = {}
    BY <2>1, <2>2 DEF Referenced, Mine, Making, Discarding
  <2>4. \A r \in Refs \ swept : row'[r] = row[r]
    BY <1>2, <2>1, JobsOf DEF RecoverSecret, RecoverRow, RecoverFail, Progress
  <2> QED
    BY <2>2, <2>3, <2>4, JobsOf, NothingLost
<1>3. ASSUME NEW p \in Procs, Create(p)
      PROVE  Leaked' \subseteq Leaked
  <2>1. Writes(p) /\ Mine(p) = job[p].news
    BY <1>3 DEF Create, InsertRow, Put, PutFail, Activate, Writes, Mine, Making, Discarding
  <2>2. Progress(p) /\ (pc[p] \in {"put", "activate"} => job[p].at \in job[p].news)
    BY <2>1 DEF Safekeeping, Progress
  <2>3. /\ setting' = setting /\ swept' = swept
        /\ \A q \in Procs \ {p} : job'[q] = job[q] /\ pc'[q] = pc[q]
    BY <1>3, JobsOf, AbandonTyped DEF Create, InsertRow, Put, PutFail, Activate, Goto
  <2>4. Mine(p)' = job[p].news
    <3>1. CASE InsertRow(p) \/ Put(p) \/ Activate(p)
      <4>1. job'[p].news = job[p].news /\ pc'[p] \in {"insert", "put", "activate", "commit"}
        BY <3>1, JobsOf DEF InsertRow, Put, Activate, Goto, Job
      <4> QED
        BY <4>1 DEF Mine, Making, Discarding
    <3>2. CASE PutFail(p)
      <4>1. job'[p].todo = job[p].news /\ pc'[p] = "mark"
        BY <3>2, JobsOf, AbandonTyped DEF PutFail
      <4> QED
        BY <4>1 DEF Mine, Making, Discarding
    <3> QED
      BY <1>3, <3>1, <3>2 DEF Create
  <2>5. \A r \in Refs \ job[p].news : (r \in vault' => r \in vault) /\ row'[r] = row[r]
    <3>1. CASE InsertRow(p)
      <4>1. job[p].todo \subseteq job[p].news
        BY <2>1, <2>2 DEF Progress
      <4> QED
        BY <3>1, <4>1, JobsOf DEF InsertRow, IsNext
    <3>2. CASE Put(p) \/ PutFail(p)
      BY <2>2, <3>2, JobsOf DEF Put, PutFail
    <3>3. CASE Activate(p)
      BY <2>2, <3>3, JobsOf DEF Activate, SetState
    <3> QED
      BY <1>3, <3>1, <3>2, <3>3 DEF Create
  <2>6. Referenced' = Referenced /\ vault' \subseteq Refs
    <3>1. pc[p] \in {"put", "activate"} => job[p].at \in Refs
      BY <2>2, JobsOf
    <3> QED
      BY <1>3, <2>3, <3>1, JobsOf DEF Referenced, Create, InsertRow, Put, PutFail, Activate
  <2> QED
    BY <2>1, <2>3, <2>4, <2>5, <2>6, NothingLost
<1>4. ASSUME NEW p \in Procs, CommitRefused(p) \/ CommitFail(p)
      PROVE  Leaked' \subseteq Leaked
  <2>1. Mine(p) = job[p].news /\ setting' = setting /\ row' = row /\ vault' = vault /\ swept' = swept
    BY <1>4 DEF CommitRefused, CommitFail, Mine, Making, Discarding, disk
  <2>2. /\ Mine(p)' = job[p].news
        /\ \A q \in Procs \ {p} : job'[q] = job[q] /\ pc'[q] = pc[q]
    <3>1. /\ pc'[p] = "mark" /\ job'[p].todo = job[p].news
          /\ \A q \in Procs \ {p} : job'[q] = job[q] /\ pc'[q] = pc[q]
      BY <1>4, JobsOf, AbandonTyped DEF CommitRefused, CommitFail
    <3> QED
      BY <3>1 DEF Mine, Making, Discarding
  <2>3. Referenced' = Referenced
    BY <2>1 DEF Referenced
  <2> QED
    BY <2>1, <2>2, <2>3, NothingLost
<1>5. ASSUME NEW p \in Procs, Commit(p) \/ Unset(p)
      PROVE  Leaked' \subseteq Leaked
  <2>1. /\ row' = row /\ vault' = vault /\ swept' = swept
        /\ \A q \in Procs \ {p} : job'[q] = job[q] /\ pc'[q] = pc[q]
        /\ pc[p] \in {"commit", "unset"} /\ pc'[p] = "mark"
    BY <1>5, JobsOf DEF Commit, Unset, Goto
  <2> DEFINE s == job[p].slot
  <2>2. s \in AllSlots /\ setting \in [AllSlots -> SUBSET Refs]
    BY JobsOf DEF Job, TypeInv, TypeOK
  <2>3. Mine(p)' = setting[s]
    <3>1. ~ Outdated(p)
      BY <1>5
    <3>2. CASE Commit(p)
      <4>1. s # "auth" => job[p].prev = setting[s]
        BY <3>1, <3>2 DEF KindInv, Writes, Outdated, Commit
      <4>2. job'[p].todo = setting[s]
        BY <3>2, <4>1, JobsOf DEF Commit, Replaced, Job
      <4> QED
        BY <2>1, <4>2 DEF Mine, Making, Discarding
    <3>3. CASE Unset(p)
      <4>1. job[p].prev = setting[s]
        BY <3>1, <3>3 DEF KindInv, Outdated, Unset
      <4>2. job'[p].todo = setting[s]
        BY <3>3, <4>1, JobsOf DEF Unset, Job
      <4> QED
        BY <2>1, <4>2 DEF Mine, Making, Discarding
    <3> QED
      BY <1>5, <3>2, <3>3
  <2>4. Mine(p) \subseteq setting'[s]
    <3>1. CASE Commit(p)
      BY <3>1, <2>2 DEF Commit, Mine, Making, Discarding
    <3>2. CASE Unset(p)
      BY <3>2 DEF Unset, Mine, Making, Discarding
    <3> QED
      BY <1>5, <3>1, <3>2
  <2>5. \A t \in AllSlots : t # s => setting'[t] = setting[t]
    BY <1>5, <2>2 DEF Commit, Unset
  <2> HIDE DEF s
  <2>6. Referenced \subseteq Referenced' \cup setting[s] /\ setting'[s] \subseteq Referenced'
    BY <2>2, <2>5 DEF Referenced
  <2>7. \A r \in vault' \ (swept' \cup Referenced' \cup Mine(p)') :
           row'[r] \notin {"pending", "deleting"} =>
             r \in vault /\ r \notin Referenced /\ row[r] \notin {"pending", "deleting"} /\ r \notin Mine(p)
    BY <2>1, <2>3, <2>4, <2>6
  <2> QED
    BY <2>1, <2>7, NothingLost
<1>6. ASSUME NEW p \in Procs, MarkDeleting(p) \/ Erase(p) \/ EraseFail(p) \/ DropRow(p)
      PROVE  Leaked' \subseteq Leaked
  <2>1. Progress(p) /\ Mine(p) = job[p].todo /\ \A r \in vault \ swept : row[r] # "none"
    BY <1>6 DEF Safekeeping, MarkDeleting, Erase, EraseFail, DropRow, Mine, Making, Discarding
  <2>2. /\ setting' = setting /\ vault' \subseteq vault /\ swept' = swept
        /\ \A q \in Procs \ {p} : job'[q] = job[q] /\ pc'[q] = pc[q]
    BY <1>6, JobsOf DEF MarkDeleting, Erase, EraseFail, DropRow, Goto
  <2>3. Referenced' = Referenced
    BY <2>2 DEF Referenced
  <2>4. CASE MarkDeleting(p)
    <3>1. Mine(p)' = job[p].todo
      <4>1. job'[p].todo = job[p].todo /\ pc'[p] = "erase"
        BY <2>4, JobsOf DEF MarkDeleting, Goto, Job
      <4> QED
        BY <4>1 DEF Mine, Making, Discarding
    <3>2. \A r \in Refs \ job[p].todo : row'[r] = row[r]
      BY <2>4, JobsOf DEF MarkDeleting, SetState, IsNext
    <3> QED
      BY <2>1, <2>2, <2>3, <3>1, <3>2, JobsOf, NothingLost
  <2>5. CASE Erase(p)
    <3>1. Mine(p)' = job[p].todo
      <4>1. job'[p] = job[p] /\ pc'[p] = "drop"
        BY <2>5, JobsOf DEF Erase, Goto
      <4> QED
        BY <4>1 DEF Mine, Making, Discarding
    <3>2. row' = row
      BY <2>5 DEF Erase
    <3> QED
      BY <2>1, <2>2, <2>3, <3>1, <3>2, NothingLost
  <2>6. CASE EraseFail(p) \/ DropRow(p)
    <3>1. Mine(p)' = job[p].todo \ {job[p].at}
      <4>1. job'[p].todo = job[p].todo \ {job[p].at} /\ pc'[p] = "mark"
        BY <2>6, JobsOf DEF EraseFail, DropRow, Goto, Job
      <4> QED
        BY <4>1 DEF Mine, Making, Discarding
    <3>2. \A r \in Refs \ {job[p].at} : row'[r] = row[r]
      BY <2>6, JobsOf DEF EraseFail, DropRow
    <3>3. job[p].at \in vault' \ swept' => row'[job[p].at] = "deleting"
      BY <2>6, <2>1, <2>2 DEF EraseFail, DropRow, Progress
    <3>4. \A r \in vault' \ (swept' \cup Referenced' \cup Mine(p)') :
            row'[r] \notin {"pending", "deleting"} =>
              r \in vault /\ r \notin Referenced /\ row[r] \notin {"pending", "deleting"} /\ r \notin Mine(p)
      BY <2>1, <2>2, <2>3, <3>1, <3>2, <3>3, JobsOf
    <3> QED
      BY <2>2, <3>4, NothingLost
  <2> QED
    BY <1>6, <2>4, <2>5, <2>6
<1>7. CASE UNCHANGED vars
  BY <1>7 DEF vars, Leaked, Referenced, Making, Discarding
<1> QED
  BY <1>1, <1>2, <1>3, <1>4, <1>5, <1>6, <1>7 DEF Next, Work, Recover, Write, Discard

\* Whatever the processes do and the vault or the database refuses, a secret is
\* only left behind by a crash, by a write that replaces a setting it has not
\* read, or by a discard that cannot mark its row.
THEOREM NothingLeaks == Spec => NoSilentLeak
<1>1. Init => KindInv
  BY DEF Init, KindInv, Writes
<1>2. TypeInv /\ KindInv /\ [Next]_vars => KindInv'
  BY KindStep
<1>3. TypeInv /\ Safekeeping /\ KindInv /\ [Next]_vars
        => [Leaked' \subseteq Leaked
             \/ \E p \in Procs :
                  Crash(p) \/ MarkFail(p) \/ (Outdated(p) /\ (Commit(p) \/ Unset(p)))]_vars
  BY LeakStep
<1> QED
  BY <1>1, <1>2, <1>3, TypeCorrect, SafekeepingInvariant, PTL DEF Spec, NoSilentLeak

-----------------------------------------------------------------------------
(* The system service on the same host: whatever launchers, brokers, other  *)
(* commands and stops do in any order, one broker listens and a stop meets  *)
(* no one else.  The argument is that the lock is held by the process that  *)
(* is between its probe and its end, so that only the process that has it   *)
(* binds the socket and writes the record; that a pid names one process     *)
(* that is present; and that a record, read at any time, names a process    *)
(* that was born a service, so that a stop that finds the start time it     *)
(* read has the handle of that very process.                                *)

ProcIndex == 0..MaxProcs

ProcStates == {"unborn", "running", "lock", "wait", "probe", "bind", "clear", "record", "exec",
               "starting", "listening", "serving", "closing", "zombie", "gone"}

ProcTyped == [kind : {"none", "service", "other"}, pid : Pids \cup {0}, at : ProcStates, said : BOOLEAN]
RecordTyped == [pid : Pids \cup {0}, start : ProcIndex, ready : BOOLEAN]
StartTyped == [at : {"idle", "waiting", "asking", "failed", "running"}, child : ProcIndex]
StopTyped == [at : {"idle", "exit", "read", "open", "exe", "check", "signal", "poll", "done", "failed"},
              pid : Pids \cup {0}, start : ProcIndex, handle : ProcIndex, same : BOOLEAN]

ServiceTypes ==
  /\ proc \in [Service!Brokers -> ProcTyped]
  /\ \/ lock = Free \/ lock \in Service!Brokers \/ lock \in Stops
  /\ record \in RecordTyped
  /\ path \in ProcIndex \cup {Service!Systemd}
  /\ start \in [Starts -> StartTyped]
  /\ stop \in [Stops -> StopTyped]
  /\ struck \in SUBSET Service!Brokers

\* Where a process of the service has the socket, the lock, and its kind.
Binders == {"clear", "record", "exec", "starting", "listening", "serving"}
Holders == {"probe", "bind", "closing"} \cup Binders
Launchers == {"lock", "wait"} \cup Holders

LockHolding ==
  /\ \A i \in Service!Brokers : proc[i].at \in Holders => lock = i
  /\ \A s \in Stops : stop[s].at = "exit" => lock = s
  /\ \A i \in Service!Brokers : proc[i].at \in Binders => path = i

ProcKinds ==
  \A i \in Service!Brokers :
    /\ proc[i].at \in Launchers => proc[i].kind = "service"
    /\ proc[i].at = "running" => proc[i].kind = "other"
    /\ proc[i].at # "unborn" => proc[i].pid \in Pids

PidsApart ==
  \A i, j \in Service!Brokers :
    Service!Present(i) /\ Service!Present(j) /\ proc[i].pid = proc[j].pid => i = j

\* Process i was born a process of the service, with that pid.
NamesService(pid, i) ==
  i \in Service!Brokers /\ proc[i].at # "unborn" /\ proc[i].kind = "service" /\ proc[i].pid = pid

RecordNames ==
  /\ record = Service!NoRecord \/ NamesService(record.pid, record.start)
  /\ \A i \in Service!Brokers :
       /\ proc[i].at \in {"exec", "starting"} => record = [pid |-> proc[i].pid, start |-> i, ready |-> FALSE]
       /\ proc[i].at \in {"listening", "serving"} => record = [pid |-> proc[i].pid, start |-> i, ready |-> TRUE]

StartersWait == \A c \in Starts : start[c].at = "waiting" => start[c].child \in Service!Brokers

\* What a stop has read, and what its handle then is.
AimedAt(r) ==
  /\ r.at \in {"open", "exe", "check", "signal"} => NamesService(r.pid, r.start)
  /\ r.at \in {"exe", "check"} => (Service!Present(r.start) => r.handle = r.start)
  /\ r.at = "check" => (r.same /\ Service!Alive(r.start) => Service!RunsInflow(r.start))
  /\ r.at = "signal" => r.handle = r.start /\ (Service!Alive(r.start) => Service!RunsInflow(r.start))
  /\ r.at = "poll" => r.handle \in Service!Brokers

StopAims == \A s \in Stops : AimedAt(stop[s])

Signalled == \A i \in struck : proc[i].kind = "service" /\ proc[i].at \in {"closing", "zombie", "gone"}

ServiceInv ==
  /\ ServiceTypes /\ LockHolding /\ ProcKinds /\ PidsApart /\ RecordNames
  /\ StartersWait /\ StopAims /\ Signalled

\* Processes, no process and systemd are told apart.
LEMMA BrokersTyped == Service!Brokers \subseteq Nat /\ 0 \notin Service!Brokers /\ Service!Systemd \notin Service!Brokers /\ Service!Brokers \subseteq ProcIndex /\ 0 \in ProcIndex
  BY ServiceAssumption DEF Service!BoundsAssumption, Service!Brokers, Service!Systemd, ProcIndex

\* The start time of a pid is that of a present process that has it.
LEMMA StartFound ==
  ASSUME NEW pid
  PROVE  \/ Service!ProcessStart(pid) = 0 /\ \A i \in Service!Brokers : Service!Present(i) => proc[i].pid # pid
         \/ Service!ProcessStart(pid) \in Service!Brokers /\ Service!Present(Service!ProcessStart(pid)) /\ proc[Service!ProcessStart(pid)].pid = pid
<1>1. CASE \E i \in Service!Brokers : Service!Present(i) /\ proc[i].pid = pid
  BY <1>1 DEF Service!ProcessStart
<1>2. CASE ~\E i \in Service!Brokers : Service!Present(i) /\ proc[i].pid = pid
  BY <1>2 DEF Service!ProcessStart
<1> QED
  BY <1>1, <1>2

\* ... the only one.
LEMMA StartOwn ==
  ASSUME PidsApart, NEW i \in Service!Brokers, Service!Present(i)
  PROVE  Service!ProcessStart(proc[i].pid) = i
  BY StartFound, BrokersTyped DEF PidsApart

\* What a step of process i leaves alone.
Moves(i, x) ==
  /\ proc' \in [Service!Brokers -> ProcTyped]
  /\ proc'[i].at = x /\ proc'[i].pid = proc[i].pid /\ proc'[i].kind = proc[i].kind
  /\ \A j \in Service!Brokers \ {i} : proc'[j] = proc[j]

\* A process that goes on keeps its kind and its pid, and so do the others.
LEMMA BecomeMoves ==
  ASSUME ServiceTypes, NEW i \in Service!Brokers, NEW x \in ProcStates, Service!Become(i, x)
  PROVE  Moves(i, x)
<1>1. proc \in [Service!Brokers -> ProcTyped] /\ proc[i] \in ProcTyped
  BY DEF ServiceTypes
<1>2. proc' = [proc EXCEPT ![i] = [proc[i] EXCEPT !.at = x]]
  BY <1>1 DEF Service!Become
<1>3. [proc[i] EXCEPT !.at = x] \in ProcTyped
  BY <1>1 DEF ProcTyped
<1>4. /\ [proc[i] EXCEPT !.at = x].at = x
      /\ [proc[i] EXCEPT !.at = x].pid = proc[i].pid
      /\ [proc[i] EXCEPT !.at = x].kind = proc[i].kind
  BY <1>1 DEF ProcTyped
<1> QED
  BY <1>1, <1>2, <1>3, <1>4 DEF Moves

LEMMA SaysMoves ==
  ASSUME ServiceTypes, NEW i \in Service!Brokers, NEW x \in ProcStates,
         proc' = [proc EXCEPT ![i].at = x, ![i].said = TRUE]
  PROVE  Moves(i, x)
<1>1. proc \in [Service!Brokers -> ProcTyped] /\ proc[i] \in ProcTyped
  BY DEF ServiceTypes
<1> DEFINE q == [proc[i] EXCEPT !.at = x, !.said = TRUE]
<1>2. proc' = [proc EXCEPT ![i] = q]
  BY <1>1 DEF ProcTyped
<1>3. q \in ProcTyped
  BY <1>1 DEF ProcTyped
<1>4. q.at = x /\ q.pid = proc[i].pid /\ q.kind = proc[i].kind
  BY <1>1 DEF ProcTyped
<1> HIDE DEF q
<1> QED
  BY <1>1, <1>2, <1>3, <1>4 DEF Moves

\* What names a service goes on naming it, and no one comes back.
LEMMA MoveKeeps ==
  ASSUME ServiceInv, NEW i \in Service!Brokers, NEW x \in ProcStates \ {"unborn", "running"}, Moves(i, x),
         proc[i].at \notin {"unborn", "gone"},
         x \in Launchers => proc[i].kind = "service"
  PROVE  /\ PidsApart' /\ ProcKinds'
         /\ \A pid \in Pids : \A j : NamesService(pid, j) => NamesService(pid, j)'
         /\ \A j \in Service!Brokers : Service!Present(j)' => Service!Present(j)
<1>1. PidsApart'
  BY DEF ServiceInv, PidsApart, Service!Present, Moves
<1>2. ProcKinds'
  BY DEF ServiceInv, ProcKinds, Moves
<1>3. ASSUME NEW pid \in Pids, NEW j, NamesService(pid, j) PROVE NamesService(pid, j)'
  BY <1>3 DEF NamesService, Moves
<1>4. ASSUME NEW j \in Service!Brokers, Service!Present(j)' PROVE Service!Present(j)
  BY <1>4 DEF Service!Present, Moves
<1> QED
  BY <1>1, <1>2, <1>3, <1>4

\* What runs inflow does so until it ends.
LEMMA MoveRuns ==
  ASSUME NEW i \in Service!Brokers, NEW x \in ProcStates, Moves(i, x),
         proc[i].at \notin {"unborn", "gone"},
         proc[i].at \in {"starting", "listening", "serving", "closing"}
           => x \in {"listening", "serving", "closing", "zombie"},
         proc[i].at \in {"closing", "zombie"} => x \in {"zombie", "gone"}
  PROVE  \A j \in Service!Brokers :
           /\ (Service!Alive(j) => Service!RunsInflow(j)) => (Service!Alive(j) => Service!RunsInflow(j))'
           /\ Service!Alive(j)' => Service!Alive(j)
  BY DEF Service!Alive, Service!Present, Service!RunsInflow, Moves

\* An aim stays true while processes only go on.
LEMMA AimGoesOn ==
  ASSUME NEW r, AimedAt(r),
         \A pid, j : NamesService(pid, j) => NamesService(pid, j)',
         \A j \in Service!Brokers :
           /\ Service!Present(j)' => Service!Present(j)
           /\ (Service!Alive(j) => Service!RunsInflow(j)) => (Service!Alive(j) => Service!RunsInflow(j))'
           /\ Service!Alive(j)' => Service!Alive(j)
  PROVE  AimedAt(r)'
<1> PICK k : k = r.start
  OBVIOUS
<1>1. r.at \in {"open", "exe", "check", "signal"} => NamesService(r.pid, k)' /\ k \in Service!Brokers
  <2>1. r.at \in {"open", "exe", "check", "signal"} => NamesService(r.pid, k)
    BY DEF AimedAt
  <2>2. NamesService(r.pid, k) => k \in Service!Brokers
    BY DEF NamesService
  <2> QED
    BY <2>1, <2>2
<1>2. r.at \in {"exe", "check"} => (Service!Present(k)' => r.handle = k)
  BY <1>1 DEF AimedAt
<1>3. r.at = "check" => (r.same /\ Service!Alive(k)' => Service!RunsInflow(k)')
  BY <1>1 DEF AimedAt
<1>4. r.at = "signal" => r.handle = k /\ (Service!Alive(k)' => Service!RunsInflow(k)')
  BY <1>1 DEF AimedAt
<1>5. r.at = "poll" => r.handle \in Service!Brokers
  BY DEF AimedAt
<1> QED
  BY <1>1, <1>2, <1>3, <1>4, <1>5 DEF AimedAt

\* What is aimed at goes on being aimed at by the same commands.
LEMMA AimsKept ==
  ASSUME \A r : AimedAt(r) => AimedAt(r)',
         \A t \in Stops : AimedAt(stop'[t])
  PROVE  StopAims'
<1> SUFFICES ASSUME NEW t \in Stops PROVE AimedAt(stop[t])'
  BY DEF StopAims
<1>1. PICK r : r = stop'[t]
  OBVIOUS
<1>2. AimedAt(r)'
  BY <1>1
<1> QED
  BY <1>1, <1>2 DEF AimedAt, NamesService, Service!Present, Service!Alive, Service!RunsInflow

\* A stop aims at what it aimed at.
LEMMA MoveAims ==
  ASSUME ServiceInv, NEW i \in Service!Brokers, NEW x \in ProcStates \ {"unborn", "running"}, Moves(i, x),
         proc[i].at \notin {"unborn", "gone"},
         x \in Launchers => proc[i].kind = "service",
         proc[i].at \in {"starting", "listening", "serving", "closing"}
           => x \in {"listening", "serving", "closing", "zombie"},
         proc[i].at \in {"closing", "zombie"} => x \in {"zombie", "gone"},
         stop' = stop
  PROVE  /\ StopAims'
         /\ struck' = struck => Signalled'
<1>1. /\ \A j \in Service!Brokers : Service!Present(j)' => Service!Present(j)
      /\ \A pid, j : NamesService(pid, j) => NamesService(pid, j)'
  BY MoveKeeps DEF NamesService, Moves
<1>2. \A j \in Service!Brokers : /\ (Service!Alive(j) => Service!RunsInflow(j)) => (Service!Alive(j) => Service!RunsInflow(j))'
                                 /\ Service!Alive(j)' => Service!Alive(j)
  BY MoveRuns
<1>3. StopAims'
  <2>1. \A t \in Stops : AimedAt(stop[t])
    BY DEF ServiceInv, StopAims
  <2>2. \A r : AimedAt(r) => AimedAt(r)'
    <3>1. \A j \in Service!Brokers :
           /\ Service!Present(j)' => Service!Present(j)
           /\ (Service!Alive(j) => Service!RunsInflow(j)) => (Service!Alive(j) => Service!RunsInflow(j))'
           /\ Service!Alive(j)' => Service!Alive(j)
      BY <1>1, <1>2
    <3> QED
      BY <1>1, <3>1, AimGoesOn
  <2> QED
    <3>1. \A t \in Stops : AimedAt(stop'[t])
      BY <2>1
    <3> QED
      BY <2>2, <3>1, AimsKept
<1>4. ASSUME struck' = struck PROVE Signalled'
  <2>1. Signalled /\ struck \in SUBSET Service!Brokers
    BY DEF ServiceInv, ServiceTypes
  <2> QED
    BY <1>4, <2>1 DEF Signalled, Moves
<1> QED
  BY <1>3, <1>4

\* The lock stays with its holder, until that ends.
LEMMA MoveHolds ==
  ASSUME ServiceInv, NEW i \in Service!Brokers, NEW x \in ProcStates, Moves(i, x), path' = path,
         \A t \in Stops : stop'[t].at = "exit" => stop[t].at = "exit",
         x \in Binders => path = i,
         \/ lock' = lock /\ (x \in Holders => lock = i)
         \/ lock' = Service!Released(i) /\ x \notin Holders
  PROVE  LockHolding' /\ (lock' = Free \/ lock' \in Service!Brokers \/ lock' \in Stops)
<1> USE ServiceAssumption DEF Service!LockAssumption
<1>1. LockHolding /\ (lock = Free \/ lock \in Service!Brokers \/ lock \in Stops)
  BY DEF ServiceInv, ServiceTypes
<1>2. \A j \in Service!Brokers : proc[j].at \in Binders => path = j
  BY <1>1 DEF LockHolding
<1>3. \A j \in Service!Brokers : proc'[j].at \in Binders => path' = j
  BY <1>2 DEF Moves
<1>4. \A j \in Service!Brokers : proc'[j].at \in Holders => lock' = j
  BY <1>1 DEF LockHolding, Moves, Service!Released
<1>5. \A t \in Stops : stop'[t].at = "exit" => lock' = t
  BY <1>1 DEF LockHolding, Service!Released
<1> QED
  BY <1>1, <1>3, <1>4, <1>5 DEF LockHolding, Service!Released

\* The record stays what its writer wrote.
LEMMA MoveRecorded ==
  ASSUME ServiceInv, NEW i \in Service!Brokers, NEW x \in ProcStates \ {"unborn", "running"}, Moves(i, x),
         proc[i].at \notin {"unborn", "gone"},
         x \in Launchers => proc[i].kind = "service",
         record' = record,
         x \in {"exec", "starting"} => record = [pid |-> proc[i].pid, start |-> i, ready |-> FALSE],
         x \in {"listening", "serving"} => record = [pid |-> proc[i].pid, start |-> i, ready |-> TRUE]
  PROVE  RecordNames'
<1>1. RecordNames
  BY DEF ServiceInv
<1>2. record = Service!NoRecord \/ NamesService(record.pid, record.start)'
  BY <1>1, MoveKeeps DEF RecordNames, NamesService, Moves
<1> QED
  BY <1>1, <1>2 DEF RecordNames, Moves, Service!NoRecord

\* A process that goes on, and one that ends.
LEMMA MoveStep ==
  ASSUME ServiceInv, NEW i \in Service!Brokers, NEW x \in ProcStates \ {"unborn", "running"}, Moves(i, x),
         proc[i].at \notin {"unborn", "gone"},
         x \in Launchers => proc[i].kind = "service",
         proc[i].at \in {"starting", "listening", "serving", "closing"}
           => x \in {"listening", "serving", "closing", "zombie"},
         proc[i].at \in {"closing", "zombie"} => x \in {"zombie", "gone"},
         x \in Binders => path = i,
         x \in {"exec", "starting"} => record = [pid |-> proc[i].pid, start |-> i, ready |-> FALSE],
         x \in {"listening", "serving"} => record = [pid |-> proc[i].pid, start |-> i, ready |-> TRUE],
         \/ lock' = lock /\ (x \in Holders => lock = i)
         \/ lock' = Service!Released(i) /\ x \notin Holders,
         start' \in [Starts -> StartTyped], StartersWait',
         UNCHANGED <<record, path, stop, struck>>
  PROVE  ServiceInv'
<1>1. PidsApart' /\ ProcKinds'
  BY MoveKeeps
<1>2. StopAims' /\ Signalled'
  BY MoveAims
<1>3. LockHolding' /\ (lock' = Free \/ lock' \in Service!Brokers \/ lock' \in Stops)
  BY MoveHolds
<1>4. RecordNames'
  BY MoveRecorded
<1>5. ServiceTypes'
  BY <1>3 DEF ServiceInv, ServiceTypes, Moves
<1> QED
  BY <1>1, <1>2, <1>3, <1>4, <1>5 DEF ServiceInv

\* A command that does nothing waits for the same process.
LEMMA WaitersKept == ServiceInv /\ start' = start => StartersWait' /\ start' \in [Starts -> StartTyped]
  BY DEF ServiceInv, StartersWait, ServiceTypes

LEMMA EndStep ==
  ASSUME ServiceInv, NEW i \in Service!Brokers, Service!End(i), proc[i].at \notin {"unborn", "gone", "zombie"},
         start' \in [Starts -> StartTyped], StartersWait', UNCHANGED <<record, path, stop, struck>>
  PROVE  ServiceInv'
<1>1. Moves(i, "zombie")
  BY BecomeMoves DEF ServiceInv, Service!End, ProcStates
<1>2. "zombie" \in ProcStates \ {"unborn", "running"} /\ "zombie" \notin Launchers /\ "zombie" \notin Binders /\ "zombie" \notin Holders
  BY DEF ProcStates, Launchers, Holders, Binders
<1> QED
  BY <1>1, <1>2, MoveStep DEF Service!End

\* A process is born with a pid that no present process has.
LEMMA BornStep ==
  ASSUME ServiceInv, NEW i \in Service!Brokers, NEW pid \in Pids, NEW kind \in {"service", "other"}, Service!Born(i, pid, kind),
         start' \in [Starts -> StartTyped], StartersWait', UNCHANGED <<lock, record, path, stop, struck>>
  PROVE  ServiceInv'
<1> DEFINE q == [kind |-> kind, pid |-> pid, at |-> IF kind = "other" THEN "running" ELSE "lock", said |-> FALSE]
<1>0. /\ proc \in [Service!Brokers -> ProcTyped] /\ proc[i] \in ProcTyped
      /\ PidsApart /\ ProcKinds /\ LockHolding /\ RecordNames /\ ServiceTypes /\ StopAims /\ Signalled
  BY DEF ServiceInv, ServiceTypes
<1>1. q \in ProcTyped /\ q.pid = pid /\ q.kind = kind /\ q.at \in {"running", "lock"}
      /\ (q.at = "running" <=> kind = "other")
  BY DEF ProcTyped, ProcStates
<1>2. proc' = [proc EXCEPT ![i] = q] /\ proc[i].at = "unborn" /\ Service!ProcessStart(pid) = 0
  BY DEF Service!Born
<1> HIDE DEF q
<1>3. proc' \in [Service!Brokers -> ProcTyped] /\ proc'[i] = q /\ \A j \in Service!Brokers \ {i} : proc'[j] = proc[j]
  BY <1>0, <1>1, <1>2
<1>4. \A j \in Service!Brokers : Service!Present(j) => proc[j].pid # pid
  BY <1>2, StartFound, BrokersTyped
<1>5. PidsApart'
  BY <1>0, <1>1, <1>3, <1>4 DEF PidsApart, Service!Present
<1>6. ProcKinds'
  BY <1>0, <1>1, <1>3 DEF ProcKinds, Launchers, Holders, Binders
<1>7. \A p, j : NamesService(p, j) => NamesService(p, j)' /\ j # i
  BY <1>2, <1>3 DEF NamesService
<1>8. LockHolding'
  BY <1>0, <1>1, <1>3 DEF LockHolding, Holders, Binders
<1>9. RecordNames'
  <2>1. record = Service!NoRecord \/ NamesService(record.pid, record.start)'
    BY <1>0, <1>7 DEF RecordNames
  <2> QED
    BY <1>0, <1>1, <1>3, <2>1 DEF RecordNames, Service!NoRecord
<1>10. StopAims'
  <2>1. ASSUME NEW j \in Service!Brokers, j # i
        PROVE (Service!Present(j)' <=> Service!Present(j)) /\ (Service!Alive(j)' <=> Service!Alive(j)) /\ (Service!RunsInflow(j)' <=> Service!RunsInflow(j))
    BY <1>3, <2>1 DEF Service!Present, Service!Alive, Service!RunsInflow
  <2>2. ASSUME NEW r, AimedAt(r) PROVE AimedAt(r)'
    BY <1>7, <2>1, <2>2 DEF AimedAt, NamesService
  <2>3. \A t \in Stops : AimedAt(stop'[t])
    BY <1>0 DEF StopAims
  <2> QED
    BY <2>2, <2>3, AimsKept
<1>11. Signalled'
  BY <1>0, <1>2, <1>3 DEF Signalled, ServiceTypes
<1>12. ServiceTypes'
  BY <1>0, <1>3 DEF ServiceTypes
<1> QED
  BY <1>5, <1>6, <1>8, <1>9, <1>10, <1>11, <1>12 DEF ServiceInv

\* Writing the record by the process that holds the lock.
LEMMA WriteStep ==
  ASSUME ServiceInv, NEW i \in Service!Brokers, NEW x \in {"record", "exec", "listening"}, Moves(i, x),
         proc[i].at \in {"clear", "record", "starting"},
         proc[i].at = "starting" => x = "listening",
         record' \in RecordTyped,
         record' = Service!NoRecord \/ (record'.start = i /\ record'.pid = proc[i].pid),
         x = "exec" => record' = [pid |-> proc[i].pid, start |-> i, ready |-> FALSE],
         x = "listening" => record' = [pid |-> proc[i].pid, start |-> i, ready |-> TRUE],
         UNCHANGED <<lock, path, start, stop, struck>>
  PROVE  ServiceInv'
<1> USE DEF Launchers, Holders, Binders, ProcStates
<1>0. ProcKinds /\ LockHolding /\ RecordNames /\ ServiceTypes
  BY DEF ServiceInv
<1>1. proc[i].kind = "service" /\ lock = i /\ path = i /\ proc[i].pid \in Pids
  BY <1>0 DEF ProcKinds, LockHolding
<1>2. x \in ProcStates \ {"unborn", "running"} /\ proc[i].at \notin {"unborn", "gone"}
  OBVIOUS
<1>3. PidsApart' /\ ProcKinds'
  BY <1>1, <1>2, MoveKeeps
<1>4. StopAims' /\ Signalled'
  BY <1>1, <1>2, MoveAims
<1>5. LockHolding'
  BY <1>1, <1>2, MoveHolds
<1>6. RecordNames'
  <2>0. proc'[i].at = x /\ x # "unborn" /\ proc'[i].kind = "service" /\ proc'[i].pid = proc[i].pid
    BY <1>1 DEF Moves
  <2>1. (record = Service!NoRecord \/ NamesService(record.pid, record.start))'
    BY <2>0 DEF NamesService, Service!NoRecord
  <2>2. \A j \in Service!Brokers \ {i} : proc'[j].at \notin Holders
    BY <1>0, <1>1 DEF Moves, LockHolding
  <2>3. \A j \in Service!Brokers : j # i => proc'[j].at \notin {"exec", "starting", "listening", "serving"}
    BY <2>2
  <2>4. \A j \in Service!Brokers :
          /\ proc'[j].at \in {"exec", "starting"} => record' = [pid |-> proc'[j].pid, start |-> j, ready |-> FALSE]
          /\ proc'[j].at \in {"listening", "serving"} => record' = [pid |-> proc'[j].pid, start |-> j, ready |-> TRUE]
    BY <2>0, <2>3
  <2> QED
    BY <2>1, <2>4 DEF RecordNames
<1>7. ServiceTypes'
  BY <1>0, <1>1 DEF ServiceTypes, Moves
<1>8. StartersWait'
  BY WaitersKept
<1> QED
  BY <1>3, <1>4, <1>5, <1>6, <1>7, <1>8 DEF ServiceInv

\* Every step of a process keeps the invariant.
LEMMA ProcessStep ==
  ASSUME ServiceInv, NEW i \in Service!Brokers, Service!Process(i)
  PROVE  ServiceInv'
<1> USE DEF Service!commands
<1>0. proc \in [Service!Brokers -> ProcTyped] /\ proc[i] \in ProcTyped /\ ProcKinds /\ LockHolding /\ RecordNames /\ ServiceTypes
  BY DEF ServiceInv, ServiceTypes
<1>s. start' = start => StartersWait' /\ start' \in [Starts -> StartTyped]
  BY WaitersKept
<1>k. /\ proc[i].at \in Launchers => proc[i].kind = "service"
      /\ proc[i].at \in Holders => lock = i
      /\ proc[i].at \in Binders => path = i
      /\ proc[i].at \in {"exec", "starting"} => record = [pid |-> proc[i].pid, start |-> i, ready |-> FALSE]
      /\ proc[i].at \in {"listening", "serving"} => record = [pid |-> proc[i].pid, start |-> i, ready |-> TRUE]
  BY <1>0 DEF ProcKinds, LockHolding, RecordNames
<1>e. ASSUME Service!End(i), proc[i].at \notin {"unborn", "gone", "zombie"}, UNCHANGED <<record, path, Service!commands>> PROVE ServiceInv'
  BY <1>s, <1>e, EndStep
<1>m. ASSUME NEW x \in ProcStates \ {"unborn", "running"}, Service!Become(i, x), lock' = lock, x \in Holders => lock = i,
         proc[i].at \notin {"unborn", "gone"},
         x \in Launchers => proc[i].kind = "service",
         proc[i].at \in {"starting", "listening", "serving", "closing"}
           => x \in {"listening", "serving", "closing", "zombie"},
         proc[i].at \in {"closing", "zombie"} => x \in {"zombie", "gone"},
         x \in Binders => path = i,
         x \in {"exec", "starting"} => record = [pid |-> proc[i].pid, start |-> i, ready |-> FALSE],
         x \in {"listening", "serving"} => record = [pid |-> proc[i].pid, start |-> i, ready |-> TRUE],
         UNCHANGED <<record, path, Service!commands>>
      PROVE ServiceInv'
  <2>1. Moves(i, x)
    BY <1>m, <1>0, BecomeMoves
  <2>2. UNCHANGED <<record, path, stop, struck>> /\ start' \in [Starts -> StartTyped] /\ StartersWait'
    BY <1>m, <1>s
  <2> QED
    BY <1>m, <2>1, <2>2, MoveStep
<1> USE DEF ProcStates, Launchers, Holders, Binders
<1>1. ASSUME Service!OtherBegins(i) PROVE ServiceInv'
  BY <1>1, <1>s, BornStep DEF Service!OtherBegins
<1>2. ASSUME Service!OtherEnds(i) PROVE ServiceInv'
  BY <1>2, <1>m DEF Service!OtherEnds
<1>3. ASSUME Service!Reaped(i) PROVE ServiceInv'
  BY <1>3, <1>m DEF Service!Reaped
<1>4. ASSUME Service!Lock(i) PROVE ServiceInv'
  <2>1. CASE lock = Free
    <3>1. Moves(i, "probe") /\ lock' = i
      BY <1>0, <1>4, <2>1, BecomeMoves DEF Service!Lock, Service!CanLock
    <3>2. LockHolding'
      <4>1. \A j \in Service!Brokers : proc[j].at \notin Holders
        BY <1>0, <2>1, ServiceAssumption DEF LockHolding, Service!LockAssumption
      <4>2. \A t \in Stops : stop'[t].at # "exit"
        BY <1>0, <1>4, <2>1, ServiceAssumption DEF LockHolding, Service!LockAssumption, Service!Lock
      <4>3. \A j \in Service!Brokers : proc'[j].at \in Holders => j = i
        BY <3>1, <4>1 DEF Moves
      <4>4. \A j \in Service!Brokers : proc'[j].at \notin Binders
        BY <3>1, <4>1 DEF Moves
      <4> QED
        BY <3>1, <4>2, <4>3, <4>4 DEF LockHolding
    <3>3. PidsApart' /\ ProcKinds'
      BY <1>4, <1>k, <3>1, MoveKeeps DEF Service!Lock
    <3>4. StopAims' /\ Signalled'
      BY <1>4, <1>k, <3>1, MoveAims DEF Service!Lock
    <3>5. RecordNames'
      BY <1>4, <1>k, <3>1, MoveRecorded DEF Service!Lock
    <3>6. ServiceTypes' /\ StartersWait'
      BY <1>0, <1>s, <1>4, <3>1 DEF ServiceTypes, Moves, Service!Lock
    <3> QED
      BY <3>2, <3>3, <3>4, <3>5, <3>6 DEF ServiceInv
  <2>2. CASE lock # Free
    BY <1>4, <2>2, <1>k, <1>m DEF Service!Lock, Service!CanLock
  <2> QED
    BY <2>1, <2>2
<1>5. ASSUME Service!Wait(i) PROVE ServiceInv'
  <2>1. Moves(i, "zombie")
    BY <1>0, <1>5, SaysMoves DEF Service!Wait
  <2> QED
    BY <2>1, <1>5, <1>s, MoveStep DEF Service!Wait
<1>6. ASSUME Service!Probe(i) PROVE ServiceInv'
  BY <1>6, <1>m, <1>e, <1>k DEF Service!Probe
<1>7. ASSUME Service!Bind(i) PROVE ServiceInv'
  <2>1. Moves(i, "clear") /\ path' = i
    BY <1>0, <1>7, BecomeMoves DEF Service!Bind
  <2>2. proc[i].kind = "service" /\ lock = i /\ lock' = i
    BY <1>k, <1>7 DEF Service!Bind
  <2>3. LockHolding'
    <3>1. \A j \in Service!Brokers : j # i => proc'[j].at \notin Holders
      BY <1>0, <2>1, <2>2 DEF LockHolding, Moves
    <3>2. \A t \in Stops : stop'[t].at # "exit"
      BY <1>0, <1>7, <2>2, ServiceAssumption DEF LockHolding, Service!LockAssumption, Service!Bind
    <3> QED
      BY <2>1, <2>2, <3>1, <3>2 DEF LockHolding
  <2>4. PidsApart' /\ ProcKinds'
    BY <1>7, <2>1, <2>2, MoveKeeps DEF Service!Bind
  <2>5. StopAims' /\ Signalled'
    BY <1>7, <2>1, <2>2, MoveAims DEF Service!Bind
  <2>6. RecordNames'
    BY <1>7, <2>1, <2>2, MoveRecorded DEF Service!Bind
  <2>7. ServiceTypes' /\ StartersWait'
    BY <1>0, <1>s, <1>7, <2>1, BrokersTyped DEF ServiceTypes, Moves, Service!Bind
  <2> QED
    BY <2>3, <2>4, <2>5, <2>6, <2>7 DEF ServiceInv
<1>8. ASSUME Service!ClearRecord(i) PROVE ServiceInv'
  <2>1. Moves(i, "record")
    BY <1>0, <1>8, BecomeMoves DEF Service!ClearRecord
  <2>2. record' = Service!NoRecord /\ record' \in RecordTyped
    BY <1>8, BrokersTyped DEF Service!ClearRecord, Service!NoRecord, RecordTyped
  <2> QED
    BY <1>8, <2>1, <2>2, WriteStep DEF Service!ClearRecord
<1>9. ASSUME Service!WriteRecord(i) PROVE ServiceInv'
  <2>1. Moves(i, "exec")
    BY <1>0, <1>9, BecomeMoves DEF Service!WriteRecord
  <2>2. record' = [pid |-> proc[i].pid, start |-> i, ready |-> FALSE] /\ record' \in RecordTyped
    BY <1>0, <1>9, BrokersTyped DEF Service!WriteRecord, RecordTyped, ProcKinds
  <2>3. record'.start = i /\ record'.pid = proc[i].pid
    BY <2>2
  <2> QED
    BY <1>9, <2>1, <2>2, <2>3, WriteStep DEF Service!WriteRecord
<1>10. ASSUME Service!Exec(i) PROVE ServiceInv'
  BY <1>10, <1>m, <1>k DEF Service!Exec
<1>11. ASSUME Service!Listen(i) PROVE ServiceInv'
  <2>1. Moves(i, "listening")
    BY <1>0, <1>11, BecomeMoves DEF Service!Listen
  <2>2. record = [pid |-> proc[i].pid, start |-> i, ready |-> FALSE]
    BY <1>k, <1>11 DEF Service!Listen
  <2>3. record' = [pid |-> proc[i].pid, start |-> i, ready |-> TRUE]
    BY <2>2, <1>11 DEF Service!Listen
  <2>4. record' \in RecordTyped /\ record'.start = i /\ record'.pid = proc[i].pid
    BY <2>3, <1>0, <1>11, BrokersTyped DEF RecordTyped, ProcKinds, Service!Listen
  <2> QED
    BY <1>11, <2>1, <2>3, <2>4, WriteStep DEF Service!Listen
<1>12. ASSUME Service!Notify(i) PROVE ServiceInv'
  <2>1. CASE proc' = [proc EXCEPT ![i].at = "serving", ![i].said = TRUE] /\ lock' = lock
    <3>1. Moves(i, "serving")
      BY <1>0, <2>1, SaysMoves
    <3> QED
      BY <3>1, <2>1, <1>12, <1>s, <1>k, MoveStep DEF Service!Notify
  <2>2. CASE Service!End(i)
    BY <2>2, <1>12, <1>e DEF Service!Notify
  <2> QED
    BY <1>12, <2>1, <2>2 DEF Service!Notify
<1>13. ASSUME Service!Fails(i) PROVE ServiceInv'
  BY <1>13, <1>e DEF Service!Fails
<1>14. ASSUME Service!WorkerEnds(i) PROVE ServiceInv'
  BY <1>14, <1>m, <1>k DEF Service!WorkerEnds
<1>15. ASSUME Service!Closed(i) PROVE ServiceInv'
  BY <1>15, <1>e DEF Service!Closed
<1> QED
  BY <1>1, <1>2, <1>3, <1>4, <1>5, <1>6, <1>7, <1>8, <1>9, <1>10, <1>11, <1>12, <1>13, <1>14, <1>15
     DEF Service!Process

\* SIGTERM closes or ends a process.
LEMMA TerminatedMoves ==
  ASSUME ServiceInv, NEW i \in Service!Brokers, Service!Alive(i), Service!Terminated(i)
  PROVE  \E x \in {"closing", "zombie"} :
           /\ Moves(i, x)
           /\ x = "closing" => proc[i].at = "serving" /\ lock = i
           /\ \/ lock' = lock /\ (x \in Holders => lock = i)
              \/ lock' = Service!Released(i) /\ x \notin Holders
<1> USE DEF Holders, ProcStates
<1>1. ServiceTypes /\ LockHolding
  BY DEF ServiceInv
<1>2. CASE proc[i].at = "serving"
  BY <1>1, <1>2, BecomeMoves DEF Service!Terminated, LockHolding, Binders
<1>3. CASE proc[i].at # "serving"
  <2>1. Service!End(i)
    BY <1>3 DEF Service!Terminated
  <2> QED
    BY <1>1, <2>1, BecomeMoves DEF Service!End, Binders
<1> QED
  BY <1>2, <1>3

LEMMA TerminatedStep ==
  ASSUME ServiceInv, NEW i \in Service!Brokers, Service!Alive(i), Service!Terminated(i),
         start' \in [Starts -> StartTyped], StartersWait', UNCHANGED <<record, path, stop, struck>>
  PROVE  ServiceInv'
<1> USE DEF Launchers, Holders, Binders, ProcStates
<1>1. PICK x \in {"closing", "zombie"} :
           /\ Moves(i, x)
           /\ x = "closing" => proc[i].at = "serving" /\ lock = i
           /\ \/ lock' = lock /\ (x \in Holders => lock = i)
              \/ lock' = Service!Released(i) /\ x \notin Holders
  BY TerminatedMoves
<1>2. proc[i].at \notin {"unborn", "gone", "zombie"}
  BY DEF Service!Alive, Service!Present
<1>3. x = "closing" => proc[i].kind = "service"
  BY <1>1 DEF ServiceInv, ProcKinds
<1>4. proc[i].at = "closing" => x = "zombie"
  BY <1>1
<1> QED
  BY <1>1, <1>2, <1>3, <1>4, MoveStep

\* A step of a command that leaves the processes alone.
LEMMA ProcsUntouched ==
  ASSUME ServiceInv, UNCHANGED <<proc, record, path, struck>>
  PROVE  /\ PidsApart' /\ ProcKinds' /\ RecordNames' /\ Signalled'
         /\ lock' = lock /\ stop' = stop => LockHolding' /\ StopAims'
         /\ \A pid, j : NamesService(pid, j)' <=> NamesService(pid, j)
         /\ \A j \in Service!Brokers : /\ Service!Present(j)' <=> Service!Present(j)
                                       /\ Service!Alive(j)' <=> Service!Alive(j)
                                       /\ Service!RunsInflow(j)' <=> Service!RunsInflow(j)
  BY DEF ServiceInv, PidsApart, ProcKinds, RecordNames, Signalled, LockHolding, StopAims, AimedAt, NamesService, Service!Present, Service!Alive, Service!RunsInflow

LEMMA AimsUntouched ==
  ASSUME ServiceInv, UNCHANGED <<proc, record, path, struck>>
  PROVE  \A r : AimedAt(r) => AimedAt(r)'
  BY DEF AimedAt, NamesService, Service!Present, Service!Alive, Service!RunsInflow

\* A command that starts the service goes on.
LEMMA StartTypedAt ==
  ASSUME start \in [Starts -> StartTyped], NEW c \in Starts, NEW a \in {"asking", "failed", "running"}
  PROVE  /\ [start EXCEPT ![c].at = a] \in [Starts -> StartTyped]
         /\ [start EXCEPT ![c].at = a][c].at = a
         /\ \A d \in Starts \ {c} : [start EXCEPT ![c].at = a][d] = start[d]
<1>1. [start[c] EXCEPT !.at = a] \in StartTyped /\ [start[c] EXCEPT !.at = a].at = a
  BY DEF StartTyped
<1>2. [start EXCEPT ![c].at = a] = [start EXCEPT ![c] = [start[c] EXCEPT !.at = a]]
  OBVIOUS
<1> QED
  BY <1>1, <1>2

LEMMA StarterAnswered ==
  ASSUME ServiceInv, NEW c \in Starts, NEW a \in {"asking", "failed", "running"}, start' = [start EXCEPT ![c].at = a]
  PROVE  start' \in [Starts -> StartTyped] /\ StartersWait'
  BY StartTypedAt DEF ServiceInv, ServiceTypes, StartersWait

\* Every step of a command that starts the service keeps the invariant.
LEMMA StarterStep ==
  ASSUME ServiceInv, NEW c \in Starts, Service!StartStep(c)
  PROVE  ServiceInv'
<1>0. ServiceTypes /\ StartersWait /\ start \in [Starts -> StartTyped]
  BY DEF ServiceInv, ServiceTypes
<1>q. ASSUME start' \in [Starts -> StartTyped], StartersWait', UNCHANGED <<proc, lock, record, path, stop, struck>>
      PROVE ServiceInv'
  BY <1>0, <1>q, ProcsUntouched DEF ServiceInv, ServiceTypes
<1>1. ASSUME Service!Launch(c) PROVE ServiceInv'
  <2>1. PICK i \in Service!Brokers, pid \in Pids :
          Service!Born(i, pid, "service") /\ start' = [start EXCEPT ![c] = [at |-> "waiting", child |-> i]]
    BY <1>1 DEF Service!Launch
  <2>2. start' \in [Starts -> StartTyped] /\ StartersWait'
    BY <1>0, <2>1, BrokersTyped DEF StartTyped, StartersWait
  <2> QED
    BY <1>1, <2>1, <2>2, BornStep DEF Service!Launch
<1>2. ASSUME Service!ReadReady(c) PROVE ServiceInv'
  BY <1>2, <1>q, StarterAnswered DEF Service!ReadReady
<1>3. ASSUME Service!ChildExit(c) PROVE ServiceInv'
  BY <1>3, <1>q, StarterAnswered DEF Service!ChildExit
<1>4. ASSUME Service!StartTimeout(c) PROVE ServiceInv'
  <2> DEFINE i == start[c].child
  <2>1. i \in Service!Brokers /\ start' \in [Starts -> StartTyped] /\ StartersWait'
    BY <1>0, <1>4, StarterAnswered DEF Service!StartTimeout, StartersWait
  <2>2. CASE Service!Alive(i)
    <3>1. Service!Terminated(i) /\ UNCHANGED <<record, path, stop, struck>>
      BY <1>4, <2>2 DEF Service!StartTimeout
    <3> HIDE DEF i
    <3> QED
      BY <2>1, <2>2, <3>1, TerminatedStep
  <2>3. CASE ~Service!Alive(i)
    BY <1>4, <2>1, <2>3, <1>q DEF Service!StartTimeout
  <2> QED
    BY <2>2, <2>3
<1>5. ASSUME Service!Info(c) PROVE ServiceInv'
  <2>1. PICK a \in {"running", "failed"} : start' = [start EXCEPT ![c].at = a]
    BY <1>5 DEF Service!Info
  <2> QED
    BY <1>5, <2>1, <1>q, StarterAnswered DEF Service!Info
<1> QED
  BY <1>1, <1>2, <1>3, <1>4, <1>5 DEF Service!StartStep

\* A stop goes on.
LEMMA StopFields ==
  ASSUME ServiceTypes, NEW s \in Stops, NEW r \in StopTyped, Service!Set(s, r)
  PROVE  /\ stop' \in [Stops -> StopTyped] /\ stop'[s] = r
         /\ \A t \in Stops \ {s} : stop'[t] = stop[t]
  BY DEF ServiceTypes, Service!Set

\* A stop that goes on without a signal and without the lock.
LEMMA StopMove ==
  ASSUME ServiceInv, NEW s \in Stops, NEW r \in StopTyped, Service!Set(s, r), AimedAt(r), r.at # "exit", stop[s].at # "exit",
         UNCHANGED <<proc, lock, record, path, start, struck>>
  PROVE  ServiceInv'
<1>1. ServiceTypes /\ StopAims /\ LockHolding /\ StartersWait
  BY DEF ServiceInv
<1>2. /\ stop' \in [Stops -> StopTyped] /\ stop'[s] = r
      /\ \A t \in Stops \ {s} : stop'[t] = stop[t]
  BY <1>1, StopFields
<1>3. \A t \in Stops : AimedAt(stop'[t])
  BY <1>1, <1>2 DEF StopAims
<1>4. StopAims'
  <2>1. \A q : AimedAt(q) => AimedAt(q)'
    BY DEF AimedAt, NamesService, Service!Present, Service!Alive, Service!RunsInflow
  <2> QED
    BY <1>3, <2>1, AimsKept
<1>5. LockHolding'
  BY <1>1, <1>2 DEF LockHolding
<1>6. ServiceTypes' /\ StartersWait'
  BY <1>1, <1>2 DEF ServiceTypes, StartersWait
<1> QED
  BY <1>4, <1>5, <1>6, ProcsUntouched DEF ServiceInv

\* Every step of a stop keeps the invariant.
LEMMA StopperStep ==
  ASSUME ServiceInv, NEW s \in Stops, Service!StopStep(s)
  PROVE  ServiceInv'
<1>0. ServiceTypes /\ StopAims /\ LockHolding /\ StartersWait /\ RecordNames /\ ProcKinds /\ PidsApart /\ Signalled
  BY DEF ServiceInv
<1>r. stop \in [Stops -> StopTyped] /\ stop[s] \in StopTyped /\ AimedAt(stop[s])
  BY <1>0 DEF ServiceTypes, StopAims
<1>n. \A at \in {"done", "failed", "read", "exit"} :
        /\ [Service!NoStop EXCEPT !.at = at] \in StopTyped /\ [Service!NoStop EXCEPT !.at = at].at = at
        /\ AimedAt([Service!NoStop EXCEPT !.at = at])
  BY BrokersTyped DEF Service!NoStop, StopTyped, AimedAt
<1>q. ASSUME NEW at \in {"done", "failed", "read"}, Service!Set(s, [Service!NoStop EXCEPT !.at = at]), stop[s].at # "exit",
             UNCHANGED <<proc, lock, record, path, start, struck>>
      PROVE ServiceInv'
  BY <1>n, <1>q, StopMove
<1>1. ASSUME Service!StopLock(s) PROVE ServiceInv'
  <2>1. CASE lock = Free
    <3>1. lock' = s /\ Service!Set(s, [Service!NoStop EXCEPT !.at = "exit"]) /\ stop[s].at = "idle" /\ UNCHANGED <<proc, record, path, start, struck>>
      BY <1>1, <2>1 DEF Service!StopLock
    <3>2. /\ stop' \in [Stops -> StopTyped] /\ stop'[s] = [Service!NoStop EXCEPT !.at = "exit"]
          /\ \A t \in Stops \ {s} : stop'[t] = stop[t]
      BY <1>0, <1>n, <3>1, StopFields
    <3>3. LockHolding'
      BY <1>0, <2>1, <3>1, <3>2, ServiceAssumption DEF LockHolding, Service!LockAssumption
    <3>4. StopAims'
      <4>1. \A t \in Stops : AimedAt(stop'[t])
        BY <1>0, <1>n, <3>2 DEF StopAims
      <4> QED
        BY <3>1, <4>1, AimsUntouched, AimsKept
    <3>5. ServiceTypes' /\ StartersWait'
      BY <1>0, <3>1, <3>2 DEF ServiceTypes, StartersWait
    <3> QED
      BY <3>1, <3>3, <3>4, <3>5, ProcsUntouched DEF ServiceInv
  <2>2. CASE lock # Free
    BY <1>1, <2>2, <1>q DEF Service!StopLock
  <2> QED
    BY <2>1, <2>2
<1>2. ASSUME Service!StopExit(s) PROVE ServiceInv'
  <2>1. lock' = Free /\ Service!Set(s, [Service!NoStop EXCEPT !.at = "done"]) /\ stop[s].at = "exit" /\ UNCHANGED <<proc, record, path, start, struck>>
    BY <1>2 DEF Service!StopExit
  <2>2. /\ stop' \in [Stops -> StopTyped] /\ stop'[s].at = "done" /\ stop'[s] = [Service!NoStop EXCEPT !.at = "done"]
        /\ \A t \in Stops \ {s} : stop'[t] = stop[t]
    BY <1>0, <1>n, <2>1, StopFields
  <2>3. LockHolding'
    <3>1. lock = s /\ s \notin Service!Brokers
      BY <1>0, <2>1, ServiceAssumption DEF LockHolding, Service!LockAssumption
    <3>2. \A i \in Service!Brokers : proc[i].at \notin Holders
      BY <1>0, <3>1 DEF LockHolding
    <3>3. \A t \in Stops : stop'[t].at # "exit"
      BY <1>0, <2>2, <3>1 DEF LockHolding
    <3> QED
      BY <1>0, <2>1, <3>2, <3>3 DEF LockHolding
  <2>4. StopAims'
    <3>1. \A t \in Stops : AimedAt(stop'[t])
      BY <1>0, <1>n, <2>2 DEF StopAims
    <3> QED
      BY <2>1, <3>1, AimsUntouched, AimsKept
  <2>5. ServiceTypes' /\ StartersWait'
    BY <1>0, <2>1, <2>2 DEF ServiceTypes, StartersWait
  <2> QED
    BY <2>1, <2>3, <2>4, <2>5, ProcsUntouched DEF ServiceInv
<1>3. ASSUME Service!StopRead(s) PROVE ServiceInv'
  <2>1. CASE record = Service!NoRecord
    BY <1>3, <2>1, <1>q DEF Service!StopRead
  <2>2. CASE record # Service!NoRecord
    <3> DEFINE r == [Service!NoStop EXCEPT !.at = "open", !.pid = record.pid, !.start = record.start]
    <3>1. r \in StopTyped /\ r.at = "open" /\ r.pid = record.pid /\ r.start = record.start
      BY <1>0, BrokersTyped DEF Service!NoStop, StopTyped, ServiceTypes, RecordTyped
    <3>2. Service!Set(s, r) /\ stop[s].at = "read" /\ UNCHANGED <<proc, lock, record, path, start, struck>>
      BY <1>3, <2>2 DEF Service!StopRead
    <3> HIDE DEF r
    <3>3. AimedAt(r)
      BY <1>0, <2>2, <3>1 DEF AimedAt, RecordNames
    <3> QED
      BY <3>1, <3>2, <3>3, StopMove
  <2> QED
    BY <2>1, <2>2
<1>4. ASSUME Service!StopOpen(s) PROVE ServiceInv'
  <2> DEFINE found == Service!ProcessStart(stop[s].pid)
             r == [stop[s] EXCEPT !.at = "exe", !.handle = found]
  <2>1. CASE found = 0
    BY <1>4, <2>1, <1>q DEF Service!StopOpen
  <2>2. CASE found # 0
    <3>1. found \in Service!Brokers
      BY <2>2, StartFound
    <3>2. Service!Set(s, r) /\ stop[s].at = "open" /\ UNCHANGED <<proc, lock, record, path, start, struck>>
      BY <1>4, <2>2 DEF Service!StopOpen
    <3>3. Service!Present(stop[s].start) => found = stop[s].start
      BY <1>0, <1>r, <3>2, StartOwn DEF AimedAt, NamesService
    <3> HIDE DEF found
    <3>4. r \in StopTyped /\ r.at = "exe" /\ r.pid = stop[s].pid /\ r.start = stop[s].start /\ r.handle = found
      BY <1>r, <3>1, BrokersTyped DEF StopTyped
    <3> HIDE DEF r
    <3>5. AimedAt(r)
      BY <1>r, <3>2, <3>3, <3>4 DEF AimedAt
    <3> QED
      BY <3>2, <3>4, <3>5, StopMove
  <2> QED
    BY <2>1, <2>2
<1>5. ASSUME Service!StopExecutable(s) PROVE ServiceInv'
  <2> DEFINE found == Service!ProcessStart(stop[s].pid)
             r == [stop[s] EXCEPT !.at = "check", !.same = Service!RunsInflow(found)]
  <2>1. CASE found = 0 \/ ~Service!Alive(found)
    BY <1>5, <2>1, <1>q DEF Service!StopExecutable
  <2>2. CASE ~(found = 0 \/ ~Service!Alive(found))
    <3>1. Service!Set(s, r) /\ stop[s].at = "exe" /\ UNCHANGED <<proc, lock, record, path, start, struck>>
      BY <1>5, <2>2 DEF Service!StopExecutable
    <3>2. Service!Present(stop[s].start) => found = stop[s].start
      BY <1>0, <1>r, <3>1, StartOwn DEF AimedAt, NamesService
    <3> HIDE DEF found
    <3>3. Service!RunsInflow(found) \in BOOLEAN
      BY DEF Service!RunsInflow
    <3>4. r \in StopTyped /\ r.at = "check" /\ r.pid = stop[s].pid /\ r.start = stop[s].start /\ r.handle = stop[s].handle
          /\ (r.same <=> Service!RunsInflow(found))
      BY <1>r, <3>3 DEF StopTyped
    <3> HIDE DEF r
    <3>5. AimedAt(r)
      BY <1>r, <3>1, <3>2, <3>4 DEF AimedAt, Service!Alive
    <3> QED
      BY <3>1, <3>4, <3>5, StopMove
  <2> QED
    BY <2>1, <2>2
<1>6. ASSUME Service!StopCheck(s) PROVE ServiceInv'
  <2>1. CASE ~Service!IsService(s)
    BY <1>6, <2>1, <1>q DEF Service!StopCheck
  <2>2. CASE Service!IsService(s)
    <3> DEFINE r == [stop[s] EXCEPT !.at = "signal"]
    <3>1. Service!Set(s, r) /\ stop[s].at = "check" /\ UNCHANGED <<proc, lock, record, path, start, struck>>
      BY <1>6, <2>2 DEF Service!StopCheck
    <3>2. stop[s].start \in Service!Brokers /\ Service!Present(stop[s].start)
      BY <1>r, <2>2, <3>1, StartFound, BrokersTyped DEF Service!IsService, AimedAt, NamesService
    <3>3. r \in StopTyped /\ r.at = "signal" /\ r.pid = stop[s].pid /\ r.start = stop[s].start /\ r.handle = stop[s].handle
      BY <1>r DEF StopTyped
    <3> HIDE DEF r
    <3>4. AimedAt(r)
      BY <1>r, <2>2, <3>1, <3>2, <3>3 DEF AimedAt, Service!IsService
    <3> QED
      BY <3>1, <3>3, <3>4, StopMove
  <2> QED
    BY <2>1, <2>2
<1>7. ASSUME Service!StopSignal(s) PROVE ServiceInv'
  <2> DEFINE i == stop[s].handle
             r == IF Service!Present(i) THEN [stop[s] EXCEPT !.at = "poll"] ELSE [Service!NoStop EXCEPT !.at = "failed"]
  <2>1. Service!Set(s, r) /\ stop[s].at = "signal" /\ UNCHANGED <<record, path, start>>
    BY <1>7 DEF Service!StopSignal
  <2>2. i = stop[s].start /\ NamesService(stop[s].pid, i) /\ i \in Service!Brokers /\ (Service!Alive(i) => Service!RunsInflow(i))
    BY <1>r, <2>1 DEF AimedAt, NamesService
  <2>3. r \in StopTyped /\ r.at \in {"poll", "failed"} /\ (r.at = "poll" => r.handle \in Service!Brokers)
    BY <1>r, <1>n, <2>2 DEF StopTyped
  <2>4. CASE ~Service!Alive(i)
    <3>1. UNCHANGED <<proc, lock, struck>>
      BY <1>7, <2>4 DEF Service!StopSignal
    <3> HIDE DEF i, r
    <3>2. AimedAt(r)
      BY <2>3 DEF AimedAt
    <3> QED
      BY <2>1, <2>3, <3>1, <3>2, StopMove
  <2>5. CASE Service!Alive(i)
    <3>1. Service!Terminated(i) /\ struck' = struck \cup {i}
      BY <1>7, <2>5 DEF Service!StopSignal
    <3> HIDE DEF i, r
    <3> USE DEF Launchers, Holders, Binders, ProcStates
    <3>2. PICK x \in {"closing", "zombie"} :
           /\ Moves(i, x)
           /\ x = "closing" => proc[i].at = "serving" /\ lock = i
           /\ \/ lock' = lock /\ (x \in Holders => lock = i)
              \/ lock' = Service!Released(i) /\ x \notin Holders
      BY <2>2, <2>5, <3>1, TerminatedMoves
    <3>3. proc[i].at \notin {"unborn", "gone", "zombie"} /\ proc[i].kind = "service"
      BY <2>2, <2>5 DEF Service!Alive, Service!Present, NamesService
    <3>4. proc[i].at = "closing" => x = "zombie"
      BY <3>2
    <3>5. /\ stop' \in [Stops -> StopTyped] /\ stop'[s] = r
          /\ \A t \in Stops \ {s} : stop'[t] = stop[t]
      BY <1>0, <2>1, <2>3, StopFields
    <3>6. PidsApart' /\ ProcKinds'
      BY <2>2, <3>2, <3>3, MoveKeeps
    <3>7. RecordNames'
      BY <2>1, <2>2, <3>2, <3>3, MoveRecorded
    <3>8. LockHolding' /\ (lock' = Free \/ lock' \in Service!Brokers \/ lock' \in Stops)
      BY <2>1, <2>2, <2>3, <3>2, <3>5, MoveHolds
    <3>9. Signalled'
      <4>1. struck \in SUBSET Service!Brokers
        BY <1>0 DEF ServiceTypes
      <4> QED
        BY <1>0, <2>2, <3>1, <3>2, <3>3, <3>4, <4>1 DEF Signalled, Moves
    <3>10. StopAims'
      <4>1. \A t \in Stops : AimedAt(stop'[t])
        BY <1>0, <2>3, <3>5 DEF StopAims, AimedAt
      <4>2. /\ \A j \in Service!Brokers : Service!Present(j)' => Service!Present(j)
            /\ \A p, j : NamesService(p, j) => NamesService(p, j)'
        BY <2>2, <3>2, <3>3, MoveKeeps DEF NamesService, Moves
      <4>3. \A j \in Service!Brokers : /\ (Service!Alive(j) => Service!RunsInflow(j)) => (Service!Alive(j) => Service!RunsInflow(j))'
                                       /\ Service!Alive(j)' => Service!Alive(j)
        BY <2>2, <3>2, <3>3, <3>4, MoveRuns
      <4>4. ASSUME NEW r0, AimedAt(r0) PROVE AimedAt(r0)'
        <5>1. \A j \in Service!Brokers :
           /\ Service!Present(j)' => Service!Present(j)
           /\ (Service!Alive(j) => Service!RunsInflow(j)) => (Service!Alive(j) => Service!RunsInflow(j))'
           /\ Service!Alive(j)' => Service!Alive(j)
          BY <4>2, <4>3
        <5> QED
          BY <4>2, <4>4, <5>1, AimGoesOn
      <4> QED
        BY <4>1, <4>4, AimsKept
    <3>11. ServiceTypes' /\ StartersWait'
      BY <1>0, <2>1, <2>2, <3>1, <3>2, <3>5, <3>8 DEF ServiceTypes, Moves, StartersWait
    <3> QED
      BY <3>6, <3>7, <3>8, <3>9, <3>10, <3>11 DEF ServiceInv
  <2> QED
    BY <2>4, <2>5
<1>8. ASSUME Service!StopPoll(s) PROVE ServiceInv'
  BY <1>8, <1>q DEF Service!StopPoll
<1> QED
  BY <1>1, <1>2, <1>3, <1>4, <1>5, <1>6, <1>7, <1>8 DEF Service!StopStep

\* The invariant holds at first, and after every step.
LEMMA ServiceInvInit == Service!Init => ServiceInv
<1> SUFFICES ASSUME Service!Init PROVE ServiceInv
  OBVIOUS
<1>1. ServiceTypes
  BY BrokersTyped DEF Service!Init, ServiceTypes, ProcTyped, Service!NoProc, ProcStates, RecordTyped, Service!NoRecord, StartTyped, StopTyped, Service!NoStop
<1>2. LockHolding /\ ProcKinds /\ PidsApart
  BY DEF Service!Init, LockHolding, ProcKinds, PidsApart, Service!Present, Service!NoProc, Service!NoStop, Holders, Binders, Launchers
<1>3. RecordNames /\ StartersWait /\ StopAims /\ Signalled
  BY DEF Service!Init, RecordNames, StartersWait, StopAims, AimedAt, Signalled, Service!NoProc, Service!NoStop
<1> QED
  BY <1>1, <1>2, <1>3 DEF ServiceInv

LEMMA ServiceInvStep == ServiceInv /\ [Service!Next]_(Service!vars) => ServiceInv'
<1> SUFFICES ASSUME ServiceInv, [Service!Next]_(Service!vars) PROVE ServiceInv'
  OBVIOUS
<1>1. CASE Service!Next
  BY <1>1, ProcessStep, StarterStep, StopperStep DEF Service!Next
<1>2. CASE UNCHANGED Service!vars
  BY <1>2, ProcsUntouched DEF Service!vars, Service!commands, ServiceInv, ServiceTypes, StartersWait
<1> QED
  BY <1>1, <1>2

\* The inductive invariant of launchers, brokers and stops holds for every number of
\* processes, commands and pids, with any reuse of a pid.
THEOREM ServiceInvariance == Service!Spec => []ServiceInv
  BY ServiceInvInit, ServiceInvStep, PTL DEF Service!Spec

\* ... and says what the properties say.
LEMMA ServiceInvHolds == ServiceInv => Service!OneService /\ Service!StopsService
<1> SUFFICES ASSUME ServiceInv PROVE Service!OneService /\ Service!StopsService
  OBVIOUS
<1>1. Service!OneService
  BY DEF ServiceInv, LockHolding, RecordNames, Service!OneService, Service!Bound, Service!Answers, Holders, Binders
<1>2. Service!StopsService
  <2>1. \A i \in struck : proc[i].kind = "service" /\ (Service!Alive(i) => proc[i].at = "closing")
    BY DEF ServiceInv, Signalled, Service!Alive, Service!Present
  <2>2. \A s \in Stops : stop[s].at = "signal" /\ Service!Alive(stop[s].handle) => Service!RunsInflow(stop[s].handle)
    BY DEF ServiceInv, StopAims, AimedAt
  <2> QED
    BY <2>1, <2>2 DEF Service!StopsService
<1> QED
  BY <1>1, <1>2

\* However often the service is started, ended and stopped, one broker at most
\* listens, where clients find it and under the lock, and a stop signals the
\* service and nothing else.
THEOREM OneServiceIsStopped == Service!Spec => []OneServiceStops
<1>1. ServiceInv => OneServiceStops
  BY ServiceInvHolds DEF OneServiceStops
<1> QED
  BY <1>1, ServiceInvariance, PTL

-----------------------------------------------------------------------------
(* SourceDocuments: what a discovery answers.                               *)

Reach(x, y) == IF x > y THEN x - y ELSE 0

\* What was served, and by which redirect it was found, since t.
SeenAt(place, kind, rev, t) ==
  \E s \in 1..site : Sources!Ended(s) >= t /\ sites[s][place].kind = kind /\ sites[s][place].rev = rev

MovedAt(place, t) == \E s \in 1..site : Sources!Ended(s) + Sources!Oldest >= t /\ sites[s][place].kind = "moved"

Served == Sources!Kinds \ {"moved", "error"}

DocAt(place, doc, t) ==
  /\ doc.kind \in Served /\ doc.final \in Sources!Places
  /\ SeenAt(doc.final, doc.kind, doc.rev, t)
  /\ doc.final = place \/ (doc.final = "other" /\ MovedAt(place, t))

\* What still lasts was served within one lifetime and one retrieval of its end.
Since(e) == Reach(e, Life + 1)

Allowed(c) == Reach(c.began, Sources!Slack(c))

-----------------------------------------------------------------------------
(* The origin and the clock.                                                *)

OriginInv ==
  /\ sites \in Seq([Sources!Places -> Sources!Representation])
  /\ \A u \in Sources!Places, s \in DOMAIN sites, o \in DOMAIN sites :
       sites[s][u].rev = sites[o][u].rev => sites[s][u] = sites[o][u]
  /\ site \in 1..Len(sites)
  /\ now \in Nat
  /\ until \in [1..Len(sites) -> Nat]
  /\ \A s \in 1..Len(sites) : until[s] <= now
  /\ ages \in {{0}, {0, MaxAge}}
  /\ work \in [Readers -> Seq(Sources!Requests)]

LEMMA AgesAre ==
  ASSUME OriginInv
  PROVE  MaxAge \in Nat /\ \A a \in ages : a \in Nat /\ a <= MaxAge
<1>1. MaxAge \in Nat
  BY SourcesAssumption DEF Sources!BoundsAssumption
<1>2. ages = {0} \/ ages = {0, MaxAge}
  BY DEF OriginInv
<1> QED
  BY <1>1, <1>2

LEMMA OldestIs ==
  ASSUME OriginInv
  PROVE  /\ Sources!Oldest \in ages /\ Sources!Oldest \in Nat /\ Sources!Oldest <= MaxAge
         /\ \A a \in ages : a \in Nat /\ a <= Sources!Oldest
<1>1. MaxAge \in Nat /\ \A a \in ages : a \in Nat /\ a <= MaxAge
  BY AgesAre
<1>2. \E a \in ages : \A b \in ages : b <= a
  <2>1. CASE ages = {0}
    BY <2>1
  <2>2. CASE ages = {0, MaxAge}
    BY <1>1, <2>2
  <2> QED BY <2>1, <2>2 DEF OriginInv
<1>3. Sources!Oldest \in ages /\ \A b \in ages : b <= Sources!Oldest
  BY <1>2 DEF Sources!Oldest
<1> QED
  BY <1>1, <1>3

LEMMA EndedIs ==
  ASSUME OriginInv, NEW s \in 1..site
  PROVE  Sources!Ended(s) \in Nat /\ Sources!Ended(s) <= now
<1>1. Len(sites) \in Nat /\ site \in 1..Len(sites)
  BY DEF OriginInv
<1>2. s \in 1..Len(sites)
  BY <1>1
<1>3. until[s] \in Nat /\ until[s] <= now /\ now \in Nat
  BY <1>2 DEF OriginInv
<1> QED
  BY <1>3 DEF Sources!Ended

LEMMA EndedLater ==
  ASSUME OriginInv', NEW s \in 1..site'
  PROVE  Sources!Ended(s)' \in Nat
<1>1. Len(sites') \in Nat /\ site' \in 1..Len(sites')
  BY DEF OriginInv
<1>2. s \in 1..Len(sites')
  BY <1>1
<1>3. until'[s] \in Nat /\ now' \in Nat
  BY <1>2 DEF OriginInv
<1> QED
  BY <1>3 DEF Sources!Ended

\* Time goes on: the origin forgets nothing.
Onward ==
  /\ OriginInv /\ OriginInv'
  /\ UNCHANGED <<sites, ages>> /\ site <= site' /\ now <= now'
  /\ \A s \in 1..site : Sources!Ended(s) <= Sources!Ended(s)'

LEMMA SeenLater ==
  ASSUME Onward, NEW place, NEW kind, NEW rev, NEW t \in Nat, SeenAt(place, kind, rev, t)
  PROVE  SeenAt(place, kind, rev, t)'
<1>1. PICK s \in 1..site : Sources!Ended(s) >= t /\ sites[s][place].kind = kind /\ sites[s][place].rev = rev
  BY DEF SeenAt
<1>2. s \in 1..site' /\ sites' = sites
  BY DEF Onward, OriginInv
<1>3. Sources!Ended(s) \in Nat /\ Sources!Ended(s)' \in Nat
  <2>1. Sources!Ended(s) \in Nat
    BY EndedIs DEF Onward
  <2>2. Sources!Ended(s)' \in Nat
    BY <1>2, EndedLater DEF Onward
  <2> QED BY <2>1, <2>2
<1>4. Sources!Ended(s)' >= t
  BY <1>1, <1>3 DEF Onward
<1> QED
  BY <1>1, <1>2, <1>4 DEF SeenAt

LEMMA MovedLater ==
  ASSUME Onward, NEW place, NEW t \in Nat, MovedAt(place, t)
  PROVE  MovedAt(place, t)'
<1>1. PICK s \in 1..site : Sources!Ended(s) + Sources!Oldest >= t /\ sites[s][place].kind = "moved"
  BY DEF MovedAt
<1>2. s \in 1..site' /\ sites' = sites /\ Sources!Oldest' = Sources!Oldest
  BY DEF Onward, OriginInv, Sources!Oldest
<1>3. Sources!Ended(s) \in Nat /\ Sources!Ended(s)' \in Nat /\ Sources!Oldest \in Nat
  <2>1. Sources!Ended(s) \in Nat
    BY EndedIs DEF Onward
  <2>2. Sources!Ended(s)' \in Nat
    BY <1>2, EndedLater DEF Onward
  <2> QED BY <2>1, <2>2, OldestIs DEF Onward
<1>4. Sources!Ended(s) <= Sources!Ended(s)'
  BY DEF Onward
<1>5. Sources!Ended(s)' + Sources!Oldest >= t
  BY <1>1, <1>3, <1>4
<1> QED
  BY <1>1, <1>2, <1>5 DEF MovedAt

\* Since an earlier time is as good.
LEMMA SeenEarlier ==
  ASSUME OriginInv, NEW place, NEW kind, NEW rev, NEW t \in Nat, NEW u \in Nat, u <= t, SeenAt(place, kind, rev, t)
  PROVE  SeenAt(place, kind, rev, u)
<1>1. PICK s \in 1..site : Sources!Ended(s) >= t /\ sites[s][place].kind = kind /\ sites[s][place].rev = rev
  BY DEF SeenAt
<1>2. Sources!Ended(s) >= u
  BY <1>1, EndedIs
<1> QED
  BY <1>1, <1>2 DEF SeenAt

LEMMA MovedEarlier ==
  ASSUME OriginInv, NEW place, NEW t \in Nat, NEW u \in Nat, u <= t, MovedAt(place, t)
  PROVE  MovedAt(place, u)
<1>1. PICK s \in 1..site : Sources!Ended(s) + Sources!Oldest >= t /\ sites[s][place].kind = "moved"
  BY DEF MovedAt
<1>2. Sources!Ended(s) \in Nat /\ Sources!Oldest \in Nat
  BY EndedIs, OldestIs
<1>3. Sources!Ended(s) + Sources!Oldest >= u
  BY <1>1, <1>2
<1> QED
  BY <1>1, <1>3 DEF MovedAt

LEMMA DocEarlier ==
  ASSUME OriginInv, NEW place, NEW doc, NEW t \in Nat, NEW u \in Nat, u <= t, DocAt(place, doc, t)
  PROVE  DocAt(place, doc, u)
BY SeenEarlier, MovedEarlier DEF DocAt

LEMMA DocLater ==
  ASSUME Onward, NEW place, NEW doc, NEW t \in Nat, DocAt(place, doc, t)
  PROVE  DocAt(place, doc, t)'
BY SeenLater, MovedLater DEF DocAt

LEMMA WasEarlier ==
  ASSUME OriginInv, NEW place, NEW kinds, NEW t \in Nat, NEW u \in Nat, u <= t, Sources!Was(place, kinds, t)
  PROVE  Sources!Was(place, kinds, u)
<1>1. \A s \in 1..site : Sources!Ended(s) \in Nat /\ Sources!Oldest \in Nat
  BY EndedIs, OldestIs
<1>2. \A s \in 1..site : Sources!Ended(s) >= t => Sources!Ended(s) >= u
  BY <1>1
<1>3. \A s \in 1..site : Sources!Ended(s) + Sources!Oldest >= t => Sources!Ended(s) + Sources!Oldest >= u
  BY <1>1
<1> QED
  BY <1>2, <1>3 DEF Sources!Was

LEMMA WasLater ==
  ASSUME Onward, NEW place, NEW kinds, NEW t \in Nat, Sources!Was(place, kinds, t)
  PROVE  Sources!Was(place, kinds, t)'
<1>1. sites' = sites /\ Sources!Oldest' = Sources!Oldest /\ \A s \in 1..site : s \in 1..site'
  BY DEF Onward, OriginInv, Sources!Oldest
<1>2. Sources!Oldest \in Nat
  BY OldestIs DEF Onward
<1>3. ASSUME NEW s \in 1..site
      PROVE  Sources!Ended(s) \in Nat /\ Sources!Ended(s)' \in Nat /\ Sources!Ended(s) <= Sources!Ended(s)'
  <2>1. Sources!Ended(s) \in Nat
    BY EndedIs DEF Onward
  <2>2. Sources!Ended(s)' \in Nat
    BY <1>1, EndedLater DEF Onward
  <2> QED BY <2>1, <2>2 DEF Onward
<1>4. ASSUME NEW s \in 1..site, Sources!Ended(s) >= t PROVE Sources!Ended(s)' >= t
  BY <1>3, <1>4
<1>5. ASSUME NEW s \in 1..site, Sources!Ended(s) + Sources!Oldest >= t PROVE Sources!Ended(s)' + Sources!Oldest' >= t
  BY <1>1, <1>2, <1>3, <1>5
<1>6. CASE \E s \in 1..site : Sources!Ended(s) >= t /\ sites[s][place].kind \in kinds
  BY <1>1, <1>4, <1>6 DEF Sources!Was
<1>7. CASE /\ \E s \in 1..site : Sources!Ended(s) + Sources!Oldest >= t /\ sites[s][place].kind = "moved"
           /\ \E o \in 1..site : Sources!Ended(o) >= t /\ sites[o]["other"].kind \in kinds
  <2>1. PICK s \in 1..site : Sources!Ended(s) + Sources!Oldest >= t /\ sites[s][place].kind = "moved"
    BY <1>7
  <2>2. PICK o \in 1..site : Sources!Ended(o) >= t /\ sites[o]["other"].kind \in kinds
    BY <1>7
  <2>3. s \in 1..site' /\ Sources!Ended(s)' + Sources!Oldest' >= t /\ sites'[s][place].kind = "moved"
    BY <1>1, <1>5, <2>1
  <2>4. o \in 1..site' /\ Sources!Ended(o)' >= t /\ sites'[o]["other"].kind \in kinds
    BY <1>1, <1>4, <2>2
  <2> QED
    BY <2>3, <2>4 DEF Sources!Was
<1> QED
  BY <1>6, <1>7 DEF Sources!Was

\* A document of a place tells what the place was.
LEMMA DocWas ==
  ASSUME NEW place, NEW doc, NEW t, NEW kinds, DocAt(place, doc, t), doc.kind \in kinds
  PROVE  Sources!Was(place, kinds, t)
<1>1. PICK s \in 1..site :
        Sources!Ended(s) >= t /\ sites[s][doc.final].kind = doc.kind
  BY DEF DocAt, SeenAt
<1>2. CASE doc.final = place
  BY <1>1, <1>2 DEF Sources!Was
<1>3. CASE doc.final = "other" /\ MovedAt(place, t)
  BY <1>1, <1>3 DEF Sources!Was, MovedAt
<1> QED
  BY <1>2, <1>3 DEF DocAt

LEMMA LedLater ==
  ASSUME Onward, NEW format, NEW type, NEW candidates, NEW t \in Nat, Sources!Led(format, type, candidates, t)
  PROVE  Sources!Led(format, type, candidates, t)'
BY WasLater DEF Sources!Led

LEMMA LedEarlier ==
  ASSUME OriginInv, NEW format, NEW type, NEW candidates, NEW t \in Nat, NEW u \in Nat, u <= t,
         Sources!Led(format, type, candidates, t)
  PROVE  Sources!Led(format, type, candidates, u)
BY WasEarlier DEF Sources!Led

-----------------------------------------------------------------------------
(* The invariant.                                                           *)

Locs == {{"odp"}, {"other"}, {"api"}, {"v1"}, {"api", "v1"}}

RowFields == {"kind", "rev", "policy", "final", "expires"}

\* A row that is kept is of what was served, and while it is fresh, of what was lately.
RowIs(u, d) ==
  /\ d.kind = "none" => d.expires = 0
  /\ d.kind # "none" =>
       /\ d.expires \in Nat
       /\ DocAt(u, d, 0)
       /\ d.expires > now => DocAt(u, d, Since(d.expires))

\* A location that lasts was led to lately.
LocationIs(f, l) ==
  /\ l.expires \in Nat
  /\ l.expires > now =>
       /\ l.candidates \in Locs /\ l.type \in {"odp", "openapi"}
       /\ l.type = "odp" => l.candidates = {"odp"}
       /\ Sources!Led(f, l.type, l.candidates, Since(l.expires))

CommandFields ==
  {"at", "format", "refresh", "began", "step", "source", "url", "hops", "row", "reply", "limit",
   "keep", "expires", "found", "reading", "type", "candidates"}

Formed(c) ==
  /\ DOMAIN c = CommandFields
  /\ c.format \in {"auto", "openapi"} /\ c.refresh \in BOOLEAN
  /\ c.began \in Nat /\ c.began <= now /\ c.expires \in Nat
  /\ c.source \in Sources!Places

\* Since when what a command learns has to be so: for its answer, and for what it remembers.
Times(c) == {Allowed(c)} \cup IF c.expires > now THEN {Since(c.expires)} ELSE {}

NoOdp(format, t) == Sources!Was("odp", {"gone"} \cup IF format = "openapi" THEN {"odp"} ELSE {}, t)

NoLink(t) == Sources!Was("x402", Sources!Kinds \ {"link", "moved", "error"}, t)

Conventionally(u, found, t) ==
  Sources!Was(u, IF u \in found THEN Sources!Api ELSE Sources!Kinds \ (Sources!Api \cup {"moved", "error"}), t)

\* What led a command to its step was so at some time since t.
Grounds(c, t) ==
  /\ c.step = "x402" => NoOdp(c.format, t)
  /\ c.step = "api" => NoOdp(c.format, t) /\ NoLink(t)
  /\ c.step = "v1" => NoOdp(c.format, t) /\ NoLink(t) /\ Conventionally("api", c.found, t)
  /\ c.step = "advertised" => Sources!Led(c.format, "openapi", {"other"}, t)
  /\ c.step = "reference" /\ c.found \cap {"exact", "linked"} = {} => Sources!Led(c.format, "openapi", c.candidates, t)
  /\ c.step = "located" => Sources!Led(c.format, c.type, c.candidates, t)

\* The discoveries whose result is remembered.
Discovering(c) ==
  \/ c.step \in {"native", "x402", "api", "v1", "advertised"}
  \/ c.step = "reference" /\ c.found \in {{"advertised"}, {"v1"}}

StepIs(c) ==
  /\ c.step \in {"native", "x402", "api", "v1", "advertised", "reference", "exact", "linked", "located"}
  /\ c.step = "native" => c.source = "odp"
  /\ c.step \in {"x402", "api", "v1"} => c.source = c.step
  /\ c.step \in {"native", "x402", "api"} => c.found = {}
  /\ c.step = "v1" => c.found \in {{}, {"api"}}
  /\ c.step = "reference" => c.found \in {{"exact"}, {"linked"}, {"located"}, {"advertised"}, {"v1"}}
  /\ c.step = "reference" /\ c.found \in {{"advertised"}, {"v1"}} => c.candidates \in Locs

\* The document whose references are read, or that is the only one so far.
ReadingSeen(c) ==
  c.step = "reference" \/ (c.step = "v1" /\ c.found # {}) =>
    SeenAt(c.reading.final, c.reading.kind, c.reading.rev, Allowed(c))

Underway(c) ==
  /\ StepIs(c) /\ ReadingSeen(c)
  /\ Grounds(c, Allowed(c))
  /\ Discovering(c) => \A t \in Times(c) : Grounds(c, t)

Asking(c) ==
  /\ c.limit \in Nat /\ c.limit <= now + 1 /\ c.began + 1 <= c.limit
  /\ c.url \in Sources!Places
  /\ c.url = c.source \/ (c.url = "other" /\ MovedAt(c.source, Reach(c.limit, 1)))

RowKnown(c) == c.row.kind # "none" => SeenAt(c.row.final, c.row.kind, c.row.rev, 0)

ReplyIs(c) ==
  /\ DOMAIN c.reply = RowFields
  /\ c.reply.kind \in Served /\ c.reply.final = c.url /\ c.reply.expires \in ages
  /\ SeenAt(c.url, c.reply.kind, c.reply.rev, Reach(c.limit, 1 + c.reply.expires))

ShownAt(c, t) == c.type # "ambiguous" => SeenAt(c.reading.final, c.reading.kind, c.reading.rev, t)

Remembered(c) ==
  /\ c.candidates \in Locs /\ (c.type = "odp" => c.candidates = {"odp"})
  /\ ShownAt(c, Allowed(c))
  /\ \A t \in Times(c) : Sources!Led(c.format, c.type, c.candidates, t)

Told(c) ==
  /\ ShownAt(c, Allowed(c))
  /\ c.step \in {"exact", "linked"} \/ Sources!Led(c.format, c.type, c.candidates, Allowed(c))

CommandIs(c) ==
  /\ Formed(c)
  /\ c.at \in {"location", "forget"} => c.found = {}
  /\ c.at = "look" => c.url = c.source
  /\ c.at \in {"look", "ask", "store"} => Underway(c)
  /\ c.at \in {"ask", "store"} => Asking(c)
  /\ c.at = "ask" => RowKnown(c)
  /\ c.at = "store" => ReplyIs(c)
  /\ c.at = "remember" => Remembered(c)
  /\ c.at = "done" => Told(c)

SourcesInv ==
  /\ OriginInv
  /\ DOMAIN cache = Sources!Places /\ \A u \in Sources!Places : RowIs(u, cache[u])
  /\ DOMAIN location = {"auto", "openapi"} /\ \A f \in {"auto", "openapi"} : LocationIs(f, location[f])
  /\ DOMAIN look = Readers /\ \A p \in Readers : CommandIs(look[p])
-----------------------------------------------------------------------------
(* Times.                                                                   *)

LEMMA ConstantsAre == Life \in Nat /\ MaxAge \in Nat /\ MaxAge <= Life + 1 /\ MaxTime \in Nat
BY SourcesAssumption DEF Sources!BoundsAssumption

LEMMA ReachIs ==
  ASSUME NEW x \in Nat, NEW y \in Nat
  PROVE  Reach(x, y) \in Nat /\ Reach(x, y) <= x
BY DEF Reach

LEMMA ReachGrows ==
  ASSUME NEW x \in Nat, NEW y \in Nat, NEW z \in Nat, x <= y
  PROVE  Reach(x, z) <= Reach(y, z)
BY DEF Reach

LEMMA SinceIs ==
  ASSUME NEW x \in Nat
  PROVE  Since(x) \in Nat
BY ConstantsAre, ReachIs DEF Since

LEMMA SinceGrows ==
  ASSUME NEW x \in Nat, NEW y \in Nat, x <= y
  PROVE  Since(x) <= Since(y)
BY ConstantsAre, ReachGrows DEF Since

LEMMA AllowedIs ==
  ASSUME OriginInv, NEW c, Formed(c)
  PROVE  /\ Sources!Slack(c) \in Nat /\ Allowed(c) \in Nat
         /\ \A t \in Times(c) : t \in Nat
<1>1. Sources!Slack(c) \in Nat
  BY ConstantsAre, OldestIs DEF Sources!Slack
<1>2. c.began \in Nat /\ c.expires \in Nat
  BY DEF Formed
<1>3. Allowed(c) \in Nat /\ Since(c.expires) \in Nat
  BY <1>1, <1>2, ReachIs, SinceIs DEF Allowed
<1> QED
  BY <1>1, <1>3 DEF Times

\* What still lasts was so lately enough for a command that did not ask for a refresh.
LEMMA LastsIsAllowed ==
  ASSUME OriginInv, NEW c, Formed(c), ~c.refresh, NEW e \in Nat, e > now
  PROVE  Allowed(c) <= Since(e)
<1>1. Allowed(c) = Reach(c.began, Life + 1) /\ c.began \in Nat /\ c.began <= e
  BY DEF Allowed, Sources!Slack, Formed, OriginInv
<1> QED
  BY <1>1, ConstantsAre, ReachGrows DEF Since

\* What an answer may be older than its command's beginning.
LEMMA AskedIsAllowed ==
  ASSUME OriginInv, NEW c, Formed(c), NEW limit \in Nat, c.began + 1 <= limit, NEW age \in ages
  PROVE  /\ Allowed(c) <= Reach(limit, 1 + age)
         /\ Allowed(c) <= Reach(limit, 1)
         /\ Reach(limit, 1 + age) \in Nat /\ Reach(limit, 1) \in Nat
<1>1. age \in Nat /\ age <= Sources!Oldest /\ Sources!Oldest \in Nat /\ Sources!Oldest <= MaxAge
  BY OldestIs
<1>2. age <= Sources!Slack(c) /\ Sources!Slack(c) \in Nat
  BY <1>1, ConstantsAre DEF Sources!Slack
<1>3. c.began \in Nat
  BY DEF Formed
<1>4. Reach(c.began, Sources!Slack(c)) <= Reach(limit, 1 + age)
  BY <1>1, <1>2, <1>3 DEF Reach
<1>5. Reach(c.began, Sources!Slack(c)) <= Reach(limit, 1)
  BY <1>1, <1>2, <1>3 DEF Reach
<1> QED
  BY <1>1, <1>4, <1>5, ReachIs DEF Allowed

-----------------------------------------------------------------------------
(* What is so stays so.                                                     *)

LEMMA LaterFacts ==
  ASSUME Onward
  PROVE  sites' = sites /\ ages' = ages /\ now <= now' /\ now \in Nat /\ now' \in Nat /\ Sources!Oldest' = Sources!Oldest
BY DEF Onward, OriginInv, Sources!Oldest

LEMMA AllowedLater ==
  ASSUME Onward, NEW c
  PROVE  Allowed(c)' = Allowed(c)
BY LaterFacts DEF Allowed, Sources!Slack

LEMMA GroundsLater ==
  ASSUME Onward, NEW c, NEW t \in Nat, Grounds(c, t)
  PROVE  Grounds(c, t)'
BY WasLater, LedLater DEF Grounds, NoOdp, NoLink, Conventionally

LEMMA GroundsEarlier ==
  ASSUME OriginInv, NEW c, NEW t \in Nat, NEW u \in Nat, u <= t, Grounds(c, t)
  PROVE  Grounds(c, u)
BY WasEarlier, LedEarlier DEF Grounds, NoOdp, NoLink, Conventionally

LEMMA FormedLater ==
  ASSUME Onward, NEW c, Formed(c)
  PROVE  Formed(c)'
BY LaterFacts DEF Formed

LEMMA TimesLater ==
  ASSUME Onward, NEW c, Formed(c)
  PROVE  \A t \in Times(c)' : t \in Times(c)
<1>1. Allowed(c)' = Allowed(c) /\ c.expires \in Nat
  BY AllowedLater DEF Formed
<1>2. c.expires > now' => c.expires > now
  BY <1>1, LaterFacts
<1>3. Since(c.expires)' = Since(c.expires)
  BY DEF Since, Reach
<1> QED
  BY <1>1, <1>2, <1>3 DEF Times

LEMMA UnderwayLater ==
  ASSUME Onward, NEW c, Formed(c), Underway(c)
  PROVE  Underway(c)'
<1>0. OriginInv
  BY DEF Onward
<1>1. StepIs(c)'
  BY DEF Underway, StepIs
<1>2. ReadingSeen(c)'
  BY <1>0, AllowedIs, AllowedLater, SeenLater DEF Underway, ReadingSeen
<1>3. Grounds(c, Allowed(c))'
  <2>1. PICK t \in Nat : t = Allowed(c)
    BY <1>0, AllowedIs
  <2>2. Grounds(c, t)
    BY <2>1 DEF Underway
  <2>3. Grounds(c, t)'
    BY <2>2, GroundsLater
  <2>4. t = Allowed(c)'
    BY <2>1, AllowedLater
  <2> QED
    BY <2>3, <2>4
<1>4. ASSUME Discovering(c), NEW t \in Times(c)' PROVE Grounds(c, t)'
  <2>1. t \in Times(c) /\ t \in Nat
    BY <1>0, TimesLater, AllowedIs
  <2>2. Grounds(c, t)
    BY <1>4, <2>1 DEF Underway
  <2> QED
    BY <2>1, <2>2, GroundsLater
<1>5. Discovering(c)' => Discovering(c)
  BY DEF Discovering
<1> QED
  BY <1>1, <1>2, <1>3, <1>4, <1>5 DEF Underway

LEMMA AskingLater ==
  ASSUME Onward, NEW c, Formed(c), Asking(c)
  PROVE  Asking(c)'
<1>1. c.limit \in Nat /\ c.limit <= now + 1 /\ c.began + 1 <= c.limit /\ c.url \in Sources!Places
  BY DEF Asking
<1>2. c.limit <= now' + 1
  BY <1>1, LaterFacts
<1>3. c.url = c.source \/ (c.url = "other" /\ MovedAt(c.source, Reach(c.limit, 1))')
  <2>1. Reach(c.limit, 1) \in Nat
    BY <1>1, ReachIs
  <2>2. MovedAt(c.source, Reach(c.limit, 1)) => MovedAt(c.source, Reach(c.limit, 1))'
    <3>1. PICK t \in Nat : t = Reach(c.limit, 1)
      BY <2>1
    <3>2. MovedAt(c.source, t) => MovedAt(c.source, t)'
      BY MovedLater
    <3>3. t = Reach(c.limit, 1)'
      BY <3>1 DEF Reach
    <3> QED
      BY <3>1, <3>2, <3>3
  <2> QED
    BY <2>2 DEF Asking
<1> QED
  BY <1>1, <1>2, <1>3 DEF Asking

LEMMA ReplyLater ==
  ASSUME Onward, NEW c, Asking(c), ReplyIs(c)
  PROVE  ReplyIs(c)'
<1>1. c.limit \in Nat /\ c.reply.expires \in Nat /\ 1 + c.reply.expires \in Nat
  BY AgesAre DEF Onward, Asking, ReplyIs
<1>2. PICK t : t = Reach(c.limit, 1 + c.reply.expires)
  OBVIOUS
<1>3. t \in Nat /\ SeenAt(c.url, c.reply.kind, c.reply.rev, t)
  BY <1>1, <1>2, ReachIs DEF ReplyIs
<1>4. SeenAt(c.url, c.reply.kind, c.reply.rev, t)'
  BY <1>3, SeenLater
<1>5. t = Reach(c.limit, 1 + c.reply.expires)'
  BY <1>2 DEF Reach
<1> QED
  BY <1>4, <1>5, LaterFacts DEF ReplyIs, Served

LEMMA ShownLater ==
  ASSUME Onward, NEW c, Formed(c), ShownAt(c, Allowed(c))
  PROVE  ShownAt(c, Allowed(c))'
BY AllowedIs, AllowedLater, SeenLater DEF Onward, ShownAt

LEMMA RememberedLater ==
  ASSUME Onward, NEW c, Formed(c), Remembered(c)
  PROVE  Remembered(c)'
<1>1. ShownAt(c, Allowed(c))'
  BY ShownLater DEF Remembered
<1>2. ASSUME NEW t \in Times(c)' PROVE Sources!Led(c.format, c.type, c.candidates, t)'
  <2>1. t \in Times(c) /\ t \in Nat
    BY TimesLater, AllowedIs DEF Onward
  <2>2. Sources!Led(c.format, c.type, c.candidates, t)
    BY <2>1 DEF Remembered
  <2> QED
    BY <2>1, <2>2, LedLater
<1> QED
  BY <1>1, <1>2 DEF Remembered, Locs

LEMMA ToldLater ==
  ASSUME Onward, NEW c, Formed(c), Told(c)
  PROVE  Told(c)'
<1>1. ShownAt(c, Allowed(c))'
  BY ShownLater DEF Told
<1>2. PICK t \in Nat : t = Allowed(c) /\ t = Allowed(c)'
  BY AllowedIs, AllowedLater DEF Onward
<1>3. Sources!Led(c.format, c.type, c.candidates, t) => Sources!Led(c.format, c.type, c.candidates, t)'
  BY LedLater
<1> QED
  BY <1>1, <1>2, <1>3 DEF Told

LEMMA CommandLater ==
  ASSUME Onward, NEW c, CommandIs(c)
  PROVE  CommandIs(c)'
<1>1. Formed(c) /\ Formed(c)'
  BY FormedLater DEF CommandIs
<1>2. c.at \in {"look", "ask", "store"} => Underway(c)'
  BY <1>1, UnderwayLater DEF CommandIs
<1>3. c.at \in {"ask", "store"} => Asking(c)'
  BY <1>1, AskingLater DEF CommandIs
<1>4. c.at = "ask" => RowKnown(c)'
  <2>1. SeenAt(c.row.final, c.row.kind, c.row.rev, 0) => SeenAt(c.row.final, c.row.kind, c.row.rev, 0)'
    BY SeenLater
  <2> QED
    BY <2>1 DEF CommandIs, RowKnown
<1>5. c.at = "store" => ReplyIs(c)'
  BY <1>1, ReplyLater DEF CommandIs
<1>6. c.at = "remember" => Remembered(c)'
  BY <1>1, RememberedLater DEF CommandIs
<1>7. c.at = "done" => Told(c)'
  BY <1>1, ToldLater DEF CommandIs
<1> QED
  BY <1>1, <1>2, <1>3, <1>4, <1>5, <1>6, <1>7 DEF CommandIs

LEMMA RowLater ==
  ASSUME Onward, NEW u, NEW d, RowIs(u, d)
  PROVE  RowIs(u, d)'
<1>1. CASE d.kind = "none"
  BY <1>1 DEF RowIs
<1>2. CASE d.kind # "none"
  <2>1. d.expires \in Nat /\ DocAt(u, d, 0) /\ (d.expires > now => DocAt(u, d, Since(d.expires)))
    BY <1>2 DEF RowIs
  <2>2. DocAt(u, d, 0)'
    BY <2>1, DocLater
  <2>3. d.expires > now' => d.expires > now
    BY <2>1, LaterFacts
  <2>4. d.expires > now => DocAt(u, d, Since(d.expires))'
    <3>1. PICK t \in Nat : t = Since(d.expires)
      BY <2>1, SinceIs
    <3>2. DocAt(u, d, t) => DocAt(u, d, t)'
      BY DocLater
    <3>3. t = Since(d.expires)'
      BY <3>1 DEF Since, Reach
    <3> QED
      BY <2>1, <3>1, <3>2, <3>3
  <2> QED
    BY <1>2, <2>1, <2>2, <2>3, <2>4 DEF RowIs
<1> QED
  BY <1>1, <1>2

LEMMA LocationLater ==
  ASSUME Onward, NEW f, NEW l, LocationIs(f, l)
  PROVE  LocationIs(f, l)'
<1>1. l.expires \in Nat
  BY DEF LocationIs
<1>2. l.expires > now' => l.expires > now
  BY <1>1, LaterFacts
<1>3. PICK t \in Nat : t = Since(l.expires)
  BY <1>1, SinceIs
<1>4. Sources!Led(f, l.type, l.candidates, t) => Sources!Led(f, l.type, l.candidates, t)'
  BY LedLater
<1>5. t = Since(l.expires)'
  BY <1>3 DEF Since, Reach
<1> QED
  BY <1>1, <1>2, <1>3, <1>4, <1>5 DEF LocationIs, Locs
-----------------------------------------------------------------------------
(* What a command does with a document.                                     *)

\* The same discovery, as far as its times go.
Same(c, d) ==
  /\ d.format = c.format /\ d.refresh = c.refresh /\ d.began = c.began

LEMMA SameAllowed ==
  ASSUME NEW c, NEW d, Same(c, d)
  PROVE  Allowed(d) = Allowed(c) /\ (d.expires = c.expires => Times(d) = Times(c))
BY DEF Same, Allowed, Sources!Slack, Times

\* PublicSourceDocuments.get is called.
LEMMA GetIs ==
  ASSUME NEW c, Formed(c), NEW step, NEW place \in Sources!Places
  PROVE  LET d == Sources!Get(c, step, place) IN
         /\ Formed(d) /\ Same(c, d) /\ d.at = "look" /\ d.step = step /\ d.source = place /\ d.url = place
         /\ d.expires = c.expires /\ d.found = c.found /\ d.reading = c.reading
         /\ d.type = c.type /\ d.candidates = c.candidates
BY DEF Formed, CommandFields, Same, Sources!Get

LEMMA NoCommandIs == OriginInv => CommandIs(Sources!NoCommand)
BY DEF OriginInv, CommandIs, Formed, CommandFields, Sources!NoCommand, Sources!Places

\* A result is ready to be remembered, or to be told.
LEMMA FoundIs ==
  ASSUME NEW c, Formed(c), NEW type, NEW candidates
  PROVE  LET d == Sources!Found(c, type, candidates) IN
         /\ Formed(d) /\ Same(c, d) /\ d.expires = c.expires /\ d.reading = c.reading /\ d.step = c.step
         /\ d.type = type /\ d.candidates = candidates
         /\ d.at = IF c.step \in {"exact", "linked", "located"} THEN "done" ELSE "remember"
BY DEF Formed, CommandFields, Same, Sources!Found, Sources!Places

LEMMA FoundToTell ==
  ASSUME OriginInv, NEW c, Formed(c), NEW type, NEW candidates, c.step \in {"exact", "linked", "located"},
         type # "ambiguous" => SeenAt(c.reading.final, c.reading.kind, c.reading.rev, Allowed(c)),
         c.step = "located" => Sources!Led(c.format, type, candidates, Allowed(c))
  PROVE  CommandIs(Sources!Found(c, type, candidates))
<1>1. PICK d : d = Sources!Found(c, type, candidates)
  OBVIOUS
<1>2. /\ Formed(d) /\ Same(c, d) /\ d.expires = c.expires /\ d.reading = c.reading /\ d.step = c.step
      /\ d.type = type /\ d.candidates = candidates /\ d.at = "done"
  BY <1>1, FoundIs
<1>3. Allowed(d) = Allowed(c) /\ d.format = c.format
  BY <1>2, SameAllowed DEF Same
<1>4. Told(d)
  BY <1>2, <1>3 DEF Told, ShownAt
<1> QED
  BY <1>1, <1>2, <1>4 DEF CommandIs

LEMMA FoundToRemember ==
  ASSUME OriginInv, NEW c, Formed(c), NEW type, NEW candidates, c.step \notin {"exact", "linked", "located"},
         candidates \in Locs, type = "odp" => candidates = {"odp"},
         type # "ambiguous" => SeenAt(c.reading.final, c.reading.kind, c.reading.rev, Allowed(c)),
         \A t \in Times(c) : Sources!Led(c.format, type, candidates, t)
  PROVE  CommandIs(Sources!Found(c, type, candidates))
<1>1. PICK d : d = Sources!Found(c, type, candidates)
  OBVIOUS
<1>2. /\ Formed(d) /\ Same(c, d) /\ d.expires = c.expires /\ d.reading = c.reading /\ d.step = c.step
      /\ d.type = type /\ d.candidates = candidates /\ d.at = "remember"
  BY <1>1, FoundIs
<1>3. Allowed(d) = Allowed(c) /\ d.format = c.format /\ Times(d) = Times(c)
  BY <1>2, SameAllowed DEF Same
<1>4. Remembered(d)
  BY <1>2, <1>3 DEF Remembered, ShownAt
<1> QED
  BY <1>1, <1>2, <1>4 DEF CommandIs

\* The steps whose results are remembered with what led to them.
Advertised == {"advertised", "v1"}

LEMMA ReadIs ==
  ASSUME OriginInv, NEW c, Formed(c), c.step \in {"exact", "linked", "located"} \cup Advertised,
         NEW doc, NEW candidates,
         SeenAt(doc.final, doc.kind, doc.rev, Allowed(c)),
         c.step = "located" => Sources!Led(c.format, "openapi", candidates, Allowed(c)),
         c.step \in Advertised =>
           candidates \in Locs /\ \A t \in Times(c) : Sources!Led(c.format, "openapi", candidates, t)
  PROVE  CommandIs(Sources!Read(c, doc, candidates))
<1>1. CASE doc.kind \notin Sources!Api
  BY <1>1, NoCommandIs DEF Sources!Read
<1>2. CASE doc.kind = "apiRef"
  <2>1. PICK g : g = Sources!Get(c, "reference", "schema")
    OBVIOUS
  <2>2. /\ Formed(g) /\ Same(c, g) /\ g.at = "look" /\ g.step = "reference" /\ g.source = "schema" /\ g.url = "schema"
        /\ g.expires = c.expires
    BY <2>1, GetIs DEF Sources!Places
  <2>3. PICK d : d = [g EXCEPT !.reading = doc, !.candidates = candidates, !.found = {c.step}]
    OBVIOUS
  <2>4. /\ Formed(d) /\ Same(c, d) /\ d.at = "look" /\ d.step = "reference" /\ d.source = "schema" /\ d.url = "schema"
        /\ d.expires = c.expires /\ d.reading = doc /\ d.candidates = candidates /\ d.found = {c.step}
    BY <2>2, <2>3 DEF Formed, CommandFields, Same
  <2>5. Sources!Read(c, doc, candidates) = d
    BY <1>2, <2>1, <2>3 DEF Sources!Read, Sources!Api
  <2>6. Allowed(d) = Allowed(c) /\ Times(d) = Times(c) /\ d.format = c.format /\ Allowed(c) \in Times(c)
    BY <2>4, SameAllowed DEF Same, Times
  <2>7. StepIs(d)
    BY <2>4 DEF StepIs, Advertised
  <2>8. ReadingSeen(d)
    BY <2>4, <2>6 DEF ReadingSeen
  <2>9. Grounds(d, Allowed(d))
    BY <2>4, <2>6 DEF Grounds, Advertised
  <2>10. Discovering(d) => \A t \in Times(d) : Grounds(d, t)
    <3>1. Discovering(d) => c.step \in Advertised
      BY <2>4 DEF Discovering, Advertised
    <3> QED
      BY <2>4, <2>6, <3>1 DEF Grounds
  <2> QED
    BY <2>4, <2>5, <2>7, <2>8, <2>9, <2>10 DEF CommandIs, Underway
<1>3. CASE doc.kind \in Sources!Api /\ doc.kind # "apiRef"
  <2>1. PICK g : g = [c EXCEPT !.reading = doc]
    OBVIOUS
  <2>2. Formed(g) /\ Same(c, g) /\ g.step = c.step /\ g.reading = doc /\ g.expires = c.expires
    BY <2>1 DEF Formed, CommandFields, Same
  <2>3. Sources!Read(c, doc, candidates) = Sources!Found(g, "openapi", candidates)
    BY <1>3, <2>1 DEF Sources!Read
  <2>4. Allowed(g) = Allowed(c) /\ Times(g) = Times(c) /\ g.format = c.format
    BY <2>2, SameAllowed DEF Same
  <2>5. CASE c.step \in Advertised
    <3>1. CommandIs(Sources!Found(g, "openapi", candidates))
      BY <2>2, <2>4, <2>5, FoundToRemember DEF Advertised
    <3> QED
      BY <2>3, <3>1
  <2>6. CASE c.step \in {"exact", "linked", "located"}
    <3>1. CommandIs(Sources!Found(g, "openapi", candidates))
      BY <2>2, <2>4, <2>6, FoundToTell
    <3> QED
      BY <2>3, <3>1
  <2> QED
    BY <2>5, <2>6
<1> QED
  BY <1>1, <1>2, <1>3

\* A document for a command: what it answers is so, and what it is remembered with.
DocFor(c, doc) ==
  /\ doc.expires \in Nat
  /\ DocAt(c.source, doc, Allowed(c))
  /\ doc.expires > now => DocAt(c.source, doc, Since(doc.expires))

\* A command goes on, and what it is for.
Alike(c, e) ==
  /\ Formed(e) /\ Same(c, e) /\ e.step = c.step /\ e.source = c.source /\ e.found = c.found
  /\ e.reading = c.reading /\ e.type = c.type /\ e.candidates = c.candidates

LEMMA EvidenceIs ==
  ASSUME OriginInv, NEW c, Formed(c), Underway(c), NEW doc, DocFor(c, doc)
  PROVE  LET e == Sources!Evidence(c, doc) IN
         /\ Alike(c, e) /\ Allowed(e) = Allowed(c) /\ Allowed(c) \in Times(e)
         /\ \A t \in Times(e) : t \in Nat /\ DocAt(c.source, doc, t) /\ (Discovering(c) => Grounds(c, t))
<1>1. PICK e : e = Sources!Evidence(c, doc)
  OBVIOUS
<1>2. e = [c EXCEPT !.keep = c.keep /\ doc.policy # "never",
                    !.expires = IF doc.expires < c.expires THEN doc.expires ELSE c.expires]
  BY <1>1 DEF Sources!Evidence, Formed, CommandFields
<1>3. /\ DOMAIN e = CommandFields /\ Same(c, e) /\ e.step = c.step /\ e.source = c.source /\ e.found = c.found
      /\ e.reading = c.reading /\ e.type = c.type /\ e.candidates = c.candidates
      /\ e.expires = IF doc.expires < c.expires THEN doc.expires ELSE c.expires
  BY <1>2 DEF Formed, CommandFields, Same
<1>4. c.expires \in Nat /\ doc.expires \in Nat /\ now \in Nat
  BY DEF Formed, DocFor, OriginInv
<1>5. e.expires \in Nat /\ e.expires <= doc.expires /\ e.expires <= c.expires
  BY <1>3, <1>4
<1>6. Alike(c, e)
  BY <1>3, <1>5 DEF Alike, Formed, Same
<1>7. Allowed(e) = Allowed(c) /\ Allowed(c) \in Nat
  BY <1>3, SameAllowed, AllowedIs
<1>8. Allowed(c) \in Times(e) /\ Allowed(c) \in Times(c)
  BY <1>7 DEF Times
<1>9. ASSUME NEW t \in Times(e)
      PROVE  t \in Nat /\ DocAt(c.source, doc, t) /\ (Discovering(c) => Grounds(c, t))
  <2>1. CASE t = Allowed(c)
    BY <1>7, <1>8, <2>1 DEF DocFor, Underway
  <2>2. CASE e.expires > now /\ t = Since(e.expires)
    <3>1. doc.expires > now /\ c.expires > now
      BY <1>4, <1>5, <2>2
    <3>2. PICK a : a = Since(doc.expires)
      OBVIOUS
    <3>3. PICK b : b = Since(c.expires)
      OBVIOUS
    <3>4. t \in Nat /\ a \in Nat /\ b \in Nat /\ t <= a /\ t <= b
      BY <1>4, <1>5, <2>2, <3>2, <3>3, SinceIs, SinceGrows
    <3>5. DocAt(c.source, doc, a)
      BY <3>1, <3>2 DEF DocFor
    <3>6. Discovering(c) => Grounds(c, b)
      BY <3>1, <3>3 DEF Underway, Times
    <3> QED
      BY <3>4, <3>5, <3>6, DocEarlier, GroundsEarlier
  <2> QED
    BY <1>7, <2>1, <2>2 DEF Times
<1> QED
  BY <1>1, <1>6, <1>7, <1>8, <1>9
\* Why a discovery asks for its next document.
Why(format, found, step, t) ==
  /\ step = "x402" => NoOdp(format, t)
  /\ step = "api" => NoOdp(format, t) /\ NoLink(t)
  /\ step = "v1" => NoOdp(format, t) /\ NoLink(t) /\ Conventionally("api", found, t)
  /\ step = "advertised" => Sources!Led(format, "openapi", {"other"}, t)

LEMMA GetNext ==
  ASSUME OriginInv, NEW e, Formed(e), NEW step, NEW place \in Sources!Places,
         step \in {"native", "x402", "api", "v1", "advertised", "exact", "linked"},
         step = "native" => place = "odp",
         step \in {"x402", "api", "v1"} => place = step,
         step \in {"native", "x402", "api"} => e.found = {},
         step = "v1" =>
           /\ e.found \in {{}, {"api"}}
           /\ e.found # {} => SeenAt(e.reading.final, e.reading.kind, e.reading.rev, Allowed(e)),
         \A t \in Times(e) : Why(e.format, e.found, step, t)
  PROVE  CommandIs(Sources!Get(e, step, place))
<1>1. PICK d : d = Sources!Get(e, step, place)
  OBVIOUS
<1>2. /\ Formed(d) /\ Same(e, d) /\ d.at = "look" /\ d.step = step /\ d.source = place /\ d.url = place
      /\ d.expires = e.expires /\ d.found = e.found /\ d.reading = e.reading
  BY <1>1, GetIs
<1>3. Allowed(d) = Allowed(e) /\ Times(d) = Times(e) /\ Allowed(e) \in Times(e) /\ d.format = e.format
  BY <1>2, SameAllowed DEF Same, Times
<1>4. StepIs(d)
  BY <1>2 DEF StepIs
<1>5. ReadingSeen(d)
  BY <1>2, <1>3 DEF ReadingSeen
<1>6. \A t \in Times(e) : Grounds(d, t)
  BY <1>2, <1>3 DEF Why, Grounds
<1> QED
  BY <1>1, <1>2, <1>3, <1>4, <1>5, <1>6 DEF CommandIs, Underway

LEMMA FromNative ==
  ASSUME OriginInv, NEW c, Formed(c), Underway(c), NEW doc, DocFor(c, doc), c.step = "native"
  PROVE  CommandIs(Sources!Continue(c, doc))
<1>1. PICK e : e = Sources!Evidence(c, doc)
  OBVIOUS
<1>2. /\ Alike(c, e) /\ Allowed(e) = Allowed(c) /\ Allowed(c) \in Times(e)
      /\ \A t \in Times(e) : t \in Nat /\ DocAt("odp", doc, t)
  <2>1. c.source = "odp"
    BY DEF Underway, StepIs
  <2> QED
    BY <1>1, <2>1, EvidenceIs
<1>3. Formed(e) /\ e.step = "native" /\ e.found = {} /\ e.format = c.format
  BY <1>2 DEF Alike, Same, Underway, StepIs
<1>4. CASE doc.kind = "gone"
  <2>1. Sources!Continue(c, doc) = Sources!Get(e, "x402", "x402")
    BY <1>1, <1>4 DEF Sources!Continue, Sources!Odp
  <2>2. \A t \in Times(e) : Why(e.format, e.found, "x402", t)
    BY <1>2, <1>4, DocWas DEF Why, NoOdp
  <2>3. CommandIs(Sources!Get(e, "x402", "x402"))
    BY <1>3, <2>2, GetNext DEF Sources!Places
  <2> QED
    BY <2>1, <2>3
<1>5. CASE doc.kind \notin Sources!Odp \cup {"gone"}
  <2>1. Sources!Continue(c, doc) = Sources!NoCommand
    BY <1>5 DEF Sources!Continue
  <2> QED
    BY <2>1, NoCommandIs
<1>6. CASE doc.kind \in Sources!Odp /\ c.format = "auto"
  <2>1. PICK g : g = [e EXCEPT !.reading = doc]
    OBVIOUS
  <2>2. Sources!Continue(c, doc) = Sources!Found(g, "odp", {"odp"})
    BY <1>1, <1>6, <2>1 DEF Sources!Continue, Sources!Odp
  <2>3. Formed(g) /\ Same(e, g) /\ g.step = "native" /\ g.reading = doc /\ g.expires = e.expires
    BY <1>3, <2>1 DEF Formed, CommandFields, Same
  <2>4. Allowed(g) = Allowed(e) /\ Times(g) = Times(e)
    BY <2>3, SameAllowed
  <2>5. SeenAt(g.reading.final, g.reading.kind, g.reading.rev, Allowed(g))
    BY <1>2, <2>3, <2>4 DEF DocAt
  <2>6. \A t \in Times(g) : Sources!Led(g.format, "odp", {"odp"}, t)
    BY <1>2, <1>6, <2>4, DocWas DEF Sources!Led
  <2>7. CommandIs(Sources!Found(g, "odp", {"odp"}))
    BY <2>3, <2>5, <2>6, FoundToRemember DEF Locs
  <2> QED
    BY <2>2, <2>7
<1>7. CASE c.format # "auto" /\ doc.kind = "odpApi"
  <2>1. Sources!Continue(c, doc) = Sources!Get(e, "advertised", "other")
    BY <1>1, <1>7 DEF Sources!Continue, Sources!Odp
  <2>2. e.format = "openapi"
    BY <1>3, <1>7 DEF Formed
  <2>3. \A t \in Times(e) : Why(e.format, e.found, "advertised", t)
    BY <1>2, <1>7, <2>2, DocWas DEF Why, Sources!Led
  <2>4. CommandIs(Sources!Get(e, "advertised", "other"))
    BY <1>3, <2>3, GetNext DEF Sources!Places
  <2> QED
    BY <2>1, <2>4
<1>8. CASE c.format # "auto" /\ doc.kind = "odp"
  <2>1. Sources!Continue(c, doc) = Sources!Get(e, "x402", "x402")
    BY <1>1, <1>8 DEF Sources!Continue, Sources!Odp
  <2>2. e.format = "openapi"
    BY <1>3, <1>8 DEF Formed
  <2>3. \A t \in Times(e) : Why(e.format, e.found, "x402", t)
    BY <1>2, <1>8, <2>2, DocWas DEF Why, NoOdp
  <2>4. CommandIs(Sources!Get(e, "x402", "x402"))
    BY <1>3, <2>3, GetNext DEF Sources!Places
  <2> QED
    BY <2>1, <2>4
<1> QED
  BY <1>4, <1>5, <1>6, <1>7, <1>8 DEF Sources!Odp

LEMMA FromX402 ==
  ASSUME OriginInv, NEW c, Formed(c), Underway(c), NEW doc, DocFor(c, doc), c.step = "x402"
  PROVE  CommandIs(Sources!Continue(c, doc))
<1>1. PICK e : e = Sources!Evidence(c, doc)
  OBVIOUS
<1>2. /\ Alike(c, e) /\ Allowed(e) = Allowed(c) /\ Allowed(c) \in Times(e)
      /\ \A t \in Times(e) : t \in Nat /\ DocAt("x402", doc, t) /\ NoOdp(e.format, t)
  <2>1. c.source = "x402" /\ Discovering(c)
    BY DEF Underway, StepIs, Discovering
  <2>2. Alike(c, e) /\ \A t \in Times(e) : t \in Nat /\ DocAt("x402", doc, t) /\ Grounds(c, t)
    BY <1>1, <2>1, EvidenceIs
  <2>3. e.format = c.format
    BY <2>2 DEF Alike, Same
  <2> QED
    BY <1>1, <2>2, <2>3, EvidenceIs DEF Grounds
<1>3. Formed(e) /\ e.step = "x402" /\ e.found = {} /\ e.format = c.format
  BY <1>2 DEF Alike, Same, Underway, StepIs
<1>4. CASE doc.kind = "link"
  <2>1. Sources!Continue(c, doc) = Sources!Get(e, "advertised", "other")
    BY <1>1, <1>4 DEF Sources!Continue
  <2>2. \A t \in Times(e) : Why(e.format, e.found, "advertised", t)
    BY <1>2, <1>4, DocWas DEF Why, Sources!Led, NoOdp
  <2>3. CommandIs(Sources!Get(e, "advertised", "other"))
    BY <1>3, <2>2, GetNext DEF Sources!Places
  <2> QED
    BY <2>1, <2>3
<1>5. CASE doc.kind # "link"
  <2>1. Sources!Continue(c, doc) = Sources!Get(e, "api", "api")
    BY <1>1, <1>5 DEF Sources!Continue
  <2>2. doc.kind \in Sources!Kinds \ {"link", "moved", "error"}
    BY <1>5 DEF DocFor, DocAt, Served
  <2>3. \A t \in Times(e) : Why(e.format, e.found, "api", t)
    BY <1>2, <2>2, DocWas DEF Why, NoLink
  <2>4. CommandIs(Sources!Get(e, "api", "api"))
    BY <1>3, <2>3, GetNext DEF Sources!Places
  <2> QED
    BY <2>1, <2>4
<1> QED
  BY <1>4, <1>5

\* The conventional places: what is found there, and which is read.
LEMMA ConventionalIs ==
  ASSUME NEW e, Formed(e), NEW doc
  PROVE  LET f == Sources!Conventional(e, doc) IN
         /\ Formed(f) /\ Same(e, f) /\ f.step = e.step /\ f.expires = e.expires
         /\ f.found = IF doc.kind \in Sources!Api THEN e.found \cup {e.step} ELSE e.found
         /\ f.reading = IF doc.kind \in Sources!Api THEN doc ELSE e.reading
BY DEF Formed, CommandFields, Same, Sources!Conventional

LEMMA ConventionallyIs ==
  ASSUME NEW u, NEW doc, NEW t, DocAt(u, doc, t), NEW found, (u \in found) <=> (doc.kind \in Sources!Api)
  PROVE  Conventionally(u, found, t)
<1>1. doc.kind \in Sources!Kinds \ {"moved", "error"}
  BY DEF DocAt, Served
<1>2. CASE doc.kind \in Sources!Api
  BY <1>2, DocWas DEF Conventionally
<1>3. CASE doc.kind \notin Sources!Api
  <2>1. doc.kind \in Sources!Kinds \ (Sources!Api \cup {"moved", "error"})
    BY <1>1, <1>3
  <2> QED
    BY <1>3, <2>1, DocWas DEF Conventionally
<1> QED
  BY <1>2, <1>3

LEMMA FromApi ==
  ASSUME OriginInv, NEW c, Formed(c), Underway(c), NEW doc, DocFor(c, doc), c.step = "api"
  PROVE  CommandIs(Sources!Continue(c, doc))
<1>1. PICK e : e = Sources!Evidence(c, doc)
  OBVIOUS
<1>2. /\ Alike(c, e) /\ Allowed(e) = Allowed(c) /\ Allowed(c) \in Times(e)
      /\ \A t \in Times(e) : t \in Nat /\ DocAt("api", doc, t) /\ NoOdp(e.format, t) /\ NoLink(t)
  <2>1. c.source = "api" /\ Discovering(c)
    BY DEF Underway, StepIs, Discovering
  <2>2. Alike(c, e) /\ \A t \in Times(e) : t \in Nat /\ DocAt("api", doc, t) /\ Grounds(c, t)
    BY <1>1, <2>1, EvidenceIs
  <2>3. e.format = c.format
    BY <2>2 DEF Alike, Same
  <2> QED
    BY <1>1, <2>2, <2>3, EvidenceIs DEF Grounds
<1>3. Formed(e) /\ e.step = "api" /\ e.found = {} /\ e.format = c.format
  BY <1>2 DEF Alike, Same, Underway, StepIs
<1>4. PICK f : f = Sources!Conventional(e, doc)
  OBVIOUS
<1>5. /\ Formed(f) /\ Same(e, f) /\ f.expires = e.expires
      /\ f.found = IF doc.kind \in Sources!Api THEN {"api"} ELSE {}
      /\ f.reading = IF doc.kind \in Sources!Api THEN doc ELSE e.reading
  BY <1>3, <1>4, ConventionalIs
<1>6. Allowed(f) = Allowed(e) /\ Times(f) = Times(e) /\ f.format = e.format
  BY <1>5, SameAllowed DEF Same
<1>7. Sources!Continue(c, doc) = Sources!Get(f, "v1", "v1")
  BY <1>1, <1>4 DEF Sources!Continue
<1>8. f.found \in {{}, {"api"}} /\ (("api" \in f.found) <=> doc.kind \in Sources!Api)
  BY <1>5
<1>9. \A t \in Times(f) : Why(f.format, f.found, "v1", t)
  BY <1>2, <1>6, <1>8, ConventionallyIs DEF Why
<1>10. f.found # {} => SeenAt(f.reading.final, f.reading.kind, f.reading.rev, Allowed(f))
  BY <1>2, <1>5, <1>6 DEF DocAt
<1>11. CommandIs(Sources!Get(f, "v1", "v1"))
  BY <1>5, <1>8, <1>9, <1>10, GetNext DEF Sources!Places
<1> QED
  BY <1>7, <1>11
\* The conventional places, when both have answered, led to what was found there.
LEMMA LedByConvention ==
  ASSUME NEW format, NEW found, found \in {{"api"}, {"v1"}, {"api", "v1"}}, NEW type, type # "odp", NEW t,
         NoOdp(format, t), NoLink(t), Conventionally("api", found, t), Conventionally("v1", found, t)
  PROVE  Sources!Led(format, type, found, t)
<1>1. found # {"other"}
  OBVIOUS
<1> QED
  BY <1>1 DEF Sources!Led, NoOdp, NoLink, Conventionally

LEMMA FromV1 ==
  ASSUME OriginInv, NEW c, Formed(c), Underway(c), NEW doc, DocFor(c, doc), c.step = "v1"
  PROVE  CommandIs(Sources!Continue(c, doc))
<1>1. PICK e : e = Sources!Evidence(c, doc)
  OBVIOUS
<1>2. /\ Alike(c, e) /\ Allowed(e) = Allowed(c) /\ Allowed(c) \in Times(e)
      /\ \A t \in Times(e) : /\ t \in Nat /\ DocAt("v1", doc, t) /\ NoOdp(e.format, t) /\ NoLink(t)
                             /\ Conventionally("api", e.found, t)
  <2>1. c.source = "v1" /\ Discovering(c)
    BY DEF Underway, StepIs, Discovering
  <2>2. Alike(c, e) /\ \A t \in Times(e) : t \in Nat /\ DocAt("v1", doc, t) /\ Grounds(c, t)
    BY <1>1, <2>1, EvidenceIs
  <2>3. e.format = c.format /\ e.found = c.found
    BY <2>2 DEF Alike, Same
  <2> QED
    BY <1>1, <2>2, <2>3, EvidenceIs DEF Grounds
<1>3. /\ Formed(e) /\ e.step = "v1" /\ e.found \in {{}, {"api"}}
      /\ e.found # {} => SeenAt(e.reading.final, e.reading.kind, e.reading.rev, Allowed(e))
  BY <1>2 DEF Alike, Same, Underway, StepIs, ReadingSeen
<1>4. PICK f : f = Sources!Conventional(e, doc)
  OBVIOUS
<1>5. /\ Formed(f) /\ Same(e, f) /\ f.expires = e.expires /\ f.step = "v1"
      /\ f.found = IF doc.kind \in Sources!Api THEN e.found \cup {"v1"} ELSE e.found
      /\ f.reading = IF doc.kind \in Sources!Api THEN doc ELSE e.reading
  BY <1>3, <1>4, ConventionalIs
<1>6. Allowed(f) = Allowed(e) /\ Times(f) = Times(e) /\ f.format = e.format
  BY <1>5, SameAllowed DEF Same
<1>7. Sources!Continue(c, doc) = Sources!Choose(f)
  BY <1>1, <1>4 DEF Sources!Continue
<1>8. /\ f.found \in {{}, {"api"}, {"v1"}, {"api", "v1"}}
      /\ ("v1" \in f.found) <=> doc.kind \in Sources!Api
      /\ ("api" \in f.found) <=> ("api" \in e.found)
  BY <1>3, <1>5
<1>9. ASSUME NEW t \in Times(f)
      PROVE  NoOdp(f.format, t) /\ NoLink(t) /\ Conventionally("api", f.found, t) /\ Conventionally("v1", f.found, t)
  <2>1. DocAt("v1", doc, t) /\ NoOdp(f.format, t) /\ NoLink(t) /\ Conventionally("api", e.found, t)
    BY <1>2, <1>6, <1>9
  <2>2. Conventionally("v1", f.found, t)
    BY <1>8, <2>1, ConventionallyIs
  <2>3. Conventionally("api", f.found, t)
    BY <1>8, <2>1 DEF Conventionally
  <2> QED
    BY <2>1, <2>2, <2>3
<1>10. f.found # {} => SeenAt(f.reading.final, f.reading.kind, f.reading.rev, Allowed(f))
  BY <1>2, <1>3, <1>5, <1>6 DEF DocAt
<1>11. CASE f.found = {}
  BY <1>7, <1>11, NoCommandIs DEF Sources!Choose
<1>12. CASE f.found = {"api", "v1"}
  <2>1. Sources!Choose(f) = Sources!Found(f, "ambiguous", {"api", "v1"})
    BY <1>12 DEF Sources!Choose
  <2>2. \A t \in Times(f) : Sources!Led(f.format, "ambiguous", {"api", "v1"}, t)
    BY <1>9, <1>12, LedByConvention
  <2>3. CommandIs(Sources!Found(f, "ambiguous", {"api", "v1"}))
    BY <1>5, <2>2, FoundToRemember DEF Locs
  <2> QED
    BY <1>7, <2>1, <2>3
<1>13. CASE f.found \in {{"api"}, {"v1"}}
  <2>1. f.found # {} /\ f.found # {"api", "v1"}
    BY <1>13
  <2>2. Sources!Choose(f) = Sources!Read(f, f.reading, f.found)
    BY <2>1 DEF Sources!Choose
  <2>3. PICK b \in Locs : b = f.found
    BY <1>13 DEF Locs
  <2>4. \A t \in Times(f) : Sources!Led(f.format, "openapi", b, t)
    BY <1>9, <1>13, <2>3, LedByConvention
  <2>5. PICK r : r = f.reading
    OBVIOUS
  <2>6. SeenAt(r.final, r.kind, r.rev, Allowed(f))
    BY <1>10, <2>1, <2>5
  <2>7. CommandIs(Sources!Read(f, r, b))
    BY <1>5, <2>4, <2>6, ReadIs DEF Advertised
  <2> QED
    BY <1>7, <2>2, <2>3, <2>5, <2>7
<1> QED
  BY <1>8, <1>11, <1>12, <1>13

LEMMA FromAdvertised ==
  ASSUME OriginInv, NEW c, Formed(c), Underway(c), NEW doc, DocFor(c, doc), c.step = "advertised"
  PROVE  CommandIs(Sources!Continue(c, doc))
<1>1. PICK e : e = Sources!Evidence(c, doc)
  OBVIOUS
<1>2. /\ Alike(c, e) /\ Allowed(e) = Allowed(c) /\ Allowed(c) \in Times(e)
      /\ \A t \in Times(e) : DocAt(c.source, doc, t) /\ Grounds(c, t)
  <2>1. Discovering(c)
    BY DEF Discovering
  <2> QED
    BY <1>1, <2>1, EvidenceIs
<1>3. Formed(e) /\ e.step = "advertised" /\ e.format = c.format
  BY <1>2 DEF Alike, Same
<1>4. \A t \in Times(e) : Sources!Led(e.format, "openapi", {"other"}, t)
  BY <1>2, <1>3 DEF Grounds
<1>5. SeenAt(doc.final, doc.kind, doc.rev, Allowed(e))
  BY <1>2 DEF DocAt
<1>6. CommandIs(Sources!Read(e, doc, {"other"}))
  BY <1>3, <1>4, <1>5, ReadIs DEF Locs, Advertised
<1>7. Sources!Continue(c, doc) = Sources!Read(e, doc, {"other"})
  BY <1>1 DEF Sources!Continue
<1> QED
  BY <1>6, <1>7

LEMMA FromReference ==
  ASSUME OriginInv, NEW c, Formed(c), Underway(c), NEW doc, DocFor(c, doc), c.step = "reference"
  PROVE  CommandIs(Sources!Continue(c, doc))
<1>1. CASE doc.kind = "gone"
  <2>1. Sources!Continue(c, doc) = Sources!NoCommand
    BY <1>1 DEF Sources!Continue
  <2> QED
    BY <2>1, NoCommandIs
<1>2. CASE doc.kind # "gone"
  <2>1. PICK x \in {"exact", "linked", "located", "advertised", "v1"} : c.found = {x}
    BY DEF Underway, StepIs
  <2>2. (CHOOSE s \in c.found : TRUE) = x
    BY <2>1
  <2>3. PICK g : g = [c EXCEPT !.step = x]
    OBVIOUS
  <2>4. /\ Formed(g) /\ Same(c, g) /\ g.step = x /\ g.expires = c.expires /\ g.reading = c.reading
    BY <2>3 DEF Formed, CommandFields, Same
  <2>5. PICK b : b = c.candidates
    OBVIOUS
  <2>6. Sources!Continue(c, doc) = Sources!Found(g, "openapi", b)
    <3>1. [c EXCEPT !.step = CHOOSE s \in c.found : TRUE] = g
      BY <2>2, <2>3
    <3> QED
      BY <1>2, <2>5, <3>1 DEF Sources!Continue
  <2>7. Allowed(g) = Allowed(c) /\ Times(g) = Times(c) /\ g.format = c.format
    BY <2>4, SameAllowed DEF Same
  <2>8. SeenAt(g.reading.final, g.reading.kind, g.reading.rev, Allowed(g))
    BY <2>4, <2>7 DEF Underway, ReadingSeen
  <2>9. CASE x \in {"exact", "linked", "located"}
    <3>1. x = "located" => Sources!Led(g.format, "openapi", b, Allowed(g))
      BY <2>1, <2>5, <2>7 DEF Underway, Grounds
    <3>2. CommandIs(Sources!Found(g, "openapi", b))
      BY <2>4, <2>8, <2>9, <3>1, FoundToTell
    <3> QED
      BY <2>6, <3>2
  <2>10. CASE x \in {"advertised", "v1"}
    <3>1. Discovering(c) /\ b \in Locs
      BY <2>1, <2>5, <2>10 DEF Discovering, Underway, StepIs
    <3>2. \A t \in Times(g) : Sources!Led(g.format, "openapi", b, t)
      BY <2>1, <2>5, <2>7, <2>10, <3>1 DEF Underway, Grounds
    <3>3. CommandIs(Sources!Found(g, "openapi", b))
      BY <2>4, <2>8, <2>10, <3>1, <3>2, FoundToRemember
    <3> QED
      BY <2>6, <3>3
  <2> QED
    BY <2>9, <2>10
<1> QED
  BY <1>1, <1>2

\* An exact document is of whoever answered, and is not remembered.
LEMMA FromExact ==
  ASSUME OriginInv, NEW c, Formed(c), Underway(c), NEW doc, DocFor(c, doc), c.step \in {"exact", "linked"}
  PROVE  CommandIs(Sources!Continue(c, doc))
<1>1. SeenAt(doc.final, doc.kind, doc.rev, Allowed(c))
  BY DEF DocFor, DocAt
<1>3. CASE c.step = "linked"
  <2>1. Sources!Continue(c, doc) = Sources!Read(c, doc, {"other"})
    BY <1>3 DEF Sources!Continue
  <2>2. CommandIs(Sources!Read(c, doc, {"other"}))
    BY <1>1, ReadIs DEF Advertised
  <2> QED
    BY <2>1, <2>2
<1>4. CASE c.step = "exact" /\ doc.kind \in Sources!Odp /\ c.format = "auto"
  <2>1. PICK g : g = [c EXCEPT !.reading = doc]
    OBVIOUS
  <2>2. PICK b : b = {c.source}
    OBVIOUS
  <2>3. Sources!Continue(c, doc) = Sources!Found(g, "odp", b)
    BY <1>4, <2>1, <2>2 DEF Sources!Continue
  <2>4. Formed(g) /\ Same(c, g) /\ g.step = "exact" /\ g.reading = doc /\ g.expires = c.expires
    BY <1>4, <2>1 DEF Formed, CommandFields, Same
  <2>5. SeenAt(g.reading.final, g.reading.kind, g.reading.rev, Allowed(g))
    BY <1>1, <2>4, SameAllowed
  <2>6. CommandIs(Sources!Found(g, "odp", b))
    BY <2>4, <2>5, FoundToTell
  <2> QED
    BY <2>3, <2>6
<1>5. CASE c.step = "exact" /\ ~(doc.kind \in Sources!Odp /\ c.format = "auto") /\ c.source = "x402" /\ doc.kind = "link"
  <2>1. Sources!Continue(c, doc) = Sources!Get(c, "linked", "other")
    BY <1>5 DEF Sources!Continue
  <2>2. \A t \in Times(c) : Why(c.format, c.found, "linked", t)
    BY DEF Why
  <2>3. CommandIs(Sources!Get(c, "linked", "other"))
    BY <2>2, GetNext DEF Sources!Places
  <2> QED
    BY <2>1, <2>3
<1>6. CASE c.step = "exact" /\ ~(doc.kind \in Sources!Odp /\ c.format = "auto") /\ ~(c.source = "x402" /\ doc.kind = "link")
  <2>1. PICK b : b = {c.source}
    OBVIOUS
  <2>2. Sources!Continue(c, doc) = Sources!Read(c, doc, b)
    BY <1>6, <2>1 DEF Sources!Continue
  <2>3. CommandIs(Sources!Read(c, doc, b))
    BY <1>1, <1>6, ReadIs DEF Advertised
  <2> QED
    BY <2>2, <2>3
<1> QED
  BY <1>3, <1>4, <1>5, <1>6

\* A document of where one was before.
LEMMA FromLocated ==
  ASSUME OriginInv, NEW c, Formed(c), Underway(c), NEW doc, DocFor(c, doc), c.step = "located"
  PROVE  CommandIs(Sources!Continue(c, doc))
<1>1. SeenAt(doc.final, doc.kind, doc.rev, Allowed(c))
  BY DEF DocFor, DocAt
<1>2. Sources!Led(c.format, c.type, c.candidates, Allowed(c))
  BY DEF Underway, Grounds
<1>3. PICK b : b = c.candidates
  OBVIOUS
<1>4. CASE c.type = "odp" /\ doc.kind \in Sources!Odp
  <2>1. PICK g : g = [c EXCEPT !.reading = doc]
    OBVIOUS
  <2>2. Sources!Continue(c, doc) = Sources!Found(g, "odp", b)
    BY <1>3, <1>4, <2>1 DEF Sources!Continue
  <2>3. Formed(g) /\ Same(c, g) /\ g.step = "located" /\ g.reading = doc /\ g.expires = c.expires
    BY <2>1 DEF Formed, CommandFields, Same
  <2>4. SeenAt(g.reading.final, g.reading.kind, g.reading.rev, Allowed(g))
    BY <1>1, <2>3, SameAllowed
  <2>5. Sources!Led(g.format, "odp", b, Allowed(g))
    BY <1>2, <1>3, <1>4, <2>3, SameAllowed DEF Same
  <2>6. CommandIs(Sources!Found(g, "odp", b))
    BY <2>3, <2>4, <2>5, FoundToTell
  <2> QED
    BY <2>2, <2>6
<1>5. CASE c.type = "odp" /\ doc.kind \notin Sources!Odp
  <2>1. Sources!Continue(c, doc) = Sources!NoCommand
    BY <1>5 DEF Sources!Continue
  <2> QED
    BY <2>1, NoCommandIs
<1>6. CASE c.type # "odp"
  <2>1. Sources!Continue(c, doc) = Sources!Read(c, doc, b)
    BY <1>3, <1>6 DEF Sources!Continue
  <2>2. Sources!Led(c.format, "openapi", b, Allowed(c))
    BY <1>2, <1>3, <1>6 DEF Sources!Led
  <2>3. CommandIs(Sources!Read(c, doc, b))
    BY <1>1, <2>2, ReadIs DEF Advertised
  <2> QED
    BY <2>1, <2>3
<1> QED
  BY <1>4, <1>5, <1>6

LEMMA Continued ==
  ASSUME OriginInv, NEW c, Formed(c), Underway(c), NEW doc, DocFor(c, doc)
  PROVE  CommandIs(Sources!Continue(c, doc))
<1>1. c.step \in {"native", "x402", "api", "v1", "advertised", "reference", "exact", "linked", "located"}
  BY DEF Underway, StepIs
<1> QED
  BY <1>1, FromNative, FromX402, FromApi, FromV1, FromAdvertised, FromReference, FromExact, FromLocated
-----------------------------------------------------------------------------
(* The steps of a process.  Each leaves the origin and the clock alone, and *)
(* what it adds is so already.                                              *)

\* What the other steps rely on.
Stays == UNCHANGED <<sites, site, until, now, ages>>

LEMMA StaysOnward ==
  ASSUME OriginInv, Stays, work' \in [Readers -> Seq(Sources!Requests)]
  PROVE  Onward
<1>1. OriginInv'
  BY DEF OriginInv, Stays
<1>2. ASSUME NEW s \in 1..site PROVE Sources!Ended(s) <= Sources!Ended(s)'
  <2>1. Sources!Ended(s)' = Sources!Ended(s) /\ Sources!Ended(s) \in Nat
    BY EndedIs DEF Stays, Sources!Ended
  <2> QED
    BY <2>1
<1>3. site <= site' /\ now <= now'
  BY DEF OriginInv, Stays
<1> QED
  BY <1>1, <1>2, <1>3 DEF Onward, Stays

\* A command that becomes what is so.
LEMMA BecomesGood ==
  ASSUME SourcesInv, Onward, UNCHANGED <<cache, location>>, NEW p \in Readers, NEW d, CommandIs(d),
         look' = [look EXCEPT ![p] = d]
  PROVE  SourcesInv'
<1>1. OriginInv'
  BY DEF Onward
<1>2. DOMAIN cache' = Sources!Places /\ \A u \in Sources!Places : RowIs(u, cache[u])'
  BY RowLater DEF SourcesInv
<1>3. DOMAIN location' = {"auto", "openapi"} /\ \A f \in {"auto", "openapi"} : LocationIs(f, location[f])'
  BY LocationLater DEF SourcesInv
<1>4. DOMAIN look' = Readers
  BY DEF SourcesInv
<1>5. ASSUME NEW q \in Readers PROVE CommandIs(look[q])'
  <2>1. PICK e : e = look'[q]
    OBVIOUS
  <2>2. CommandIs(e)
    BY <2>1 DEF SourcesInv
  <2>3. CommandIs(e)'
    BY <2>2, CommandLater
  <2> QED
    BY <2>1, <2>3
<1> QED
  BY <1>1, <1>2, <1>3, <1>4, <1>5 DEF SourcesInv

LEMMA BeginGood ==
  ASSUME SourcesInv, NEW p \in Readers, Sources!Begin(p)
  PROVE  SourcesInv'
<1>1. OriginInv /\ work[p] \in Seq(Sources!Requests) /\ work[p] # <<>>
  BY DEF SourcesInv, OriginInv, Sources!Begin
<1>2. PICK r \in Sources!Requests : r = Head(work[p])
  BY <1>1
<1>3. work' \in [Readers -> Seq(Sources!Requests)]
  <2>1. Tail(work[p]) \in Seq(Sources!Requests)
    BY <1>1
  <2> QED
    BY <2>1 DEF Sources!Begin, SourcesInv, OriginInv
<1>4. Onward
  BY <1>1, <1>3, StaysOnward DEF Sources!Begin, Sources!origin, Stays
<1>5. PICK n : n = Sources!NoCommand
  OBVIOUS
<1>6. PICK c : c = [n EXCEPT !.format = r.format, !.refresh = r.refresh, !.began = now, !.expires = MaxTime + Life]
  OBVIOUS
<1>7. Formed(c) /\ c.found = {}
  <2>1. DOMAIN n = CommandFields /\ n.source = "odp" /\ n.found = {}
    BY <1>5 DEF Sources!NoCommand, CommandFields
  <2>2. MaxTime + Life \in Nat /\ now \in Nat
    BY <1>1, ConstantsAre DEF OriginInv
  <2>3. r.format \in {"auto", "openapi"} /\ r.refresh \in BOOLEAN
    BY <1>2 DEF Sources!Requests
  <2> QED
    BY <1>6, <2>1, <2>2, <2>3 DEF Formed, CommandFields, Sources!Places
<1>8. CASE r.of = "origin"
  <2>1. PICK d : d = [c EXCEPT !.at = "location"]
    OBVIOUS
  <2>2. look' = [look EXCEPT ![p] = d]
    BY <1>2, <1>5, <1>6, <1>8, <2>1 DEF Sources!Begin, Sources!Become
  <2>3. CommandIs(d)
    <3>1. d.at = "location" /\ Formed(d) /\ d.found = {}
      BY <1>7, <2>1 DEF Formed, CommandFields
    <3> QED
      BY <3>1 DEF CommandIs
  <2> QED
    BY <1>4, <2>2, <2>3, BecomesGood DEF Sources!Begin
<1>9. CASE r.of # "origin"
  <2>1. r.of \in Sources!Places
    BY <1>2, <1>9 DEF Sources!Requests
  <2>2. \A t \in Times(c) : Why(c.format, c.found, "exact", t)
    BY DEF Why
  <2>3. PICK d : d = Sources!Get(c, "exact", r.of)
    OBVIOUS
  <2>4. CommandIs(d)
    BY <1>1, <1>7, <2>1, <2>2, <2>3, GetNext
  <2>5. look' = [look EXCEPT ![p] = d]
    BY <1>2, <1>5, <1>6, <1>9, <2>3 DEF Sources!Begin, Sources!Become
  <2> QED
    BY <1>4, <2>4, <2>5, BecomesGood DEF Sources!Begin
<1> QED
  BY <1>8, <1>9

\* The work of the others is unchanged.
LEMMA OthersOnward ==
  ASSUME SourcesInv, Stays, UNCHANGED work
  PROVE  Onward
BY StaysOnward DEF SourcesInv, OriginInv

LEMMA ReadLocationGood ==
  ASSUME SourcesInv, NEW p \in Readers, Sources!ReadLocation(p)
  PROVE  SourcesInv'
<1>1. PICK c : c = look[p]
  OBVIOUS
<1>2. OriginInv /\ CommandIs(c) /\ Formed(c) /\ c.at = "location" /\ c.format \in {"auto", "openapi"} /\ c.found = {}
  BY <1>1 DEF SourcesInv, CommandIs, Formed, Sources!ReadLocation
<1>3. PICK l : l = location[c.format]
  OBVIOUS
<1>4. LocationIs(c.format, l)
  BY <1>2, <1>3 DEF SourcesInv
<1>5. Onward /\ UNCHANGED <<cache, location>>
  BY OthersOnward DEF Sources!ReadLocation, Sources!origin, Sources!bounds, Stays
<1>6. CASE ~Sources!Remembers(c)
  <2>1. PICK d : d = [c EXCEPT !.at = "forget"]
    OBVIOUS
  <2>2. look' = [look EXCEPT ![p] = d]
    BY <1>1, <1>6, <2>1 DEF Sources!ReadLocation, Sources!Become
  <2>3. d.at = "forget" /\ Formed(d) /\ d.found = {}
    BY <1>2, <2>1 DEF Formed, CommandFields
  <2>4. CommandIs(d)
    BY <2>3 DEF CommandIs
  <2> QED
    BY <1>5, <2>2, <2>4, BecomesGood
<1>7. CASE Sources!Remembers(c)
  <2>1. ~c.refresh /\ l.expires > now /\ l.expires \in Nat
    BY <1>3, <1>4, <1>7 DEF Sources!Remembers, LocationIs
  <2>2. /\ l.candidates \in Locs /\ l.type \in {"odp", "openapi"}
        /\ Sources!Led(c.format, l.type, l.candidates, Since(l.expires))
        /\ l.type = "odp" => l.candidates = {"odp"}
    BY <1>4, <2>1 DEF LocationIs
  <2>3. Allowed(c) \in Nat /\ Since(l.expires) \in Nat /\ Allowed(c) <= Since(l.expires)
    BY <1>2, <2>1, AllowedIs, SinceIs, LastsIsAllowed
  <2>4. Sources!Led(c.format, l.type, l.candidates, Allowed(c))
    <3>1. PICK t \in Nat : t = Since(l.expires)
      BY <2>3
    <3>2. PICK u \in Nat : u = Allowed(c)
      BY <2>3
    <3>3. PICK b : b = l.candidates
      OBVIOUS
    <3>4. PICK y : y = l.type
      OBVIOUS
    <3>5. Sources!Led(c.format, y, b, u)
      BY <1>2, <2>2, <2>3, <3>1, <3>2, <3>3, <3>4, LedEarlier
    <3> QED
      BY <3>2, <3>3, <3>4, <3>5
  <2>5. CASE Cardinality(l.candidates) > 1
    <3>1. PICK g : g = [c EXCEPT !.step = "located"]
      OBVIOUS
    <3>2. PICK b : b = l.candidates
      OBVIOUS
    <3>3. look' = [look EXCEPT ![p] = Sources!Found(g, "ambiguous", b)]
      BY <1>1, <1>3, <1>7, <2>5, <3>1, <3>2 DEF Sources!ReadLocation, Sources!Become, Sources!Cardinality, Cardinality
    <3>4. Formed(g) /\ Same(c, g) /\ g.step = "located"
      BY <1>2, <3>1 DEF Formed, CommandFields, Same
    <3>5. l.type # "odp"
      <4>1. Cardinality({"odp"}) = 1
        BY FS_Singleton
      <4> QED
        BY <2>2, <2>5, <4>1
    <3>6. Sources!Led(g.format, "ambiguous", b, Allowed(g))
      BY <2>4, <3>2, <3>4, <3>5, SameAllowed DEF Same, Sources!Led
    <3>7. PICK d : d = Sources!Found(g, "ambiguous", b)
      OBVIOUS
    <3>8. CommandIs(d)
      BY <1>2, <3>4, <3>6, <3>7, FoundToTell
    <3> QED
      BY <1>5, <3>3, <3>7, <3>8, BecomesGood
  <2>6. CASE ~(Cardinality(l.candidates) > 1)
    <3>1. PICK x \in Sources!Places : x = CHOOSE u \in l.candidates : TRUE
      <4>1. l.candidates \subseteq Sources!Places /\ \E u : u \in l.candidates
        BY <2>2 DEF Locs, Sources!Places
      <4> QED
        BY <4>1
    <3>2. PICK g : g = [c EXCEPT !.type = l.type, !.candidates = l.candidates]
      OBVIOUS
    <3>3. Formed(g) /\ Same(c, g) /\ g.type = l.type /\ g.candidates = l.candidates
      BY <1>2, <3>2 DEF Formed, CommandFields, Same
    <3>4. PICK d : d = Sources!Get(g, "located", x)
      OBVIOUS
    <3>5. look' = [look EXCEPT ![p] = d]
      BY <1>1, <1>3, <1>7, <2>6, <3>1, <3>2, <3>4
         DEF Sources!ReadLocation, Sources!Become, Sources!Cardinality, Cardinality
    <3>6. /\ Formed(d) /\ Same(g, d) /\ d.at = "look" /\ d.step = "located" /\ d.source = x /\ d.url = x
          /\ d.type = g.type /\ d.candidates = g.candidates
      BY <3>3, <3>4, GetIs
    <3>7. Allowed(d) = Allowed(c) /\ d.format = c.format
      BY <3>3, <3>6, SameAllowed DEF Same
    <3>8. StepIs(d) /\ ReadingSeen(d) /\ ~Discovering(d)
      BY <3>6 DEF StepIs, ReadingSeen, Discovering
    <3>9. Grounds(d, Allowed(d))
      BY <2>4, <3>3, <3>6, <3>7 DEF Grounds
    <3>10. CommandIs(d)
      BY <3>6, <3>8, <3>9 DEF CommandIs, Underway
    <3> QED
      BY <1>5, <3>5, <3>10, BecomesGood
  <2> QED
    BY <2>5, <2>6
<1> QED
  BY <1>6, <1>7
\* The invariant after a step that replaces a row, a location and a command.
LEMMA PartsGood ==
  ASSUME SourcesInv, Onward,
         DOMAIN cache' = Sources!Places, \A u \in Sources!Places : RowIs(u, cache'[u]),
         DOMAIN location' = {"auto", "openapi"}, \A f \in {"auto", "openapi"} : LocationIs(f, location'[f]),
         DOMAIN look' = Readers, \A q \in Readers : CommandIs(look'[q])
  PROVE  SourcesInv'
<1>1. OriginInv'
  BY DEF Onward
<1>2. ASSUME NEW u \in Sources!Places PROVE RowIs(u, cache[u])'
  <2>1. PICK d : d = cache'[u]
    OBVIOUS
  <2>2. RowIs(u, d)'
    BY <2>1, RowLater
  <2> QED
    BY <2>1, <2>2
<1>3. ASSUME NEW f \in {"auto", "openapi"} PROVE LocationIs(f, location[f])'
  <2>1. PICK l : l = location'[f]
    OBVIOUS
  <2>2. LocationIs(f, l)
    BY <2>1
  <2>3. LocationIs(f, l)'
    BY <2>2, LocationLater
  <2> QED
    BY <2>1, <2>3
<1>4. ASSUME NEW q \in Readers PROVE CommandIs(look[q])'
  <2>1. PICK e : e = look'[q]
    OBVIOUS
  <2>2. CommandIs(e)
    BY <2>1
  <2>3. CommandIs(e)'
    BY <2>2, CommandLater
  <2> QED
    BY <2>1, <2>3
<1> QED
  BY <1>1, <1>2, <1>3, <1>4 DEF SourcesInv

LEMMA ForgetGood ==
  ASSUME SourcesInv, NEW p \in Readers, Sources!ForgetLocation(p)
  PROVE  SourcesInv'
<1>1. PICK c : c = look[p]
  OBVIOUS
<1>2. OriginInv /\ Formed(c) /\ c.format \in {"auto", "openapi"} /\ c.found = {}
  BY <1>1 DEF SourcesInv, CommandIs, Formed, Sources!ForgetLocation
<1>3. Onward
  BY OthersOnward DEF Sources!ForgetLocation, Sources!origin, Sources!bounds, Stays
<1>4. PICK d : d = Sources!Get(c, "native", "odp")
  OBVIOUS
<1>5. CommandIs(d)
  <2>1. \A t \in Times(c) : Why(c.format, c.found, "native", t)
    BY DEF Why
  <2> QED
    BY <1>2, <1>4, <2>1, GetNext DEF Sources!Places
<1>6. DOMAIN look' = Readers /\ \A q \in Readers : CommandIs(look'[q])
  BY <1>1, <1>4, <1>5 DEF SourcesInv, Sources!ForgetLocation, Sources!Become
<1>7. PICK l : l = Sources!NoLocation
  OBVIOUS
<1>8. LocationIs(c.format, l)
  BY <1>2, <1>7 DEF LocationIs, Sources!NoLocation, OriginInv
<1>9. DOMAIN location' = {"auto", "openapi"} /\ \A f \in {"auto", "openapi"} : LocationIs(f, location'[f])
  BY <1>1, <1>2, <1>7, <1>8 DEF SourcesInv, Sources!ForgetLocation
<1>10. DOMAIN cache' = Sources!Places /\ \A u \in Sources!Places : RowIs(u, cache'[u])
  BY DEF SourcesInv, Sources!ForgetLocation
<1> QED
  BY <1>3, <1>6, <1>9, <1>10, PartsGood

LEMMA RememberGood ==
  ASSUME SourcesInv, NEW p \in Readers, Sources!Remember(p)
  PROVE  SourcesInv'
<1>1. PICK c : c = look[p]
  OBVIOUS
<1>2. OriginInv /\ CommandIs(c) /\ Formed(c) /\ Remembered(c) /\ c.format \in {"auto", "openapi"}
  BY <1>1 DEF SourcesInv, CommandIs, Formed, Sources!Remember
<1>3. Onward
  BY OthersOnward DEF Sources!Remember, Sources!origin, Sources!bounds, Stays
<1>4. PICK e : e = Sources!Lasts(c)
  OBVIOUS
<1>5. c.expires \in Nat /\ now \in Nat /\ e \in Nat /\ e <= c.expires
  BY <1>2, <1>4, ConstantsAre DEF Sources!Lasts, Formed, OriginInv
<1>6. PICK d : d = [c EXCEPT !.at = "done", !.keep = TRUE, !.expires = 0]
  OBVIOUS
<1>7. look' = [look EXCEPT ![p] = d]
  BY <1>1, <1>6 DEF Sources!Remember, Sources!Become
<1>8. CommandIs(d)
  <2>1. /\ Formed(d) /\ Same(c, d) /\ d.at = "done" /\ d.type = c.type /\ d.candidates = c.candidates
        /\ d.reading = c.reading
    BY <1>2, <1>6 DEF Formed, CommandFields, Same
  <2>2. Allowed(d) = Allowed(c) /\ d.format = c.format /\ Allowed(c) \in Times(c)
    BY <2>1, SameAllowed DEF Same, Times
  <2>3. Told(d)
    BY <1>2, <2>1, <2>2 DEF Told, Remembered, ShownAt
  <2> QED
    BY <2>1, <2>3 DEF CommandIs
<1>9. DOMAIN look' = Readers /\ \A q \in Readers : CommandIs(look'[q])
  BY <1>7, <1>8 DEF SourcesInv
<1>10. PICK l : l = [type |-> IF c.type = "odp" THEN "odp" ELSE "openapi", candidates |-> c.candidates, expires |-> e]
  OBVIOUS
<1>11. LocationIs(c.format, l)
  <2>1. l.expires = e /\ l.candidates = c.candidates /\ l.type = IF c.type = "odp" THEN "odp" ELSE "openapi"
    BY <1>10
  <2>2. ASSUME e > now PROVE Sources!Led(c.format, l.type, l.candidates, Since(e))
    <3>1. c.expires > now
      BY <1>5, <2>2
    <3>2. PICK t : t = Since(c.expires)
      OBVIOUS
    <3>3. PICK u : u = Since(e)
      OBVIOUS
    <3>4. t \in Nat /\ u \in Nat /\ u <= t
      BY <1>5, <3>2, <3>3, SinceIs, SinceGrows
    <3>5. t \in Times(c)
      BY <3>1, <3>2 DEF Times
    <3>6. Sources!Led(c.format, c.type, c.candidates, t)
      BY <1>2, <3>5 DEF Remembered
    <3>7. Sources!Led(c.format, c.type, c.candidates, u)
      BY <1>2, <3>4, <3>6, LedEarlier
    <3> QED
      BY <2>1, <3>3, <3>7 DEF Sources!Led
  <2>3. l.candidates \in Locs /\ (l.type = "odp" => l.candidates = {"odp"}) /\ l.type \in {"odp", "openapi"}
    BY <1>2, <2>1 DEF Remembered
  <2> QED
    BY <1>5, <2>1, <2>2, <2>3 DEF LocationIs
<1>12. location' = location \/ location' = [location EXCEPT ![c.format] = l]
  BY <1>1, <1>4, <1>10 DEF Sources!Remember
<1>13. DOMAIN location' = {"auto", "openapi"} /\ \A f \in {"auto", "openapi"} : LocationIs(f, location'[f])
  BY <1>2, <1>11, <1>12 DEF SourcesInv
<1>14. DOMAIN cache' = Sources!Places /\ \A u \in Sources!Places : RowIs(u, cache'[u])
  BY DEF SourcesInv, Sources!Remember
<1> QED
  BY <1>3, <1>9, <1>13, <1>14, PartsGood

\* A command goes on with the same document.
LEMMA UnderwaySame ==
  ASSUME NEW c, Underway(c), NEW d, Alike(c, d), d.expires = c.expires
  PROVE  Underway(d)
<1>1. Allowed(d) = Allowed(c) /\ Times(d) = Times(c)
  BY SameAllowed DEF Alike
<1>2. StepIs(d) /\ ReadingSeen(d) /\ (Discovering(d) => Discovering(c))
  BY <1>1 DEF Alike, Underway, StepIs, ReadingSeen, Discovering
<1>3. \A t : Grounds(c, t) => Grounds(d, t)
  BY DEF Alike, Same, Grounds
<1> QED
  BY <1>1, <1>2, <1>3 DEF Underway

LEMMA LookGood ==
  ASSUME SourcesInv, NEW p \in Readers, Sources!Look(p)
  PROVE  SourcesInv'
<1>1. PICK c : c = look[p]
  OBVIOUS
<1>2. OriginInv /\ CommandIs(c) /\ Formed(c) /\ Underway(c) /\ c.source \in Sources!Places /\ c.at = "look"
  BY <1>1 DEF SourcesInv, CommandIs, Formed, Sources!Look
<1>3. PICK r : r = cache[c.source]
  OBVIOUS
<1>4. RowIs(c.source, r)
  BY <1>2, <1>3 DEF SourcesInv
<1>5. Onward /\ UNCHANGED <<cache, location>>
  BY OthersOnward DEF Sources!Look, Sources!origin, Sources!bounds, Stays
<1>6. CASE r.expires > now /\ ~c.refresh
  <2>1. PICK d : d = Sources!Continue(c, r)
    OBVIOUS
  <2>2. look' = [look EXCEPT ![p] = d]
    BY <1>1, <1>3, <1>6, <2>1 DEF Sources!Look, Sources!Become
  <2>3. now \in Nat
    BY <1>2 DEF OriginInv
  <2>4. r.kind # "none"
    <3>1. ~(0 > now)
      BY <2>3
    <3> QED
      BY <1>4, <1>6, <3>1 DEF RowIs
  <2>5. r.expires \in Nat /\ DocAt(c.source, r, Since(r.expires))
    BY <1>4, <1>6, <2>4 DEF RowIs
  <2>6. DocAt(c.source, r, Allowed(c))
    <3>1. PICK t : t = Since(r.expires)
      OBVIOUS
    <3>2. PICK u : u = Allowed(c)
      OBVIOUS
    <3>3. PICK e : e = r.expires
      OBVIOUS
    <3>4. t \in Nat /\ u \in Nat /\ u <= t
      BY <1>2, <1>6, <2>5, <3>1, <3>2, <3>3, AllowedIs, SinceIs, LastsIsAllowed
    <3> QED
      BY <1>2, <2>5, <3>1, <3>2, <3>4, DocEarlier
  <2>7. DocFor(c, r)
    BY <2>5, <2>6 DEF DocFor
  <2>8. CommandIs(d)
    BY <1>2, <2>1, <2>7, Continued
  <2> QED
    BY <1>5, <2>2, <2>8, BecomesGood
<1>7. CASE ~(r.expires > now /\ ~c.refresh)
  <2>1. PICK d : d = [c EXCEPT !.at = "ask", !.row = r, !.limit = now + 1]
    OBVIOUS
  <2>2. look' = [look EXCEPT ![p] = d]
    BY <1>1, <1>3, <1>7, <2>1 DEF Sources!Look, Sources!Become
  <2>3. now \in Nat /\ now + 1 \in Nat
    BY <1>2 DEF OriginInv
  <2>4. /\ Alike(c, d) /\ d.expires = c.expires /\ d.at = "ask" /\ d.row = r /\ d.limit = now + 1
        /\ d.url = c.url
    BY <1>2, <2>1 DEF Formed, CommandFields, Alike, Same
  <2>5. Underway(d)
    BY <1>2, <2>4, UnderwaySame
  <2>6. Asking(d)
    <3>1. d.url = d.source /\ d.source \in Sources!Places
      BY <1>2, <2>4 DEF Alike, CommandIs
    <3>2. d.began \in Nat /\ d.began <= now
      BY <1>2, <2>4 DEF Formed, Alike
    <3> QED
      BY <2>3, <2>4, <3>1, <3>2 DEF Asking
  <2>7. RowKnown(d)
    BY <1>4, <2>4 DEF RowKnown, RowIs, DocAt
  <2>8. CommandIs(d)
    BY <2>4, <2>5, <2>6, <2>7 DEF CommandIs, Alike
  <2> QED
    BY <1>5, <2>2, <2>8, BecomesGood
<1> QED
  BY <1>6, <1>7
\* What may answer was so lately.
LEMMA AnswerSeen ==
  ASSUME OriginInv, NEW c, Asking(c), now <= c.limit, NEW age \in ages, NEW s \in 1..site,
         Sources!Ended(s) + age >= now
  PROVE  /\ SeenAt(c.url, sites[s][c.url].kind, sites[s][c.url].rev, Reach(c.limit, 1 + age))
         /\ sites[s][c.url].kind = "moved" => MovedAt(c.url, Reach(c.limit, 1))
<1>1. age \in Nat /\ Sources!Oldest \in Nat /\ age <= Sources!Oldest
  BY OldestIs
<1>2. Sources!Ended(s) \in Nat /\ now \in Nat /\ c.limit \in Nat /\ c.limit <= now + 1
  BY EndedIs DEF Asking, OriginInv
<1>3. Sources!Ended(s) >= Reach(c.limit, 1 + age)
  BY <1>1, <1>2 DEF Reach
<1>4. Sources!Ended(s) + Sources!Oldest >= Reach(c.limit, 1)
  BY <1>1, <1>2 DEF Reach
<1>5. SeenAt(c.url, sites[s][c.url].kind, sites[s][c.url].rev, Reach(c.limit, 1 + age))
  BY <1>3 DEF SeenAt
<1>6. sites[s][c.url].kind = "moved" => MovedAt(c.url, Reach(c.limit, 1))
  BY <1>4 DEF MovedAt
<1> QED
  BY <1>5, <1>6

LEMMA SiteIs ==
  ASSUME OriginInv, NEW s \in 1..site, NEW u \in Sources!Places
  PROVE  /\ s \in DOMAIN sites /\ sites[s] \in [Sources!Places -> Sources!Representation]
         /\ sites[s][u] \in Sources!Representation
<1>1. Len(sites) \in Nat /\ site \in 1..Len(sites) /\ DOMAIN sites = 1..Len(sites)
  BY DEF OriginInv
<1>2. s \in 1..Len(sites)
  BY <1>1
<1>3. sites[s] \in [Sources!Places -> Sources!Representation]
  BY <1>2 DEF OriginInv
<1> QED
  BY <1>1, <1>2, <1>3

LEMMA AskGood ==
  ASSUME SourcesInv, NEW p \in Readers, Sources!Ask(p)
  PROVE  SourcesInv'
<1>1. PICK c : c = look[p]
  OBVIOUS
<1>2. /\ OriginInv /\ CommandIs(c) /\ Formed(c) /\ Underway(c) /\ Asking(c) /\ RowKnown(c) /\ c.at = "ask"
      /\ c.url \in Sources!Places
  BY <1>1 DEF SourcesInv, CommandIs, Sources!Ask, Asking
<1>3. Onward /\ UNCHANGED <<cache, location>>
  BY OthersOnward DEF Sources!Ask, Sources!origin, Sources!bounds, Stays
<1>4. PICK age \in ages, s \in 1..site :
        LET r == sites[s][c.url] IN
        /\ Sources!Ended(s) + age >= now
        /\ look' = [look EXCEPT ![p] =
             CASE r.kind = "error" -> Sources!NoCommand
               [] r.kind = "moved" ->
                    IF c.hops < MaxHops THEN [c EXCEPT !.url = "other", !.hops = @ + 1] ELSE Sources!NoCommand
               [] OTHER ->
                    [c EXCEPT !.at = "store", !.row = Sources!NoRow,
                              !.reply = [kind |-> IF c.row.kind # "none" /\ Sources!Validators(c) /\ c.row.rev = r.rev
                                                  THEN c.row.kind ELSE r.kind,
                                         rev |-> r.rev, policy |-> r.policy, final |-> c.url, expires |-> age]]]
  BY <1>1 DEF Sources!Ask, Sources!Become
<1>5. PICK r : r = sites[s][c.url]
  OBVIOUS
<1>6. now <= c.limit
  BY <1>1 DEF Sources!Ask
<1>7. SeenAt(c.url, r.kind, r.rev, Reach(c.limit, 1 + age)) /\ (r.kind = "moved" => MovedAt(c.url, Reach(c.limit, 1)))
  BY <1>2, <1>4, <1>5, <1>6, AnswerSeen
<1>8. r \in Sources!Representation
  BY <1>2, <1>5, SiteIs
<1>9. PICK n : n = Sources!NoCommand
  OBVIOUS
<1>10. CASE r.kind = "error" \/ (r.kind = "moved" /\ ~(c.hops < MaxHops))
  <2>1. look' = [look EXCEPT ![p] = n]
    BY <1>4, <1>5, <1>9, <1>10
  <2> QED
    BY <1>2, <1>3, <1>9, <2>1, NoCommandIs, BecomesGood
<1>11. CASE r.kind = "moved" /\ c.hops < MaxHops
  <2>1. PICK d : d = [c EXCEPT !.url = "other", !.hops = @ + 1]
    OBVIOUS
  <2>2. look' = [look EXCEPT ![p] = d]
    BY <1>4, <1>5, <1>11, <2>1
  <2>3. /\ Alike(c, d) /\ d.expires = c.expires /\ d.at = "ask" /\ d.row = c.row /\ d.limit = c.limit
        /\ d.url = "other"
    BY <1>2, <2>1 DEF Formed, CommandFields, Alike, Same
  <2>4. Underway(d)
    BY <1>2, <2>3, UnderwaySame
  <2>5. d.url = d.source \/ MovedAt(d.source, Reach(d.limit, 1))
    BY <1>2, <1>7, <1>11, <2>3 DEF Asking, Alike
  <2>6. Asking(d)
    BY <1>2, <2>3, <2>5 DEF Asking, Alike, Same, Sources!Places
  <2>7. RowKnown(d)
    BY <1>2, <2>3 DEF RowKnown
  <2>8. CommandIs(d)
    BY <2>3, <2>4, <2>6, <2>7 DEF CommandIs, Alike
  <2> QED
    BY <1>3, <2>2, <2>8, BecomesGood
<1>12. CASE r.kind \notin {"error", "moved"}
  <2>1. PICK k : k = IF c.row.kind # "none" /\ Sources!Validators(c) /\ c.row.rev = r.rev THEN c.row.kind ELSE r.kind
    OBVIOUS
  <2>2. k = r.kind
    <3>1. SUFFICES ASSUME c.row.kind # "none", c.row.final = c.url, c.row.rev = r.rev PROVE c.row.kind = r.kind
      BY <2>1 DEF Sources!Validators
    <3>2. PICK o \in 1..site : sites[o][c.url].kind = c.row.kind /\ sites[o][c.url].rev = r.rev
      BY <1>2, <3>1 DEF RowKnown, SeenAt
    <3>3. s \in DOMAIN sites /\ o \in DOMAIN sites
      BY <1>2, SiteIs
    <3>4. sites[o][c.url] = sites[s][c.url]
      BY <1>2, <1>5, <3>2, <3>3 DEF OriginInv
    <3> QED
      BY <1>5, <3>2, <3>4
  <2>3. PICK a : a = [kind |-> k, rev |-> r.rev, policy |-> r.policy, final |-> c.url, expires |-> age]
    OBVIOUS
  <2>4. DOMAIN a = RowFields /\ a.kind = r.kind /\ a.rev = r.rev /\ a.final = c.url /\ a.expires = age
    BY <2>2, <2>3 DEF RowFields
  <2>5. PICK d : d = [c EXCEPT !.at = "store", !.row = Sources!NoRow, !.reply = a]
    OBVIOUS
  <2>6. look' = [look EXCEPT ![p] = d]
    BY <1>4, <1>5, <1>12, <2>1, <2>3, <2>5
  <2>7. /\ Alike(c, d) /\ d.expires = c.expires /\ d.at = "store" /\ d.reply = a /\ d.limit = c.limit
        /\ d.url = c.url
    BY <1>2, <2>5 DEF Formed, CommandFields, Alike, Same
  <2>8. Underway(d)
    BY <1>2, <2>7, UnderwaySame
  <2>9. Asking(d)
    BY <1>2, <2>7 DEF Asking, Alike, Same
  <2>10. ReplyIs(d)
    <3>1. r.kind \in Served
      BY <1>8, <1>12 DEF Served, Sources!Representation
    <3> QED
      BY <1>7, <2>4, <2>7, <3>1 DEF ReplyIs
  <2>11. CommandIs(d)
    BY <2>7, <2>8, <2>9, <2>10 DEF CommandIs, Alike
  <2> QED
    BY <1>3, <2>6, <2>11, BecomesGood
<1> QED
  BY <1>10, <1>11, <1>12

LEMMA StoreGood ==
  ASSUME SourcesInv, NEW p \in Readers, Sources!Store(p)
  PROVE  SourcesInv'
<1>1. PICK c : c = look[p]
  OBVIOUS
<1>2. /\ OriginInv /\ CommandIs(c) /\ Formed(c) /\ Underway(c) /\ Asking(c) /\ ReplyIs(c)
      /\ c.url \in Sources!Places /\ c.source \in Sources!Places
  BY <1>1 DEF SourcesInv, CommandIs, Sources!Store, Asking, Formed
<1>3. Onward
  BY OthersOnward DEF Sources!Store, Sources!origin, Sources!bounds, Stays
<1>4. PICK a : a = c.reply
  OBVIOUS
<1>5. /\ DOMAIN a = RowFields /\ a.kind \in Served /\ a.final = c.url /\ a.expires \in ages
      /\ SeenAt(c.url, a.kind, a.rev, Reach(c.limit, 1 + a.expires))
  BY <1>2, <1>4 DEF ReplyIs
<1>6. PICK age \in ages : age = a.expires
  BY <1>5
<1>7. age \in Nat /\ age <= MaxAge /\ Life \in Nat /\ now \in Nat /\ c.limit \in Nat /\ now <= c.limit /\ c.limit <= now + 1
  BY <1>1, <1>2, AgesAre, ConstantsAre DEF OriginInv, Asking, Sources!Store
<1>8. PICK x : x = Sources!Freshness(a.policy, age)
  OBVIOUS
<1>9. x = now \/ (age < Life /\ x = now + (Life - age))
  BY <1>8 DEF Sources!Freshness
<1>10. x \in Nat
  BY <1>7, <1>9
<1>11. PICK doc : doc = [a EXCEPT !.expires = x]
  OBVIOUS
<1>12. doc.kind = a.kind /\ doc.rev = a.rev /\ doc.policy = a.policy /\ doc.final = a.final /\ doc.expires = x
  BY <1>5, <1>11 DEF RowFields
<1>13. /\ Allowed(c) <= Reach(c.limit, 1 + age) /\ Allowed(c) <= Reach(c.limit, 1)
       /\ Reach(c.limit, 1 + age) \in Nat /\ Reach(c.limit, 1) \in Nat /\ c.began + 1 <= c.limit
  BY <1>2, <1>7, AskedIsAllowed DEF Asking
<1>14. ASSUME NEW t \in Nat, t <= Reach(c.limit, 1 + age), t <= Reach(c.limit, 1)
       PROVE  DocAt(c.source, doc, t)
  <2>1. PICK y \in Nat : y = Reach(c.limit, 1 + age)
    BY <1>13
  <2>2. PICK z \in Nat : z = Reach(c.limit, 1)
    BY <1>13
  <2>3. SeenAt(doc.final, doc.kind, doc.rev, t)
    BY <1>2, <1>5, <1>6, <1>12, <1>14, <2>1, SeenEarlier
  <2>4. c.url = c.source \/ (c.url = "other" /\ MovedAt(c.source, z))
    BY <1>2, <2>2 DEF Asking
  <2>5. MovedAt(c.source, z) => MovedAt(c.source, t)
    BY <1>2, <1>14, <2>2, MovedEarlier
  <2> QED
    BY <1>2, <1>5, <1>12, <2>3, <2>4, <2>5 DEF DocAt
<1>15. Allowed(c) \in Nat
  BY <1>2, AllowedIs
<1>16. DocAt(c.source, doc, Allowed(c))
  BY <1>13, <1>14, <1>15
<1>17. x > now => DocAt(c.source, doc, Since(x))
  <2>1. SUFFICES ASSUME x > now PROVE DocAt(c.source, doc, Since(x))
    OBVIOUS
  <2>2. age < Life /\ x = now + (Life - age)
    BY <1>7, <1>9, <2>1
  <2>3. Since(x) <= Reach(c.limit, 1 + age) /\ Since(x) <= Reach(c.limit, 1) /\ Since(x) \in Nat
    BY <1>7, <2>2 DEF Since, Reach
  <2> QED
    BY <1>14, <2>3
<1>18. DocAt(c.source, doc, 0)
  BY <1>13, <1>14
<1>19. DocFor(c, doc)
  BY <1>10, <1>12, <1>16, <1>17 DEF DocFor
<1>20. PICK d : d = Sources!Continue(c, doc)
  OBVIOUS
<1>21. CommandIs(d)
  BY <1>2, <1>19, <1>20, Continued
<1>22. look' = [look EXCEPT ![p] = d]
  BY <1>1, <1>4, <1>6, <1>8, <1>11, <1>20 DEF Sources!Store, Sources!Become
<1>23. DOMAIN look' = Readers /\ \A q \in Readers : CommandIs(look'[q])
  BY <1>21, <1>22 DEF SourcesInv
<1>24. PICK n : n = Sources!NoRow
  OBVIOUS
<1>25. RowIs(c.source, n)
  BY <1>24 DEF RowIs, Sources!NoRow
<1>26. RowIs(c.source, doc)
  BY <1>5, <1>10, <1>12, <1>17, <1>18 DEF RowIs, Served, Sources!Kinds
<1>27. cache' = [cache EXCEPT ![c.source] = n] \/ cache' = [cache EXCEPT ![c.source] = doc]
  BY <1>1, <1>4, <1>6, <1>8, <1>11, <1>24 DEF Sources!Store
<1>28. DOMAIN cache' = Sources!Places /\ \A u \in Sources!Places : RowIs(u, cache'[u])
  BY <1>25, <1>26, <1>27 DEF SourcesInv
<1>29. DOMAIN location' = {"auto", "openapi"} /\ \A f \in {"auto", "openapi"} : LocationIs(f, location'[f])
  BY DEF SourcesInv, Sources!Store
<1> QED
  BY <1>3, <1>23, <1>28, <1>29, PartsGood

LEMMA EndGood ==
  ASSUME SourcesInv, NEW p \in Readers, Sources!Fail(p) \/ Sources!Answer(p)
  PROVE  SourcesInv'
<1>1. PICK n : n = Sources!NoCommand
  OBVIOUS
<1>2. CommandIs(n)
  BY <1>1, NoCommandIs DEF SourcesInv
<1>3. look' = [look EXCEPT ![p] = n] /\ UNCHANGED <<cache, location>>
  BY <1>1 DEF Sources!Fail, Sources!Answer, Sources!Become
<1>4. Onward
  BY OthersOnward DEF Sources!Fail, Sources!Answer, Sources!origin, Sources!bounds, Stays
<1> QED
  BY <1>2, <1>3, <1>4, BecomesGood

-----------------------------------------------------------------------------
(* The other steps, and all of them.                                        *)

LEMMA ChangeOnward ==
  ASSUME OriginInv, Sources!Change
  PROVE  Onward
<1>1. site < Len(sites) /\ site' = site + 1 /\ until' = [until EXCEPT ![site] = now]
  BY DEF Sources!Change
<1>2. UNCHANGED <<sites, now, ages, work>>
  BY DEF Sources!Change, Sources!bounds
<1>3. Len(sites) \in Nat /\ site \in Nat /\ site >= 1 /\ now \in Nat /\ site \in 1..Len(sites)
  BY DEF OriginInv
<1>4. site' \in 1..Len(sites)
  BY <1>1, <1>3
<1>5. until' \in [1..Len(sites) -> Nat] /\ \A s \in 1..Len(sites) : until'[s] <= now
  BY <1>1, <1>3 DEF OriginInv
<1>6. OriginInv'
  BY <1>2, <1>3, <1>4, <1>5 DEF OriginInv
<1>7. ASSUME NEW s \in 1..site PROVE Sources!Ended(s) <= Sources!Ended(s)'
  <2>1. s \in Nat /\ s <= site /\ s # site' /\ s \in 1..Len(sites)
    BY <1>1, <1>3
  <2>2. Sources!Ended(s)' = until'[s]
    BY <2>1 DEF Sources!Ended
  <2>3. until'[s] = IF s = site THEN now ELSE until[s]
    BY <1>1, <1>3, <2>1 DEF OriginInv
  <2>4. Sources!Ended(s) = until'[s] /\ Sources!Ended(s) \in Nat
    BY <2>3, EndedIs DEF Sources!Ended
  <2> QED
    BY <2>2, <2>4
<1> QED
  BY <1>1, <1>2, <1>3, <1>6, <1>7 DEF Onward

LEMMA TickOnward ==
  ASSUME OriginInv, Sources!Tick
  PROVE  Onward
<1>1. now' = now + 1 /\ UNCHANGED <<sites, site, until, ages, work>> /\ now \in Nat
  BY DEF Sources!Tick, Sources!origin, Sources!bounds, OriginInv
<1>2. \A s \in 1..Len(sites) : until[s] <= now'
  <2>1. \A s \in 1..Len(sites) : until[s] <= now /\ until[s] \in Nat
    BY DEF OriginInv
  <2> QED
    BY <1>1, <2>1
<1>3. OriginInv'
  BY <1>1, <1>2 DEF OriginInv
<1>4. ASSUME NEW s \in 1..site PROVE Sources!Ended(s) <= Sources!Ended(s)'
  <2>1. Sources!Ended(s) \in Nat /\ Sources!Ended(s)' = (IF s = site THEN now + 1 ELSE until[s])
    BY <1>1, EndedIs DEF Sources!Ended
  <2> QED
    BY <1>1, <2>1 DEF Sources!Ended
<1>5. site <= site' /\ now <= now'
  BY <1>1 DEF OriginInv
<1> QED
  BY <1>1, <1>3, <1>4, <1>5 DEF Onward

LEMMA OriginGood ==
  ASSUME SourcesInv, Sources!Change \/ Sources!Tick
  PROVE  SourcesInv'
<1>1. Onward
  BY ChangeOnward, TickOnward DEF SourcesInv
<1>2. UNCHANGED <<cache, location, look>>
  BY DEF Sources!Change, Sources!Tick
<1> QED
  BY <1>1, <1>2, PartsGood DEF SourcesInv

LEMMA EvictGood ==
  ASSUME SourcesInv, Sources!Evict
  PROVE  SourcesInv'
<1>1. PICK n : n = Sources!NoRow
  OBVIOUS
<1>2. PICK u \in Sources!Places : cache' = [cache EXCEPT ![u] = n]
  BY <1>1 DEF Sources!Evict
<1>3. \A v \in Sources!Places : RowIs(v, n)
  BY <1>1 DEF RowIs, Sources!NoRow
<1>4. DOMAIN cache' = Sources!Places /\ \A v \in Sources!Places : RowIs(v, cache'[v])
  BY <1>2, <1>3 DEF SourcesInv
<1>5. Onward
  BY OthersOnward DEF Sources!Evict, Sources!origin, Stays
<1> QED
  BY <1>4, <1>5, PartsGood DEF SourcesInv, Sources!Evict

LEMMA SourcesInit == Sources!Init => SourcesInv
<1> SUFFICES ASSUME Sources!Init PROVE SourcesInv
  OBVIOUS
<1>1. PICK x \in SourceCases : sites = x.sites /\ work = x.work /\ ages = x.ages
  BY DEF Sources!Init
<1>2. /\ sites # <<>> /\ sites \in Seq([Sources!Places -> Sources!Representation])
      /\ work \in [Readers -> Seq(Sources!Requests)] /\ ages \in {{0}, {0, MaxAge}}
      /\ \A u \in Sources!Places, s \in DOMAIN sites, o \in DOMAIN sites :
           sites[s][u].rev = sites[o][u].rev => sites[s][u] = sites[o][u]
  BY <1>1, SourcesAssumption DEF Sources!CasesAssumption
<1>3. Len(sites) \in Nat /\ Len(sites) >= 1 /\ DOMAIN sites = 1..Len(sites)
  BY <1>2
<1>4. site = 1 /\ now = 0 /\ until = [s \in DOMAIN sites |-> 0]
  BY DEF Sources!Init
<1>5. OriginInv
  <2>1. site \in 1..Len(sites)
    BY <1>3, <1>4
  <2>2. until \in [1..Len(sites) -> Nat] /\ \A s \in 1..Len(sites) : until[s] <= now
    BY <1>3, <1>4
  <2> QED
    BY <1>2, <1>4, <2>1, <2>2 DEF OriginInv
<1>6. DOMAIN cache = Sources!Places /\ \A u \in Sources!Places : RowIs(u, cache[u])
  BY DEF Sources!Init, RowIs, Sources!NoRow
<1>7. DOMAIN location = {"auto", "openapi"} /\ \A f \in {"auto", "openapi"} : LocationIs(f, location[f])
  BY <1>4 DEF Sources!Init, LocationIs, Sources!NoLocation
<1>8. DOMAIN look = Readers /\ \A p \in Readers : CommandIs(look[p])
  <2>1. PICK n : n = Sources!NoCommand
    OBVIOUS
  <2>2. look = [p \in Readers |-> n] /\ CommandIs(n)
    BY <1>5, <2>1, NoCommandIs DEF Sources!Init
  <2> QED
    BY <2>2
<1> QED
  BY <1>5, <1>6, <1>7, <1>8 DEF SourcesInv

LEMMA SourcesStep == SourcesInv /\ [Sources!Next]_(Sources!vars) => SourcesInv'
<1> SUFFICES ASSUME SourcesInv, [Sources!Next]_(Sources!vars) PROVE SourcesInv'
  OBVIOUS
<1>1. CASE Sources!Change \/ Sources!Tick
  BY <1>1, OriginGood
<1>2. CASE Sources!Evict
  BY <1>2, EvictGood
<1>3. ASSUME NEW p \in Readers, Sources!Step(p) PROVE SourcesInv'
  BY <1>3, BeginGood, ReadLocationGood, ForgetGood, RememberGood, LookGood, AskGood, StoreGood, EndGood
     DEF Sources!Step
<1>4. CASE UNCHANGED Sources!vars
  <2>1. Onward
    BY <1>4, OthersOnward DEF Sources!vars, Sources!origin, Sources!bounds, Stays
  <2> QED
    BY <1>4, <2>1, PartsGood DEF SourcesInv, Sources!vars
<1> QED
  BY <1>1, <1>2, <1>3, <1>4 DEF Sources!Next

LEMMA SourcesTrue == SourcesInv => AnswersTrue
<1> SUFFICES ASSUME SourcesInv, NEW p \in Readers, look[p].at = "done"
             PROVE  /\ Sources!Shown(look[p], Allowed(look[p]))
                    /\ \/ look[p].step \in {"exact", "linked"}
                       \/ Sources!Led(look[p].format, look[p].type, look[p].candidates, Allowed(look[p]))
  BY DEF AnswersTrue, Sources!AnswersTrue, Allowed, Reach
<1>1. PICK c : c = look[p]
  OBVIOUS
<1>2. Told(c)
  BY <1>1 DEF SourcesInv, CommandIs
<1>3. ShownAt(c, Allowed(c)) => Sources!Shown(c, Allowed(c))
  BY DEF ShownAt, SeenAt, Sources!Shown
<1> QED
  BY <1>1, <1>2, <1>3 DEF Told

\* What a discovery answers, and what led to it, was so within one lifetime and one
\* retrieval before it began; for a refresh, what an origin or intermediary answered to
\* it.  The processes run SourceDiscovery.inspect (openapi/discovery.ts) over the cache
\* they share, in any order, while the sites change and rows are evicted.
THEOREM AnswersAreTrue == Sources!Spec => []AnswersTrue
<1>1. Sources!Init => SourcesInv
  BY SourcesInit
<1>2. SourcesInv /\ [Sources!Next]_(Sources!vars) => SourcesInv'
  BY SourcesStep
<1> QED
  BY <1>1, <1>2, SourcesTrue, PTL DEF Sources!Spec

-----------------------------------------------------------------------------
\* Whichever part a behaviour of the checked specification is of, it is a behaviour of
\* every part's own, so all that is proved of them holds of it.
THEOREM PartsAreSafe ==
  PartsSpec => /\ [](DiscardSafe /\ StoredSecretsReadable /\ AnswersTrue /\ OneServiceStops)
               /\ SessionRegister /\ NoSilentLeak
<1>1. PartsInit => Init /\ Sources!Init /\ Service!Init
  BY DEF PartsInit
<1>2. [PartsNext]_allVars => [Next]_vars /\ [Sources!Next]_(Sources!vars) /\ [Service!Next]_(Service!vars)
  <2> SUFFICES ASSUME [PartsNext]_allVars
               PROVE  [Next]_vars /\ [Sources!Next]_(Sources!vars) /\ [Service!Next]_(Service!vars)
    OBVIOUS
  <2>1. /\ Next \/ UNCHANGED vars
        /\ Sources!Next \/ UNCHANGED sourceVars
        /\ Service!Next \/ UNCHANGED serviceVars
    BY DEF PartsNext, allVars
  <2> QED
    BY <2>1 DEF sourceVars, Sources!vars, Sources!origin, Sources!bounds, serviceVars, Service!vars, Service!commands
<1>3. PartsSpec => Spec /\ Sources!Spec /\ Service!Spec
  BY <1>1, <1>2, PTL DEF PartsSpec, Spec, Sources!Spec, Service!Spec
<1> QED
  BY <1>3, DiscardSafety, StoredSecretsStayReadable, AnswersAreTrue, OneServiceIsStopped, StorageImplementsRegister,
     NothingLeaks, PTL

=============================================================================

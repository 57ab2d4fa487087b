-------------------------- MODULE AttachtabProofs ---------------------------
(***************************************************************************)
(* Proofs about Attachtab, for any finite set of processes and any bounds: *)
(* its types and GuardedByEntry, from the inductive invariant IInv.  IInv  *)
(* adds to them who has which lock at which step, that a file in use is    *)
(* the one the entry's name leads to, and what a process at work knows of  *)
(* the entry and the mount.                                                *)
(***************************************************************************)
EXTENDS Attachtab, TLAPS, FiniteSetTheorems

\* Who has the lock on the file of its entry.
Holding == {"check", "empty", "work", "update", "free"}

\* A process has the lock on the file of its entry at those steps, and no other lock
\* on a file.
LockInv ==
    \A p \in Procs :
       /\ proc[p].pc \in Holding => proc[p].ino # 0 /\ elock[proc[p].ino] = p
       /\ \A n \in Inodes : elock[n] = p => proc[p].ino = n /\ proc[p].pc \in Holding

\* Who has the table's lock.
HasTab(p) == \/ proc[p].pc \in {"create", "created", "unlink"}
             \/ proc[p].pc \in {"open", "wait", "check", "empty"} /\ proc[p].op # "sweep"

\* At those steps it does have it.
TabInv == \A p \in Procs : HasTab(p) => tab = p

\* With the table's lock held, the name of the entry leads to the file opened or to
\* nothing: only a holder of that lock creates a file.
PathInv ==
    \A p \in Procs :
       /\ proc[p].pc \in {"wait", "created"} => proc[p].ino # 0
       /\ HasTab(p) /\ proc[p].pc \in {"wait", "check", "empty"} => path \in {0, proc[p].ino}
       /\ proc[p].pc = "create" => path = 0

\* A process that works with the entry's file or has just created it.
Using(p) == Working(p) \/ proc[p].pc = "created"

\* Until a file in use is removed, the entry's name leads to the file in use, and
\* nobody works while a new file waits to be locked.
UseInv ==
    ~removed =>
       \A p \in Procs :
          /\ Using(p) => path = proc[p].ino
          /\ proc[p].pc = "created" => ~file[path].there /\ \A q \in Procs : ~Working(q)

\* What a process knows of the locker before it has read the entry, and that only an
\* attached locker is detached.
AttachedInv ==
    \A p \in Procs :
       /\ proc[p].pc \in {"lock", "open", "wait", "check", "empty", "create", "created"}
            => ~proc[p].attached
       /\ proc[p].pc = "work" /\ proc[p].op # "attach" => proc[p].attached
       /\ proc[p].pc \in {"create", "created"} => proc[p].op = "attach"

\* Between locking the entry and writing it, what the process holds agrees with the
\* entry and then with the mount; otherwise the entry agrees with the mount.
ViewInv ==
    ~removed /\ faults = 0 =>
       /\ \A p \in Procs : /\ proc[p].pc = "work" => (proc[p].attached <=> file[path].there)
                           /\ proc[p].pc = "update" => (proc[p].attached <=> mounted)
       /\ (\A p \in Procs : proc[p].pc # "update") => (Recorded <=> mounted)

\* The inductive invariant.
IInv == TypeOK /\ LockInv /\ TabInv /\ PathInv /\ UseInv /\ AttachedInv /\ ViewInv

-----------------------------------------------------------------------------
(* Types of what a step makes of a process *)

LEMMA InodesNat == Inodes \subseteq Nat /\ 0 \notin Inodes
  BY DEF Inodes

LEMMA PcsAre ==
    /\ "idle" \in Pcs /\ "lock" \in Pcs /\ "open" \in Pcs /\ "wait" \in Pcs /\ "check" \in Pcs
    /\ "empty" \in Pcs /\ "create" \in Pcs /\ "created" \in Pcs /\ "work" \in Pcs
    /\ "update" \in Pcs /\ "free" \in Pcs /\ "delete" \in Pcs /\ "unlink" \in Pcs
  BY DEF Pcs

\* One process becomes r.
LEMMA OneProc ==
  ASSUME TypeOK, NEW p \in Procs, NEW r \in ProcType, proc' = [proc EXCEPT ![p] = r]
  PROVE  proc' \in [Procs -> ProcType]
  BY DEF TypeOK

LEMMA IdleType ==
  ASSUME TypeOK, NEW p \in Procs, Return(p)
  PROVE  proc' \in [Procs -> ProcType]
<1>1. Idle \in ProcType
  BY PcsAre DEF ProcType, Idle
<1> QED
  BY <1>1, OneProc DEF Return

LEMMA PcType ==
  ASSUME TypeOK, NEW p \in Procs, NEW pc \in Pcs,
         proc' = [proc EXCEPT ![p].pc = pc]
  PROVE  proc' \in [Procs -> ProcType]
<1> DEFINE r == [proc[p] EXCEPT !.pc = pc]
<1>1. proc[p] \in ProcType
  BY DEF TypeOK
<1>2. r \in ProcType
  BY <1>1 DEF ProcType
<1>3. proc' = [proc EXCEPT ![p] = r]
  BY DEF TypeOK
<1> QED
  BY <1>2, <1>3, OneProc

LEMMA LookType ==
  ASSUME TypeOK, NEW p \in Procs,
         NEW pc \in Pcs, NEW again \in BOOLEAN, NEW ino \in Inodes \cup {0},
         proc' = [proc EXCEPT ![p].pc = pc, ![p].again = again, ![p].ino = ino]
  PROVE  proc' \in [Procs -> ProcType]
<1> DEFINE r == [proc[p] EXCEPT !.pc = pc, !.again = again, !.ino = ino]
<1>1. proc[p] \in ProcType
  BY DEF TypeOK
<1>2. r \in ProcType
  BY <1>1 DEF ProcType
<1>3. proc' = [proc EXCEPT ![p] = r]
  BY DEF TypeOK
<1> QED
  BY <1>2, <1>3, OneProc

LEMMA InoType ==
  ASSUME TypeOK, NEW p \in Procs, NEW pc \in Pcs, NEW ino \in Inodes \cup {0},
         proc' = [proc EXCEPT ![p].pc = pc, ![p].ino = ino]
  PROVE  proc' \in [Procs -> ProcType]
<1> DEFINE r == [proc[p] EXCEPT !.pc = pc, !.ino = ino]
<1>1. proc[p] \in ProcType
  BY DEF TypeOK
<1>2. r \in ProcType
  BY <1>1 DEF ProcType
<1>3. proc' = [proc EXCEPT ![p] = r]
  BY DEF TypeOK
<1> QED
  BY <1>2, <1>3, OneProc

LEMMA OwnersType ==
  ASSUME TypeOK, NEW p \in Procs, NEW pc \in Pcs, NEW owners \in SUBSET Procs,
         proc' = [proc EXCEPT ![p].pc = pc, ![p].owners = owners]
  PROVE  proc' \in [Procs -> ProcType]
<1> DEFINE r == [proc[p] EXCEPT !.pc = pc, !.owners = owners]
<1>1. proc[p] \in ProcType
  BY DEF TypeOK
<1>2. r \in ProcType
  BY <1>1 DEF ProcType
<1>3. proc' = [proc EXCEPT ![p] = r]
  BY DEF TypeOK
<1> QED
  BY <1>2, <1>3, OneProc

LEMMA WorkType ==
  ASSUME TypeOK, NEW p \in Procs,
         NEW pc \in Pcs, NEW attached \in BOOLEAN, NEW owners \in SUBSET Procs,
         proc' = [proc EXCEPT ![p].pc = pc, ![p].attached = attached, ![p].owners = owners]
  PROVE  proc' \in [Procs -> ProcType]
<1> DEFINE r == [proc[p] EXCEPT !.pc = pc, !.attached = attached, !.owners = owners]
<1>1. proc[p] \in ProcType
  BY DEF TypeOK
<1>2. r \in ProcType
  BY <1>1 DEF ProcType
<1>3. proc' = [proc EXCEPT ![p] = r]
  BY DEF TypeOK
<1> QED
  BY <1>2, <1>3, OneProc

-----------------------------------------------------------------------------
(* The steps *)


\* What NotAttached makes of p, its attachent given back.
LEMMA NotAttachedEffect ==
  ASSUME TypeOK, NEW p \in Procs, NotAttached(p)
  PROVE  /\ \A q \in Procs \ {p} : proc'[q] = proc[q]
         /\ proc'[p].ino = 0 /\ proc'[p].op \in {proc[p].op, "attach"}
         /\ \/ /\ proc[p].op = "attach" /\ proc'[p].op = "attach"
               /\ proc'[p].pc \in {"create", "open"} /\ tab' = tab
               /\ proc'[p].attached = proc[p].attached
            \/ /\ proc'[p].pc = "idle" /\ ~proc'[p].attached
               /\ tab' = IF tab = p THEN Nobody ELSE tab
  BY DEF NotAttached, TypeOK, ProcType, Return, UnlockTab, Idle


\* p's locks on entries' files are given back, and no others.
LEMMA UnlockedEffect ==
  ASSUME TypeOK, NEW p \in Procs, elock' = Unlocked(p)
  PROVE  /\ elock' \in [Inodes -> Procs \cup {Nobody}]
         /\ \A n \in Inodes : /\ elock'[n] # p
                               /\ \A q \in Procs \ {p} : elock'[n] = q <=> elock[n] = q
  BY ProcsAssumption DEF Unlocked, TypeOK

\* One process at a time has the entry for itself.
LEMMA Exclusive ==
  ASSUME TypeOK, LockInv, UseInv, ~removed, NEW p \in Procs, NEW q \in Procs, Working(p), Working(q)
  PROVE  p = q
  BY DEF LockInv, UseInv, Using, Working, Holding

\* p gives back its locks on entries' files and leaves the others theirs.
LEMMA LocksGivenBack ==
  ASSUME TypeOK, LockInv, NEW p \in Procs, elock' = Unlocked(p), proc' \in [Procs -> ProcType],
         \A q \in Procs \ {p} : proc'[q] = proc[q], proc'[p].pc \notin Holding
  PROVE  /\ elock' \in [Inodes -> Procs \cup {Nobody}]
         /\ \A n \in Inodes : elock'[n] # Nobody => proc'[elock'[n]].ino = n
         /\ LockInv'
<1>1. \A q \in Procs : proc[q].ino \in Inodes \cup {0}
  BY DEF TypeOK, ProcType
<1>2. \A n \in Inodes, q \in Procs : elock'[n] = q => q # p /\ elock[n] = q
  BY UnlockedEffect
<1>3. ASSUME NEW n \in Inodes, elock'[n] # Nobody PROVE proc'[elock'[n]].ino = n
  BY <1>2, <1>3, UnlockedEffect DEF LockInv
<1>4. ASSUME NEW q \in Procs
      PROVE  /\ proc'[q].pc \in Holding => proc'[q].ino # 0 /\ elock'[proc'[q].ino] = q
             /\ \A n \in Inodes : elock'[n] = q => proc'[q].ino = n /\ proc'[q].pc \in Holding
  <2>1. CASE q = p
    BY <2>1, <1>2
  <2>2. CASE q # p
    <3>1. proc'[q] = proc[q]
      BY <2>2
    <3>2. \A n \in Inodes : elock[n] = q => proc[q].ino = n /\ proc[q].pc \in Holding
      BY DEF LockInv
    <3>3. proc[q].pc \in Holding => proc[q].ino \in Inodes /\ elock[proc[q].ino] = q
      BY <1>1 DEF LockInv
    <3>4. \A n \in Inodes : elock'[n] = q <=> elock[n] = q
      BY <2>2, UnlockedEffect
    <3>5. proc[q].pc \in Holding => proc[q].ino # 0
      BY <3>3, InodesNat
    <3> QED
      BY <3>1, <3>2, <3>3, <3>4, <3>5
  <2> QED
    BY <2>1, <2>2
<1> QED
  BY <1>3, <1>4, UnlockedEffect DEF LockInv
\* LockTab keeps the invariant.
LEMMA LockTabStep ==
  ASSUME IInv, NEW p \in Procs, LockTab(p)
  PROVE  IInv'
<1> USE ProcsAssumption, InodesNat DEF IInv
<1>1. proc' \in [Procs -> ProcType]
  BY PcType, PcsAre DEF LockTab, Goto
<1>2. TypeOK'
  BY <1>1, BoundsAssumption DEF LockTab, counts, Goto, TypeOK, LockInv, Holding
<1>3. LockInv'
  BY <1>1 DEF LockTab, counts, Goto, TypeOK, LockInv, Holding
<1>4. TabInv'
  BY <1>1 DEF LockTab, counts, Goto, TypeOK, TabInv, HasTab
<1>5. PathInv'
  BY <1>1 DEF LockTab, counts, Goto, TypeOK, LockInv, Holding, PathInv, TabInv, HasTab
<1>6. UseInv'
  BY <1>1 DEF LockTab, counts, Goto, TypeOK, UseInv, Using, Working, LockInv, Holding,
     PathInv, TabInv, HasTab
<1>7. AttachedInv'
  BY <1>1 DEF LockTab, counts, Goto, TypeOK, AttachedInv
<1>8. ViewInv'
  BY <1>1 DEF LockTab, counts, Goto, TypeOK, ViewInv, Recorded, UseInv, Using, Working,
     LockInv, Holding, AttachedInv, PathInv
<1> QED
  BY <1>2, <1>3, <1>4, <1>5, <1>6, <1>7, <1>8

\* ListEntries keeps the invariant.
LEMMA ListEntriesStep ==
  ASSUME IInv, NEW p \in Procs, ListEntries(p)
  PROVE  IInv'
<1> USE ProcsAssumption, InodesNat DEF IInv
<1>a. /\ \A q \in Procs \ {p} : proc'[q] = proc[q]
      /\ proc[p].pc = "lock" /\ proc[p].op = "sweep"
      /\ proc'[p].pc \in {"idle", "open"} /\ ~proc'[p].attached
      /\ proc'[p].pc = "open" => proc'[p].op = "sweep"
      /\ UNCHANGED <<path, file, elock, tab, mounted, removed, faults, calls>>
  BY DEF ListEntries, Goto, Return, Idle, TypeOK, ProcType, AttachedInv, counts
<1>1. proc' \in [Procs -> ProcType]
  BY PcType, IdleType, PcsAre DEF ListEntries, Goto
<1>2. TypeOK'
  BY <1>1, <1>a, BoundsAssumption DEF TypeOK, LockInv, Holding
<1>3. LockInv'
  BY <1>1, <1>a DEF TypeOK, LockInv, Holding
<1>4. TabInv'
  BY <1>1, <1>a DEF TypeOK, TabInv, HasTab
<1>5. PathInv'
  BY <1>1, <1>a DEF TypeOK, LockInv, Holding, PathInv, TabInv, HasTab
<1>6. UseInv'
  BY <1>1, <1>a DEF TypeOK, UseInv, Using, Working, LockInv, Holding, PathInv, TabInv,
     HasTab
<1>7. AttachedInv'
  BY <1>1, <1>a DEF TypeOK, AttachedInv
<1>8. ViewInv'
  BY <1>1, <1>a DEF TypeOK, ViewInv, Recorded, UseInv, Using, Working, LockInv, Holding,
     AttachedInv, PathInv
<1> QED
  BY <1>2, <1>3, <1>4, <1>5, <1>6, <1>7, <1>8

\* OpenEntry keeps the invariant.
LEMMA OpenEntryStep ==
  ASSUME IInv, NEW p \in Procs, OpenEntry(p)
  PROVE  IInv'
<1> USE ProcsAssumption, InodesNat DEF IInv
<1>a. /\ \A q \in Procs \ {p} : proc'[q] = proc[q]
      /\ proc[p].pc = "open" /\ ~proc'[p].attached
      /\ \/ /\ path = 0 /\ proc[p].op = "attach" /\ proc'[p].op = "attach"
            /\ proc'[p].pc \in {"create", "open"} /\ proc'[p].ino = 0 /\ tab' = tab
         \/ /\ proc'[p].pc = "idle" /\ proc'[p].ino = 0
            /\ tab' = IF tab = p THEN Nobody ELSE tab
         \/ /\ path # 0 /\ proc'[p].ino = path /\ proc'[p].op = proc[p].op
            /\ proc'[p].pc = "wait" /\ tab' = tab
      /\ UNCHANGED <<path, file, elock, mounted, removed, faults, calls>>
  BY NotAttachedEffect DEF OpenEntry, TypeOK, ProcType, AttachedInv, counts
<1>1. proc' \in [Procs -> ProcType]
  <2>0. path \in Inodes \cup {0}
    BY DEF TypeOK
  <2>1. CASE proc[p].op = "attach"
    <3>1. (IF proc[p].again THEN "create" ELSE "open") \in Pcs /\ 0 \in Inodes \cup {0}
      BY PcsAre
    <3> QED
      BY <2>1, <2>0, InoType, PcsAre, <3>1, LookType DEF OpenEntry, NotAttached
  <2>2. CASE proc[p].op # "attach"
    BY <2>2, <2>0, InoType, PcsAre, IdleType DEF OpenEntry, NotAttached
  <2> QED
    BY <2>1, <2>2
<1>2. TypeOK'
  BY <1>1, <1>a, BoundsAssumption DEF TypeOK, LockInv, Holding
<1>3. LockInv'
  BY <1>1, <1>a DEF TypeOK, LockInv, Holding
<1>4. TabInv'
  BY <1>1, <1>a DEF TypeOK, TabInv, HasTab
<1>5. PathInv'
  BY <1>1, <1>a DEF TypeOK, LockInv, Holding, PathInv, TabInv, HasTab
<1>6. UseInv'
  BY <1>1, <1>a DEF TypeOK, UseInv, Using, Working, LockInv, Holding, PathInv, TabInv,
     HasTab
<1>7. AttachedInv'
  BY <1>1, <1>a DEF TypeOK, AttachedInv
<1>8. ViewInv'
  BY <1>1, <1>a DEF TypeOK, ViewInv, Recorded, UseInv, Using, Working, LockInv, Holding,
     AttachedInv, PathInv
<1> QED
  BY <1>2, <1>3, <1>4, <1>5, <1>6, <1>7, <1>8

\* LockEntry keeps the invariant.
LEMMA LockEntryStep ==
  ASSUME IInv, NEW p \in Procs, LockEntry(p)
  PROVE  IInv'
<1> USE ProcsAssumption, InodesNat DEF IInv
<1>a. proc[p].ino \in Inodes
  BY DEF PathInv, TypeOK, ProcType, LockEntry
<1>1. proc' \in [Procs -> ProcType]
  BY PcType, PcsAre DEF LockEntry, Goto
<1>2. TypeOK'
  BY <1>1, <1>a, BoundsAssumption DEF LockEntry, counts, Goto, TypeOK, LockInv, Holding
<1>3. LockInv'
  BY <1>1, <1>a DEF LockEntry, counts, Goto, TypeOK, LockInv, Holding
<1>4. TabInv'
  BY <1>1, <1>a DEF LockEntry, counts, Goto, TypeOK, TabInv, HasTab
<1>5. PathInv'
  BY <1>1, <1>a DEF LockEntry, counts, Goto, TypeOK, LockInv, Holding, PathInv, TabInv,
     HasTab
<1>6. UseInv'
  BY <1>1, <1>a DEF LockEntry, counts, Goto, TypeOK, UseInv, Using, Working, LockInv,
     Holding, PathInv, TabInv, HasTab
<1>7. AttachedInv'
  BY <1>1, <1>a DEF LockEntry, counts, Goto, TypeOK, AttachedInv
<1>8. ViewInv'
  BY <1>1, <1>a DEF LockEntry, counts, Goto, TypeOK, ViewInv, Recorded, UseInv, Using,
     Working, LockInv, Holding, AttachedInv, PathInv
<1> QED
  BY <1>2, <1>3, <1>4, <1>5, <1>6, <1>7, <1>8

\* CheckGone keeps the invariant.
LEMMA CheckGoneStep ==
  ASSUME IInv, NEW p \in Procs, CheckGone(p)
  PROVE  IInv'
<1> USE ProcsAssumption, InodesNat DEF IInv
<1>c. /\ \A q \in Procs \ {p} : proc'[q] = proc[q]
      /\ proc'[p].pc \notin Holding
  BY NotAttachedEffect DEF CheckGone, Holding
<1>1. proc' \in [Procs -> ProcType]
  <2>1. CASE proc[p].op = "attach"
    <3>1. (IF proc[p].again THEN "create" ELSE "open") \in Pcs /\ 0 \in Inodes \cup {0}
      BY PcsAre
    <3> QED
      BY <2>1, <3>1, LookType DEF CheckGone, NotAttached
  <2>2. CASE proc[p].op # "attach"
    BY <2>2, IdleType DEF CheckGone, NotAttached
  <2> QED
    BY <2>1, <2>2
<1>b. /\ elock' \in [Inodes -> Procs \cup {Nobody}]
      /\ \A n \in Inodes : elock'[n] # Nobody => proc'[elock'[n]].ino = n
      /\ LockInv'
  BY <1>1, <1>c, LocksGivenBack DEF CheckGone
<1>2. TypeOK'
  <2>1. calls' \in 0 .. MaxCalls /\ faults' \in 0 .. MaxFaults
    BY BoundsAssumption DEF TypeOK, CheckGone, counts
  <2> QED
    BY <1>1, <2>1, NotAttachedEffect, <1>b DEF CheckGone, counts, TypeOK
<1>3. LockInv'
  BY <1>b
<1>4. TabInv'
  BY <1>1, NotAttachedEffect, <1>b DEF CheckGone, counts, TypeOK, TabInv, HasTab
<1>5. PathInv'
  BY <1>1, NotAttachedEffect, <1>b DEF CheckGone, counts, TypeOK, LockInv, Holding, PathInv,
     TabInv, HasTab
<1>6. UseInv'
  BY <1>1, NotAttachedEffect, <1>b DEF CheckGone, counts, TypeOK, UseInv, Using, Working,
     LockInv, Holding, PathInv, TabInv, HasTab
<1>7. AttachedInv'
  BY <1>1, NotAttachedEffect, <1>b DEF CheckGone, counts, TypeOK, AttachedInv
<1>8. ViewInv'
  BY <1>1, NotAttachedEffect, <1>b DEF CheckGone, counts, TypeOK, ViewInv, Recorded, UseInv,
     Using, Working, LockInv, Holding, AttachedInv, PathInv
<1> QED
  BY <1>2, <1>3, <1>4, <1>5, <1>6, <1>7, <1>8

\* CheckEmpty keeps the invariant.
LEMMA CheckEmptyStep ==
  ASSUME IInv, NEW p \in Procs, CheckEmpty(p)
  PROVE  IInv'
<1> USE ProcsAssumption, InodesNat DEF IInv
<1>1. proc' \in [Procs -> ProcType]
  BY PcType, PcsAre DEF CheckEmpty, Goto
<1>2. TypeOK'
  BY <1>1, BoundsAssumption DEF CheckEmpty, counts, Goto, TypeOK, LockInv, Holding
<1>3. LockInv'
  BY <1>1 DEF CheckEmpty, counts, Goto, TypeOK, LockInv, Holding
<1>4. TabInv'
  BY <1>1 DEF CheckEmpty, counts, Goto, TypeOK, TabInv, HasTab
<1>5. PathInv'
  BY <1>1 DEF CheckEmpty, counts, Goto, TypeOK, LockInv, Holding, PathInv, TabInv, HasTab
<1>6. UseInv'
  BY <1>1 DEF CheckEmpty, counts, Goto, TypeOK, UseInv, Using, Working, LockInv, Holding,
     PathInv, TabInv, HasTab
<1>7. AttachedInv'
  BY <1>1 DEF CheckEmpty, counts, Goto, TypeOK, AttachedInv
<1>8. ViewInv'
  BY <1>1 DEF CheckEmpty, counts, Goto, TypeOK, ViewInv, Recorded, UseInv, Using, Working,
     LockInv, Holding, AttachedInv, PathInv
<1> QED
  BY <1>2, <1>3, <1>4, <1>5, <1>6, <1>7, <1>8

\* RemoveEmpty keeps the invariant.
LEMMA RemoveEmptyStep ==
  ASSUME IInv, NEW p \in Procs, RemoveEmpty(p)
  PROVE  IInv'
<1> USE ProcsAssumption, InodesNat DEF IInv
<1>c. /\ \A q \in Procs \ {p} : proc'[q] = proc[q]
      /\ proc'[p].pc \notin Holding
  BY NotAttachedEffect DEF RemoveEmpty, Holding
<1>1. proc' \in [Procs -> ProcType]
  <2>1. CASE proc[p].op = "attach"
    <3>1. (IF proc[p].again THEN "create" ELSE "open") \in Pcs /\ 0 \in Inodes \cup {0}
      BY PcsAre
    <3> QED
      BY <2>1, <3>1, LookType DEF RemoveEmpty, NotAttached
  <2>2. CASE proc[p].op # "attach"
    BY <2>2, IdleType DEF RemoveEmpty, NotAttached
  <2> QED
    BY <2>1, <2>2
<1>b. /\ elock' \in [Inodes -> Procs \cup {Nobody}]
      /\ \A n \in Inodes : elock'[n] # Nobody => proc'[elock'[n]].ino = n
      /\ LockInv'
  BY <1>1, <1>c, LocksGivenBack DEF RemoveEmpty
<1>2. TypeOK'
  <2>1. calls' \in 0 .. MaxCalls /\ faults' \in 0 .. MaxFaults
    BY BoundsAssumption DEF TypeOK, RemoveEmpty, counts
  <2> QED
    BY <1>1, <2>1, NotAttachedEffect, <1>b DEF RemoveEmpty, counts, Unlink, Working, TypeOK
<1>3. LockInv'
  BY <1>b
<1>4. TabInv'
  BY <1>1, NotAttachedEffect, <1>b DEF RemoveEmpty, counts, Unlink, Working, TypeOK, TabInv,
     HasTab
<1>5. PathInv'
  BY <1>1, NotAttachedEffect, <1>b DEF RemoveEmpty, counts, Unlink, Working, TypeOK,
     LockInv, Holding, PathInv, TabInv, HasTab
<1>6. UseInv'
  BY <1>1, NotAttachedEffect, <1>b DEF RemoveEmpty, counts, Unlink, Working, TypeOK, UseInv,
     Using, LockInv, Holding, PathInv, TabInv, HasTab
<1>7. AttachedInv'
  BY <1>1, NotAttachedEffect, <1>b DEF RemoveEmpty, counts, Unlink, Working, TypeOK,
     AttachedInv
<1>8. ViewInv'
  BY <1>1, NotAttachedEffect, <1>b DEF RemoveEmpty, counts, Unlink, Working, TypeOK,
     ViewInv, Recorded, UseInv, Using, LockInv, Holding, AttachedInv, PathInv
<1> QED
  BY <1>2, <1>3, <1>4, <1>5, <1>6, <1>7, <1>8

\* ReadEntry keeps the invariant.
LEMMA ReadEntryStep ==
  ASSUME IInv, NEW p \in Procs, ReadEntry(p)
  PROVE  IInv'
<1> USE ProcsAssumption, InodesNat DEF IInv
<1>1. proc' \in [Procs -> ProcType]
  <2>1. file[path].owners \in SUBSET Procs /\ "work" \in Pcs /\ TRUE \in BOOLEAN
    BY PcsAre DEF TypeOK, ReadEntry, ProcType
  <2> QED
    BY <2>1, WorkType DEF ReadEntry
<1>2. TypeOK'
  BY <1>1, BoundsAssumption DEF ReadEntry, counts, UnlockTab, TypeOK, LockInv, Holding
<1>3. LockInv'
  BY <1>1 DEF ReadEntry, counts, UnlockTab, TypeOK, LockInv, Holding
<1>4. TabInv'
  BY <1>1 DEF ReadEntry, counts, UnlockTab, TypeOK, TabInv, HasTab
<1>5. PathInv'
  BY <1>1 DEF ReadEntry, counts, UnlockTab, TypeOK, LockInv, Holding, PathInv, TabInv,
     HasTab
<1>6. UseInv'
  BY <1>1 DEF ReadEntry, counts, UnlockTab, TypeOK, UseInv, Using, Working, LockInv,
     Holding, PathInv, TabInv, HasTab
<1>7. AttachedInv'
  BY <1>1 DEF ReadEntry, counts, UnlockTab, TypeOK, AttachedInv
<1>8. ViewInv'
  BY <1>1 DEF ReadEntry, counts, UnlockTab, TypeOK, ViewInv, Recorded, UseInv, Using,
     Working, LockInv, Holding, AttachedInv, PathInv
<1> QED
  BY <1>2, <1>3, <1>4, <1>5, <1>6, <1>7, <1>8

\* LookupFails keeps the invariant.
LEMMA LookupFailsStep ==
  ASSUME IInv, NEW p \in Procs, LookupFails(p)
  PROVE  IInv'
<1> USE ProcsAssumption, InodesNat DEF IInv
<1>1. proc' \in [Procs -> ProcType]
  BY IdleType DEF LookupFails
<1>2. TypeOK'
  BY <1>1, BoundsAssumption DEF LookupFails, counts, Return, UnlockTab, Idle, TypeOK,
     LockInv, Holding
<1>3. LockInv'
  BY <1>1 DEF LookupFails, counts, Return, UnlockTab, Idle, TypeOK, LockInv, Holding
<1>4. TabInv'
  BY <1>1 DEF LookupFails, counts, Return, UnlockTab, Idle, TypeOK, TabInv, HasTab
<1>5. PathInv'
  BY <1>1 DEF LookupFails, counts, Return, UnlockTab, Idle, TypeOK, LockInv, Holding,
     PathInv, TabInv, HasTab
<1>6. UseInv'
  BY <1>1 DEF LookupFails, counts, Return, UnlockTab, Idle, TypeOK, UseInv, Using, Working,
     LockInv, Holding, PathInv, TabInv, HasTab
<1>7. AttachedInv'
  BY <1>1 DEF LookupFails, counts, Return, UnlockTab, Idle, TypeOK, AttachedInv
<1>8. ViewInv'
  BY <1>1 DEF LookupFails, counts, Return, UnlockTab, Idle, TypeOK, ViewInv, Recorded,
     UseInv, Using, Working, LockInv, Holding, AttachedInv, PathInv
<1> QED
  BY <1>2, <1>3, <1>4, <1>5, <1>6, <1>7, <1>8

\* LockCreated keeps the invariant.
LEMMA LockCreatedStep ==
  ASSUME IInv, NEW p \in Procs, LockCreated(p)
  PROVE  IInv'
<1> USE ProcsAssumption, InodesNat DEF IInv
<1>a. proc[p].ino \in Inodes
  BY DEF PathInv, TypeOK, ProcType, LockCreated
<1>1. proc' \in [Procs -> ProcType]
  BY PcType, PcsAre DEF LockCreated, Goto
<1>2. TypeOK'
  BY <1>1, <1>a, BoundsAssumption DEF LockCreated, counts, UnlockTab, Goto, TypeOK, LockInv,
     Holding
<1>3. LockInv'
  BY <1>1, <1>a DEF LockCreated, counts, UnlockTab, Goto, TypeOK, LockInv, Holding
<1>4. TabInv'
  BY <1>1, <1>a DEF LockCreated, counts, UnlockTab, Goto, TypeOK, TabInv, HasTab
<1>5. PathInv'
  BY <1>1, <1>a DEF LockCreated, counts, UnlockTab, Goto, TypeOK, LockInv, Holding, PathInv,
     TabInv, HasTab
<1>6. UseInv'
  BY <1>1, <1>a DEF LockCreated, counts, UnlockTab, Goto, TypeOK, UseInv, Using, Working,
     LockInv, Holding, PathInv, TabInv, HasTab
<1>7. AttachedInv'
  BY <1>1, <1>a DEF LockCreated, counts, UnlockTab, Goto, TypeOK, AttachedInv
<1>8. ViewInv'
  BY <1>1, <1>a DEF LockCreated, counts, UnlockTab, Goto, TypeOK, ViewInv, Recorded, UseInv,
     Using, Working, LockInv, Holding, AttachedInv, PathInv
<1> QED
  BY <1>2, <1>3, <1>4, <1>5, <1>6, <1>7, <1>8

\* CreateFails keeps the invariant.
LEMMA CreateFailsStep ==
  ASSUME IInv, NEW p \in Procs, CreateFails(p)
  PROVE  IInv'
<1> USE ProcsAssumption, InodesNat DEF IInv
<1>1. proc' \in [Procs -> ProcType]
  BY IdleType DEF CreateFails
<1>2. TypeOK'
  BY <1>1, BoundsAssumption DEF CreateFails, counts, Return, UnlockTab, Idle, Unlink,
     Working, TypeOK, LockInv, Holding
<1>3. LockInv'
  BY <1>1 DEF CreateFails, counts, Return, UnlockTab, Idle, Unlink, Working, TypeOK,
     LockInv, Holding
<1>4. TabInv'
  BY <1>1 DEF CreateFails, counts, Return, UnlockTab, Idle, Unlink, Working, TypeOK, TabInv,
     HasTab
<1>5. PathInv'
  BY <1>1 DEF CreateFails, counts, Return, UnlockTab, Idle, Unlink, Working, TypeOK,
     LockInv, Holding, PathInv, TabInv, HasTab
<1>6. UseInv'
  BY <1>1 DEF CreateFails, counts, Return, UnlockTab, Idle, Unlink, Working, TypeOK, UseInv,
     Using, LockInv, Holding, PathInv, TabInv, HasTab
<1>7. AttachedInv'
  BY <1>1 DEF CreateFails, counts, Return, UnlockTab, Idle, Unlink, Working, TypeOK,
     AttachedInv
<1>8. ViewInv'
  BY <1>1 DEF CreateFails, counts, Return, UnlockTab, Idle, Unlink, Working, TypeOK,
     ViewInv, Recorded, UseInv, Using, LockInv, Holding, AttachedInv, PathInv
<1> QED
  BY <1>2, <1>3, <1>4, <1>5, <1>6, <1>7, <1>8

\* Attach keeps the invariant.
LEMMA AttachStep ==
  ASSUME IInv, NEW p \in Procs, Attach(p)
  PROVE  IInv'
<1> USE ProcsAssumption, InodesNat DEF IInv
<1>1. proc' \in [Procs -> ProcType]
  <2>1. proc[p].owners \cup {p} \in SUBSET Procs /\ "update" \in Pcs
    BY PcsAre DEF TypeOK, ProcType
  <2>2. proc' = [proc EXCEPT ![p].pc = "update", ![p].attached = TRUE,
                             ![p].owners = proc[p].owners \cup {p}]
    BY DEF Attach
  <2> QED
    BY <2>1, <2>2, WorkType
<1>2. TypeOK'
  BY <1>1, BoundsAssumption DEF Attach, counts, TypeOK, LockInv, Holding
<1>3. LockInv'
  BY <1>1 DEF Attach, counts, TypeOK, LockInv, Holding
<1>4. TabInv'
  BY <1>1 DEF Attach, counts, TypeOK, TabInv, HasTab
<1>5. PathInv'
  BY <1>1 DEF Attach, counts, TypeOK, LockInv, Holding, PathInv, TabInv, HasTab
<1>6. UseInv'
  BY <1>1 DEF Attach, counts, TypeOK, UseInv, Using, Working, LockInv, Holding, PathInv,
     TabInv, HasTab
<1>7. AttachedInv'
  BY <1>1 DEF Attach, counts, TypeOK, AttachedInv
<1>8. ViewInv'
  <2>1. /\ proc'[p].pc = "update" /\ proc'[p].attached
        /\ \A q \in Procs \ {p} : proc'[q] = proc[q]
        /\ mounted' <=> (mounted \/ ~proc[p].attached)
        /\ removed' = removed /\ faults' = faults
    BY DEF Attach, TypeOK, ProcType, counts
  <2>2. ASSUME ~removed, NEW q \in Procs \ {p}
        PROVE  proc[q].pc \notin {"work", "update"}
    BY <2>2, Exclusive DEF Attach, Working
  <2>3. ASSUME ~removed, faults = 0, proc[p].attached
        PROVE  mounted
    <3>1. file[path].there
      BY <2>3 DEF ViewInv, Attach
    <3>2. path # 0
      BY <2>3 DEF UseInv, Using, Working, LockInv, Holding, Attach
    <3>3. \A q \in Procs : proc[q].pc # "update"
      BY <2>2, <2>3 DEF Attach
    <3> QED
      BY <2>3, <3>1, <3>2, <3>3 DEF ViewInv, Recorded
  <2> QED
    BY <2>1, <2>2, <2>3 DEF ViewInv
<1> QED
  BY <1>2, <1>3, <1>4, <1>5, <1>6, <1>7, <1>8

\* AttachFails keeps the invariant.
LEMMA AttachFailsStep ==
  ASSUME IInv, NEW p \in Procs, AttachFails(p)
  PROVE  IInv'
<1> USE ProcsAssumption, InodesNat DEF IInv
<1>1. proc' \in [Procs -> ProcType]
  BY PcType, PcsAre DEF AttachFails, Goto
<1>2. TypeOK'
  BY <1>1, BoundsAssumption DEF AttachFails, counts, Goto, TypeOK, LockInv, Holding
<1>3. LockInv'
  BY <1>1 DEF AttachFails, counts, Goto, TypeOK, LockInv, Holding
<1>4. TabInv'
  BY <1>1 DEF AttachFails, counts, Goto, TypeOK, TabInv, HasTab
<1>5. PathInv'
  BY <1>1 DEF AttachFails, counts, Goto, TypeOK, LockInv, Holding, PathInv, TabInv, HasTab
<1>6. UseInv'
  BY <1>1 DEF AttachFails, counts, Goto, TypeOK, UseInv, Using, Working, LockInv, Holding,
     PathInv, TabInv, HasTab
<1>7. AttachedInv'
  BY <1>1 DEF AttachFails, counts, Goto, TypeOK, AttachedInv
<1>8. ViewInv'
  BY <1>1 DEF AttachFails, counts, Goto, TypeOK, ViewInv, Recorded, UseInv, Using, Working,
     LockInv, Holding, AttachedInv, PathInv
<1> QED
  BY <1>2, <1>3, <1>4, <1>5, <1>6, <1>7, <1>8

\* DetachWanted keeps the invariant.
LEMMA DetachWantedStep ==
  ASSUME IInv, NEW p \in Procs, DetachWanted(p)
  PROVE  IInv'
<1> USE ProcsAssumption, InodesNat DEF IInv
<1>1. proc' \in [Procs -> ProcType]
  <2>1. Others(p) \in SUBSET Procs /\ "update" \in Pcs
    BY PcsAre DEF TypeOK, ProcType, Others
  <2> QED
    BY <2>1, OwnersType DEF DetachWanted
<1>2. TypeOK'
  BY <1>1, BoundsAssumption DEF DetachWanted, counts, Detaching, TypeOK, LockInv, Holding
<1>3. LockInv'
  BY <1>1 DEF DetachWanted, counts, Detaching, TypeOK, LockInv, Holding
<1>4. TabInv'
  BY <1>1 DEF DetachWanted, counts, Detaching, TypeOK, TabInv, HasTab
<1>5. PathInv'
  BY <1>1 DEF DetachWanted, counts, Detaching, TypeOK, LockInv, Holding, PathInv, TabInv,
     HasTab
<1>6. UseInv'
  BY <1>1 DEF DetachWanted, counts, Detaching, TypeOK, UseInv, Using, Working, LockInv,
     Holding, PathInv, TabInv, HasTab
<1>7. AttachedInv'
  BY <1>1 DEF DetachWanted, counts, Detaching, TypeOK, AttachedInv
<1>8. ViewInv'
  BY <1>1, Exclusive DEF DetachWanted, counts, Detaching, TypeOK, ViewInv, Recorded, UseInv,
     Using, Working, LockInv, Holding, AttachedInv, PathInv
<1> QED
  BY <1>2, <1>3, <1>4, <1>5, <1>6, <1>7, <1>8

\* Detach keeps the invariant.
LEMMA DetachStep ==
  ASSUME IInv, NEW p \in Procs, Detach(p)
  PROVE  IInv'
<1> USE ProcsAssumption, InodesNat DEF IInv
<1>1. proc' \in [Procs -> ProcType]
  <2>1. Others(p) \in SUBSET Procs /\ "update" \in Pcs
    BY PcsAre DEF TypeOK, ProcType, Others
  <2> QED
    BY <2>1, WorkType DEF Detach
<1>2. TypeOK'
  <2>1. calls' \in 0 .. MaxCalls /\ faults' \in 0 .. MaxFaults
    BY BoundsAssumption DEF TypeOK, Detach, counts
  <2>2. /\ elock' \in [Inodes -> Procs \cup {Nobody}]
        /\ \A n \in Inodes : elock'[n] # Nobody => proc'[elock'[n]].ino = n
    BY DEF TypeOK, Detach, ProcType, Goto, LockInv, Holding
  <2> QED
    BY <1>1, <2>1, <2>2 DEF TypeOK, Detach, counts
<1>3. LockInv'
  BY <1>1 DEF Detach, counts, Detaching, TypeOK, LockInv, Holding
<1>4. TabInv'
  BY <1>1 DEF Detach, counts, Detaching, TypeOK, TabInv, HasTab
<1>5. PathInv'
  BY <1>1 DEF Detach, counts, Detaching, TypeOK, LockInv, Holding, PathInv, TabInv, HasTab
<1>6. UseInv'
  BY <1>1 DEF Detach, counts, Detaching, TypeOK, UseInv, Using, Working, LockInv, Holding,
     PathInv, TabInv, HasTab
<1>7. AttachedInv'
  BY <1>1 DEF Detach, counts, Detaching, TypeOK, AttachedInv
<1>8. ViewInv'
  BY <1>1, Exclusive DEF Detach, counts, Detaching, TypeOK, ViewInv, Recorded, UseInv,
     Using, Working, LockInv, Holding, AttachedInv, PathInv
<1> QED
  BY <1>2, <1>3, <1>4, <1>5, <1>6, <1>7, <1>8

\* DetachFails keeps the invariant.
LEMMA DetachFailsStep ==
  ASSUME IInv, NEW p \in Procs, DetachFails(p)
  PROVE  IInv'
<1> USE ProcsAssumption, InodesNat DEF IInv
<1>1. proc' \in [Procs -> ProcType]
  BY PcType, PcsAre DEF DetachFails, Goto
<1>2. TypeOK'
  BY <1>1, BoundsAssumption DEF DetachFails, counts, Detaching, Goto, TypeOK, LockInv,
     Holding
<1>3. LockInv'
  BY <1>1 DEF DetachFails, counts, Detaching, Goto, TypeOK, LockInv, Holding
<1>4. TabInv'
  BY <1>1 DEF DetachFails, counts, Detaching, Goto, TypeOK, TabInv, HasTab
<1>5. PathInv'
  BY <1>1 DEF DetachFails, counts, Detaching, Goto, TypeOK, LockInv, Holding, PathInv,
     TabInv, HasTab
<1>6. UseInv'
  BY <1>1 DEF DetachFails, counts, Detaching, Goto, TypeOK, UseInv, Using, Working, LockInv,
     Holding, PathInv, TabInv, HasTab
<1>7. AttachedInv'
  BY <1>1 DEF DetachFails, counts, Detaching, Goto, TypeOK, AttachedInv
<1>8. ViewInv'
  BY <1>1 DEF DetachFails, counts, Detaching, Goto, TypeOK, ViewInv, Recorded, UseInv,
     Using, Working, LockInv, Holding, AttachedInv, PathInv
<1> QED
  BY <1>2, <1>3, <1>4, <1>5, <1>6, <1>7, <1>8

\* RemoveMountpointFails keeps the invariant.
LEMMA RemoveMountpointFailsStep ==
  ASSUME IInv, NEW p \in Procs, RemoveMountpointFails(p)
  PROVE  IInv'
<1> USE ProcsAssumption, InodesNat DEF IInv
<1>1. proc' \in [Procs -> ProcType]
  BY PcType, PcsAre DEF RemoveMountpointFails, Goto
<1>2. TypeOK'
  <2>1. calls' \in 0 .. MaxCalls /\ faults' \in 0 .. MaxFaults
    BY BoundsAssumption DEF TypeOK, RemoveMountpointFails, counts
  <2>2. /\ elock' \in [Inodes -> Procs \cup {Nobody}]
        /\ \A n \in Inodes : elock'[n] # Nobody => proc'[elock'[n]].ino = n
    BY DEF TypeOK, RemoveMountpointFails, ProcType, Goto, LockInv, Holding
  <2> QED
    BY <1>1, <2>1, <2>2 DEF TypeOK, RemoveMountpointFails, counts
<1>3. LockInv'
  BY <1>1 DEF RemoveMountpointFails, counts, Detaching, Goto, TypeOK, LockInv, Holding
<1>4. TabInv'
  BY <1>1 DEF RemoveMountpointFails, counts, Detaching, Goto, TypeOK, TabInv, HasTab
<1>5. PathInv'
  BY <1>1 DEF RemoveMountpointFails, counts, Detaching, Goto, TypeOK, LockInv, Holding,
     PathInv, TabInv, HasTab
<1>6. UseInv'
  BY <1>1 DEF RemoveMountpointFails, counts, Detaching, Goto, TypeOK, UseInv, Using,
     Working, LockInv, Holding, PathInv, TabInv, HasTab
<1>7. AttachedInv'
  BY <1>1 DEF RemoveMountpointFails, counts, Detaching, Goto, TypeOK, AttachedInv
<1>8. ViewInv'
  BY <1>1 DEF RemoveMountpointFails, counts, Detaching, Goto, TypeOK, ViewInv, Recorded,
     UseInv, Using, Working, LockInv, Holding, AttachedInv, PathInv
<1> QED
  BY <1>2, <1>3, <1>4, <1>5, <1>6, <1>7, <1>8

\* Update keeps the invariant.
LEMMA UpdateStep ==
  ASSUME IInv, NEW p \in Procs, Update(p)
  PROVE  IInv'
<1> USE ProcsAssumption, InodesNat DEF IInv
<1>1. proc' \in [Procs -> ProcType]
  BY PcType, PcsAre DEF Update, Goto
<1>2. TypeOK'
  <2>1. calls' \in 0 .. MaxCalls /\ faults' \in 0 .. MaxFaults
    BY BoundsAssumption DEF TypeOK, Update, counts
  <2>3. file' \in [Inodes -> [there : BOOLEAN, owners : SUBSET Procs]]
    <3> DEFINE e == IF proc[p].attached THEN [there |-> TRUE, owners |-> proc[p].owners] ELSE Empty
    <3>1. e \in [there : BOOLEAN, owners : SUBSET Procs]
      BY DEF TypeOK, ProcType, Empty
    <3>2. file' = [file EXCEPT ![proc[p].ino] = e]
      BY DEF Update
    <3> HIDE DEF e
    <3> QED
      BY <3>1, <3>2 DEF TypeOK
  <2>2. /\ elock' \in [Inodes -> Procs \cup {Nobody}]
        /\ \A n \in Inodes : elock'[n] # Nobody => proc'[elock'[n]].ino = n
    BY DEF TypeOK, Update, ProcType, Goto, LockInv, Holding
  <2> QED
    BY <1>1, <2>1, <2>2, <2>3 DEF TypeOK, Update, counts
<1>3. LockInv'
  BY <1>1 DEF Update, counts, Empty, Goto, TypeOK, LockInv, Holding
<1>4. TabInv'
  BY <1>1 DEF Update, counts, Empty, Goto, TypeOK, TabInv, HasTab
<1>5. PathInv'
  BY <1>1 DEF Update, counts, Empty, Goto, TypeOK, LockInv, Holding, PathInv, TabInv, HasTab
<1>6. UseInv'
  BY <1>1 DEF Update, counts, Empty, Goto, TypeOK, UseInv, Using, Working, LockInv, Holding,
     PathInv, TabInv, HasTab
<1>7. AttachedInv'
  BY <1>1 DEF Update, counts, Empty, Goto, TypeOK, AttachedInv
<1>8. ViewInv'
  BY <1>1, Exclusive DEF Update, counts, Empty, Goto, TypeOK, ViewInv, Recorded, UseInv,
     Using, Working, LockInv, Holding, AttachedInv, PathInv
<1> QED
  BY <1>2, <1>3, <1>4, <1>5, <1>6, <1>7, <1>8

\* Free keeps the invariant.
LEMMA FreeStep ==
  ASSUME IInv, NEW p \in Procs, Free(p)
  PROVE  IInv'
<1> USE ProcsAssumption, InodesNat DEF IInv
<1>a. /\ \A q \in Procs \ {p} : proc'[q] = proc[q]
      /\ proc[p].pc = "free" /\ proc'[p].pc \in {"idle", "delete"}
      /\ elock' = Unlocked(p)
      /\ UNCHANGED <<path, file, tab, mounted, removed, faults, calls>>
  BY DEF Free, Return, Idle, TypeOK, ProcType, counts
<1>c. /\ \A q \in Procs \ {p} : proc'[q] = proc[q]
      /\ proc'[p].pc \notin Holding
  BY DEF Free, Return, Idle, Holding, TypeOK, ProcType
<1>1. proc' \in [Procs -> ProcType]
  <2>1. CASE proc[p].attached
    BY <2>1, IdleType DEF Free
  <2>2. CASE ~proc[p].attached
    <3>1. "delete" \in Pcs /\ 0 \in Inodes \cup {0}
      BY PcsAre
    <3> QED
      BY <2>2, <3>1, InoType DEF Free
  <2> QED
    BY <2>1, <2>2
<1>b. /\ elock' \in [Inodes -> Procs \cup {Nobody}]
      /\ \A n \in Inodes : elock'[n] # Nobody => proc'[elock'[n]].ino = n
      /\ LockInv'
  BY <1>1, <1>c, LocksGivenBack DEF Free
<1>2. TypeOK'
  <2>1. calls' \in 0 .. MaxCalls /\ faults' \in 0 .. MaxFaults
    BY BoundsAssumption DEF TypeOK, Free, counts
  <2> QED
    BY <1>1, <2>1, <1>b, <1>a DEF TypeOK
<1>3. LockInv'
  BY <1>b
<1>4. TabInv'
  BY <1>1, <1>b, <1>a DEF TypeOK, TabInv, HasTab
<1>5. PathInv'
  BY <1>1, <1>b, <1>a DEF TypeOK, LockInv, Holding, PathInv, TabInv, HasTab
<1>6. UseInv'
  BY <1>1, <1>b, <1>a DEF TypeOK, UseInv, Using, Working, LockInv, Holding, PathInv, TabInv,
     HasTab
<1>7. AttachedInv'
  BY <1>1, <1>b, <1>a DEF TypeOK, AttachedInv
<1>8. ViewInv'
  BY <1>1, <1>b, <1>a DEF TypeOK, ViewInv, Recorded, UseInv, Using, Working, LockInv,
     Holding, AttachedInv, PathInv
<1> QED
  BY <1>2, <1>3, <1>4, <1>5, <1>6, <1>7, <1>8

\* LockToDelete keeps the invariant.
LEMMA LockToDeleteStep ==
  ASSUME IInv, NEW p \in Procs, LockToDelete(p)
  PROVE  IInv'
<1> USE ProcsAssumption, InodesNat DEF IInv
<1>1. proc' \in [Procs -> ProcType]
  BY PcType, PcsAre DEF LockToDelete, Goto
<1>2. TypeOK'
  BY <1>1, BoundsAssumption DEF LockToDelete, counts, Goto, TypeOK, LockInv, Holding
<1>3. LockInv'
  BY <1>1 DEF LockToDelete, counts, Goto, TypeOK, LockInv, Holding
<1>4. TabInv'
  BY <1>1 DEF LockToDelete, counts, Goto, TypeOK, TabInv, HasTab
<1>5. PathInv'
  BY <1>1 DEF LockToDelete, counts, Goto, TypeOK, LockInv, Holding, PathInv, TabInv, HasTab
<1>6. UseInv'
  BY <1>1 DEF LockToDelete, counts, Goto, TypeOK, UseInv, Using, Working, LockInv, Holding,
     PathInv, TabInv, HasTab
<1>7. AttachedInv'
  BY <1>1 DEF LockToDelete, counts, Goto, TypeOK, AttachedInv
<1>8. ViewInv'
  BY <1>1 DEF LockToDelete, counts, Goto, TypeOK, ViewInv, Recorded, UseInv, Using, Working,
     LockInv, Holding, AttachedInv, PathInv
<1> QED
  BY <1>2, <1>3, <1>4, <1>5, <1>6, <1>7, <1>8

\* DeleteEntry keeps the invariant.
LEMMA DeleteEntryStep ==
  ASSUME IInv, NEW p \in Procs, DeleteEntry(p)
  PROVE  IInv'
<1> USE ProcsAssumption, InodesNat DEF IInv
<1>c. /\ \A q \in Procs \ {p} : proc'[q] = proc[q]
      /\ proc'[p].pc \notin Holding
  BY DEF DeleteEntry, Return, Idle, Holding, TypeOK, ProcType
<1>1. proc' \in [Procs -> ProcType]
  BY IdleType DEF DeleteEntry
<1>b. /\ elock' \in [Inodes -> Procs \cup {Nobody}]
      /\ \A n \in Inodes : elock'[n] # Nobody => proc'[elock'[n]].ino = n
      /\ LockInv'
  BY <1>1, <1>c, LocksGivenBack DEF DeleteEntry
<1>2. TypeOK'
  <2>1. calls' \in 0 .. MaxCalls /\ faults' \in 0 .. MaxFaults
    BY BoundsAssumption DEF TypeOK, DeleteEntry, counts
  <2> QED
    BY <1>1, <2>1, <1>b DEF DeleteEntry, counts, Return, UnlockTab, Unlink, Idle, Working,
       TypeOK
<1>3. LockInv'
  BY <1>b
<1>4. TabInv'
  BY <1>1, <1>b DEF DeleteEntry, counts, Return, UnlockTab, Unlink, Idle, Working, TypeOK,
     TabInv, HasTab
<1>5. PathInv'
  BY <1>1, <1>b DEF DeleteEntry, counts, Return, UnlockTab, Unlink, Idle, Working, TypeOK,
     LockInv, Holding, PathInv, TabInv, HasTab
<1>6. UseInv'
  BY <1>1, <1>b DEF DeleteEntry, counts, Return, UnlockTab, Unlink, Idle, Working, TypeOK,
     UseInv, Using, LockInv, Holding, PathInv, TabInv, HasTab
<1>7. AttachedInv'
  BY <1>1, <1>b DEF DeleteEntry, counts, Return, UnlockTab, Unlink, Idle, Working, TypeOK,
     AttachedInv
<1>8. ViewInv'
  BY <1>1, <1>b DEF DeleteEntry, counts, Return, UnlockTab, Unlink, Idle, Working, TypeOK,
     ViewInv, Recorded, UseInv, Using, LockInv, Holding, AttachedInv, PathInv
<1> QED
  BY <1>2, <1>3, <1>4, <1>5, <1>6, <1>7, <1>8

\* Dies keeps the invariant.
LEMMA DiesStep ==
  ASSUME IInv, NEW p \in Procs, Dies(p)
  PROVE  IInv'
<1> USE ProcsAssumption, InodesNat DEF IInv
<1>c. /\ \A q \in Procs \ {p} : proc'[q] = proc[q]
      /\ proc'[p].pc \notin Holding
  BY DEF Dies, Return, Idle, Holding, TypeOK, ProcType
<1>1. proc' \in [Procs -> ProcType]
  BY IdleType DEF Dies
<1>b. /\ elock' \in [Inodes -> Procs \cup {Nobody}]
      /\ \A n \in Inodes : elock'[n] # Nobody => proc'[elock'[n]].ino = n
      /\ LockInv'
  BY <1>1, <1>c, LocksGivenBack DEF Dies
<1>2. TypeOK'
  <2>1. calls' \in 0 .. MaxCalls /\ faults' \in 0 .. MaxFaults
    BY BoundsAssumption DEF TypeOK, Dies, counts
  <2> QED
    BY <1>1, <2>1, <1>b DEF Dies, counts, Return, UnlockTab, Idle, TypeOK
<1>3. LockInv'
  BY <1>b
<1>4. TabInv'
  BY <1>1, <1>b DEF Dies, counts, Return, UnlockTab, Idle, TypeOK, TabInv, HasTab
<1>5. PathInv'
  BY <1>1, <1>b DEF Dies, counts, Return, UnlockTab, Idle, TypeOK, LockInv, Holding,
     PathInv, TabInv, HasTab
<1>6. UseInv'
  BY <1>1, <1>b DEF Dies, counts, Return, UnlockTab, Idle, TypeOK, UseInv, Using, Working,
     LockInv, Holding, PathInv, TabInv, HasTab
<1>7. AttachedInv'
  BY <1>1, <1>b DEF Dies, counts, Return, UnlockTab, Idle, TypeOK, AttachedInv
<1>8. ViewInv'
  BY <1>1, <1>b DEF Dies, counts, Return, UnlockTab, Idle, TypeOK, ViewInv, Recorded,
     UseInv, Using, Working, LockInv, Holding, AttachedInv, PathInv
<1> QED
  BY <1>2, <1>3, <1>4, <1>5, <1>6, <1>7, <1>8

\* There is always an inode for a new file.
LEMMA FreeInode ==
  ASSUME TypeOK
  PROVE  \E n \in Inodes : \A q \in Procs : proc[q].ino # n
<1> SUFFICES ASSUME \A n \in Inodes : \E q \in Procs : proc[q].ino = n PROVE FALSE
  OBVIOUS
<1> DEFINE f == [n \in Inodes |-> CHOOSE q \in Procs : proc[q].ino = n]
<1>1. f \in [Inodes -> Procs] /\ \A n \in Inodes : proc[f[n]].ino = n
  OBVIOUS
<1>2. Cardinality(Procs) \in Nat
  BY ProcsAssumption, FS_CardinalityType
<1>3. IsFiniteSet(Inodes) /\ Cardinality(Inodes) = Cardinality(Procs) + 1
  BY <1>2, FS_Interval DEF Inodes
<1> HIDE DEF f
<1>4. Cardinality(Procs) < Cardinality(Inodes)
  BY <1>2, <1>3
<1>5. \E m, n \in Inodes : m # n /\ f[m] = f[n]
  BY ProcsAssumption, <1>1, <1>3, <1>4, FS_PigeonHole
<1> QED
  BY <1>1, <1>5

\* CreateEntry keeps the invariant.
LEMMA CreateEntryStep ==
  ASSUME IInv, NEW p \in Procs, CreateEntry(p)
  PROVE  IInv'
<1> USE ProcsAssumption, InodesNat DEF IInv
<1> DEFINE free == {n \in Inodes : \A q \in Procs : proc[q].ino # n}
           new == CHOOSE n \in free : TRUE
<1>1. proc[p].pc = "create" /\ path = 0
  BY DEF CreateEntry, PathInv
<1>2. new \in Inodes /\ \A q \in Procs : proc[q].ino # new
  <2>1. free # {}
    BY FreeInode
  <2> QED
    BY <2>1
<1>3. /\ path' = new
      /\ file' = [file EXCEPT ![new] = Empty]
      /\ proc' = [proc EXCEPT ![p].pc = "created", ![p].ino = new]
      /\ UNCHANGED <<elock, tab, mounted, removed, calls, faults>>
  BY <1>1 DEF CreateEntry, counts
<1> HIDE DEF new
<1>4. /\ \A q \in Procs \ {p} : proc'[q] = proc[q]
      /\ proc'[p].pc = "created" /\ proc'[p].ino = new /\ proc'[p].op = proc[p].op
      /\ proc'[p].attached = proc[p].attached
  BY <1>3 DEF TypeOK, ProcType
<1>5. proc' \in [Procs -> ProcType]
  BY <1>2, <1>3, InoType, PcsAre
<1>6. ~file'[new].there /\ \A m \in Inodes \ {new} : file'[m] = file[m]
  BY <1>2, <1>3 DEF TypeOK, Empty
\* No other process has the table's lock, and if no file in use was removed,
\* none uses a file.
<1>7. tab = p /\ \A q \in Procs \ {p} : ~HasTab(q)
  BY <1>1 DEF TabInv, HasTab
<1>8. ~removed => \A q \in Procs : ~Using(q) /\ ~Working(q)
  BY <1>1 DEF UseInv, Using, Working, LockInv, Holding, PathInv
<1>9. TypeOK'
  <2>1. file' \in [Inodes -> [there : BOOLEAN, owners : SUBSET Procs]]
    <3>1. Empty \in [there : BOOLEAN, owners : SUBSET Procs]
      BY DEF Empty
    <3> QED
      BY <1>3, <3>1 DEF TypeOK
  <2> QED
    BY <1>1, <1>2, <1>3, <1>4, <1>5, <2>1 DEF TypeOK, LockInv, Holding
<1>10. LockInv'
  <2>1. \A m \in Inodes : elock[m] # p
    BY <1>1 DEF LockInv, Holding
  <2>2. proc'[p].pc \notin Holding
    BY <1>4 DEF Holding
  <2>3. ASSUME NEW q \in Procs
        PROVE  /\ proc'[q].pc \in Holding => proc'[q].ino # 0 /\ elock'[proc'[q].ino] = q
               /\ \A m \in Inodes : elock'[m] = q => proc'[q].ino = m /\ proc'[q].pc \in Holding
    <3>1. CASE q = p
      BY <3>1, <1>3, <2>1, <2>2
    <3>2. CASE q # p
      <4>1. proc'[q] = proc[q] /\ elock' = elock
        BY <3>2, <1>3, <1>4
      <4>2. /\ proc[q].pc \in Holding => proc[q].ino # 0 /\ elock[proc[q].ino] = q
            /\ \A m \in Inodes : elock[m] = q => proc[q].ino = m /\ proc[q].pc \in Holding
        BY DEF LockInv
      <4> QED
        BY <4>1, <4>2
    <3> QED
      BY <3>1, <3>2
  <2> QED
    BY <2>3 DEF LockInv
<1>11. TabInv'
  BY <1>3, <1>4, <1>7 DEF TabInv, HasTab
<1>12. PathInv'
  <2>1. \A q \in Procs \ {p} : ~HasTab(q)' /\ proc'[q].pc # "create"
    BY <1>4, <1>7 DEF HasTab
  <2>2. new # 0
    BY <1>2
  <2> QED
    BY <1>4, <2>1, <2>2 DEF PathInv
<1>13. UseInv'
  BY <1>3, <1>4, <1>6, <1>8 DEF UseInv, Using, Working
<1>14. AttachedInv'
  BY <1>1, <1>4 DEF AttachedInv
<1>15. ViewInv'
  <2>1. ~Recorded /\ ~Recorded'
    BY <1>1, <1>3, <1>6 DEF Recorded
  <2>2. ~removed => \A q \in Procs : /\ proc[q].pc \notin {"work", "update"}
                                     /\ proc'[q].pc \notin {"work", "update"}
    BY <1>4, <1>8 DEF Working
  <2> QED
    BY <1>3, <2>1, <2>2 DEF ViewInv
<1> QED
  BY <1>9, <1>10, <1>11, <1>12, <1>13, <1>14, <1>15

\* Call keeps the invariant.
LEMMA CallStep ==
  ASSUME IInv, NEW p \in Procs, NEW op \in Ops, Call(p, op)
  PROVE  IInv'
<1> USE ProcsAssumption, InodesNat DEF IInv
<1>1. proc' \in [Procs -> ProcType]
  <2>1. [Idle EXCEPT !.pc = "lock", !.op = op] \in ProcType
    BY PcsAre, OpsAssumption DEF ProcType, Idle
  <2> QED
    BY <2>1, OneProc DEF Call
<1>2. /\ \A q \in Procs \ {p} : proc'[q] = proc[q]
      /\ proc[p].pc = "idle" /\ proc'[p].pc = "lock" /\ proc'[p].ino = 0 /\ ~proc'[p].attached
      /\ calls < MaxCalls /\ calls' = calls + 1
      /\ UNCHANGED <<path, file, elock, tab, mounted, removed, faults>>
  BY DEF Call, Idle, TypeOK
<1>3. TypeOK'
  <2>1. calls' \in 0 .. MaxCalls
    BY <1>2, BoundsAssumption DEF TypeOK
  <2> QED
    BY <1>1, <1>2, <2>1 DEF TypeOK, LockInv, Holding
<1>4. LockInv'
  BY <1>2 DEF LockInv, Holding
<1>5. TabInv'
  BY <1>2 DEF TabInv, HasTab
<1>6. PathInv'
  BY <1>2 DEF PathInv, HasTab
<1>7. UseInv'
  BY <1>2 DEF UseInv, Using, Working
<1>8. AttachedInv'
  BY <1>2 DEF AttachedInv
<1>9. ViewInv'
  BY <1>2 DEF ViewInv, Recorded
<1> QED
  BY <1>3, <1>4, <1>5, <1>6, <1>7, <1>8, <1>9

-----------------------------------------------------------------------------
(* The theorems *)

LEMMA Initially == Init => IInv
<1> SUFFICES ASSUME Init PROVE IInv
  OBVIOUS
<1> USE ProcsAssumption, InodesNat DEF Init
<1>1. Idle \in ProcType /\ Empty \in [there : BOOLEAN, owners : SUBSET Procs]
  BY PcsAre DEF Idle, ProcType, Empty
<1>2. TypeOK
  <2>1. /\ proc \in [Procs -> ProcType]
        /\ file \in [Inodes -> [there : BOOLEAN, owners : SUBSET Procs]]
        /\ elock \in [Inodes -> Procs \cup {Nobody}]
    BY <1>1
  <2>2. \A m \in Inodes : elock[m] = Nobody
    OBVIOUS
  <2>3. calls \in 0 .. MaxCalls /\ faults \in 0 .. MaxFaults
    BY BoundsAssumption
  <2> QED
    BY <2>1, <2>2, <2>3 DEF TypeOK
<1>3. LockInv /\ TabInv /\ PathInv /\ UseInv /\ AttachedInv /\ ViewInv
  BY DEF LockInv, Holding, TabInv, HasTab, PathInv, UseInv, Using, Working, AttachedInv,
     ViewInv, Recorded, Idle
<1> QED
  BY <1>2, <1>3 DEF IInv

LEMMA StepKeeps ==
  ASSUME IInv, [Next]_vars
  PROVE  IInv'
<1>1. CASE UNCHANGED vars
  BY <1>1 DEF vars, IInv, TypeOK, LockInv, TabInv, HasTab, PathInv, UseInv, Using, Working,
     AttachedInv, ViewInv, Recorded
<1>2. ASSUME NEW p \in Procs, NEW op \in Ops, Call(p, op) PROVE IInv'
  BY <1>2, CallStep
<1>3. ASSUME NEW p \in Procs, Lookup(p) PROVE IInv'
  BY <1>3, LockTabStep, ListEntriesStep, OpenEntryStep, LockEntryStep, CheckGoneStep,
     CheckEmptyStep, RemoveEmptyStep, ReadEntryStep, CreateEntryStep, LockCreatedStep DEF Lookup
<1>4. ASSUME NEW p \in Procs, Work(p) PROVE IInv'
  BY <1>4, AttachStep, AttachFailsStep, DetachWantedStep, DetachStep, DetachFailsStep
     DEF Work
<1>5. ASSUME NEW p \in Procs, Finish(p) PROVE IInv'
  BY <1>5, UpdateStep, FreeStep, LockToDeleteStep, DeleteEntryStep DEF Finish
<1>6. ASSUME NEW p \in Procs, Failure(p) PROVE IInv'
  BY <1>6, LookupFailsStep, CreateFailsStep, RemoveMountpointFailsStep, DiesStep DEF Failure
<1> QED
  BY <1>1, <1>2, <1>3, <1>4, <1>5, <1>6 DEF Next, Step

\* Every reachable state satisfies the inductive invariant.
THEOREM Invariance == Spec => []IInv
  BY Initially, StepKeeps, PTL DEF Spec

\* Types; only a process that has an entry's file open has its lock (read_attachent,
\* get_attachent, locker_free_attachent).
THEOREM TypeCorrect == Spec => []TypeOK
<1>1. IInv => TypeOK
  BY DEF IInv
<1> QED
  BY <1>1, Invariance, PTL

\* As long as no file in use has been removed, one process at a time mounts or
\* unmounts the locker, and in between the attachtab says it is attached exactly if it
\* is mounted, whatever the number of processes and calls (read_attachent,
\* attach_attachent, detach_attachent).
THEOREM EntryGuards == Spec => []GuardedByEntry
<1>1. IInv => GuardedByEntry
  <2> SUFFICES ASSUME IInv, ~removed PROVE GuardedByEntry
    BY DEF GuardedByEntry
  <2>1. \A p, q \in Procs : Working(p) /\ Working(q) => p = q
    BY Exclusive DEF IInv
  <2>2. (faults = 0 /\ \A p \in Procs : ~Working(p)) => (Recorded <=> mounted)
    BY DEF IInv, ViewInv, Working
  <2> QED
    BY <2>1, <2>2 DEF GuardedByEntry
<1> QED
  BY <1>1, Invariance, PTL

=============================================================================

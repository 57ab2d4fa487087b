----------------------------- MODULE Attachtab ------------------------------
(***************************************************************************)
(* The attachtab of Athena's locker library (athena/lib/locker/src), which *)
(* the setuid programs attach and detach keep on a workstation: a file for *)
(* each attached locker, under the name of its mountpoint, that says what  *)
(* is attached there and for whom.                                         *)
(*                                                                         *)
(* The model is one locker and its mountpoint.  Two kinds of locks (fcntl, *)
(* waited for) guard it: that of the table, held while an entry is looked  *)
(* up, created or deleted, and that of the entry's file, held while the    *)
(* locker is mounted or unmounted.  Files are told apart by their inodes:  *)
(* an entry that is deleted and created again is another file.             *)
(*                                                                         *)
(* A process makes one of three calls: "attach" and "detach" name the      *)
(* locker, "sweep" is the detaching of all entries with                    *)
(* locker_iterate_attachtab, which works without the table's lock.         *)
(* Options are left out: keep-mount, locked lockers, cleaning of owners.   *)
(***************************************************************************)
EXTENDS Integers, FiniteSets

CONSTANTS Procs, Nobody,
          Ops,          \* the calls made
          OwnerCheck,   \* attach.conf: ownercheck
          MaxCalls,     \* bound: calls
          MaxFaults     \* bound: processes killed, mountpoints that cannot be removed

ASSUME ProcsAssumption == IsFiniteSet(Procs) /\ Nobody \notin Procs
ASSUME OpsAssumption == Ops \subseteq {"attach", "detach", "sweep"}
ASSUME BoundsAssumption == MaxCalls \in Nat /\ MaxFaults \in Nat

VARIABLES path,     \* the inode of the entry's file, 0 if there is none
          file,     \* for each inode, whether an entry is written in it, and its owners
          elock,    \* for each inode, who has its lock
          tab,      \* who has the table's lock
          mounted,  \* whether the locker is mounted
          proc,     \* each process: pc, op, again, and its attachent: ino, attached, owners
          removed,  \* a file was removed that had an entry in it, or that another
                    \* process had just created or was working with
          calls, faults

vars == <<path, file, elock, tab, mounted, proc, removed, calls, faults>>
counts == <<calls, faults>>

Inodes == 1 .. Cardinality(Procs) + 1
Empty == [there |-> FALSE, owners |-> {}]
Idle == [pc |-> "idle", op |-> "attach", again |-> FALSE, ino |-> 0, attached |-> FALSE,
         owners |-> {}]

Init ==
    /\ path = 0
    /\ file = [n \in Inodes |-> Empty]
    /\ elock = [n \in Inodes |-> Nobody]
    /\ tab = Nobody
    /\ mounted = FALSE
    /\ proc = [p \in Procs |-> Idle]
    /\ removed = FALSE
    /\ calls = 0 /\ faults = 0

Goto(p, pc) == proc' = [proc EXCEPT ![p].pc = pc]
Return(p) == proc' = [proc EXCEPT ![p] = Idle]
UnlockTab(p) == tab' = IF tab = p THEN Nobody ELSE tab
Unlocked(p) == [n \in Inodes |-> IF elock[n] = p THEN Nobody ELSE elock[n]]

\* A process that has the entry for itself, or thinks so.
Working(p) == proc[p].pc \in {"work", "update"}

\* unlink of the entry's file.
Unlink(p) ==
    /\ path' = 0
    /\ removed' = \/ removed
                  \/ path # 0 /\ file[path].there
                  \/ path # 0 /\ \E q \in Procs \ {p} :
                        proc[q].ino = path /\ (Working(q) \/ proc[q].pc = "created")

-----------------------------------------------------------------------------
(* locker__lookup_attachent, locker_iterate_attachtab *)

Call(p, op) ==
    /\ proc[p].pc = "idle"
    /\ calls < MaxCalls
    /\ calls' = calls + 1
    /\ proc' = [proc EXCEPT ![p] = [Idle EXCEPT !.pc = "lock", !.op = op]]
    /\ UNCHANGED <<path, file, elock, tab, mounted, removed, faults>>

\* lock_attachtab.
LockTab(p) ==
    /\ proc[p].pc = "lock" /\ proc[p].op # "sweep"
    /\ tab = Nobody
    /\ tab' = p
    /\ Goto(p, "open")
    /\ UNCHANGED <<path, file, elock, mounted, removed, counts>>

\* locker_iterate_attachtab: the directory is read with the lock held, and the
\* entries are gone through without it: "callbacks might take a while".
ListEntries(p) ==
    /\ proc[p].pc = "lock" /\ proc[p].op = "sweep"
    /\ tab = Nobody
    /\ IF path = 0 THEN Return(p) ELSE Goto(p, "open")
    /\ UNCHANGED <<path, file, elock, tab, mounted, removed, counts>>

\* What ENOTATTACHED from read_attachent leads to.  To attach, the entry is
\* looked for once more after the locker's description has been found, and then
\* created; a detach is over, and a sweep has no more entries.
NotAttached(p) ==
    IF proc[p].op = "attach"
    THEN /\ proc' = [proc EXCEPT ![p].pc = IF proc[p].again THEN "create" ELSE "open",
                                 ![p].again = TRUE, ![p].ino = 0]
         /\ UNCHANGED tab
    ELSE Return(p) /\ UnlockTab(p)

\* read_attachent: fopen.
OpenEntry(p) ==
    /\ proc[p].pc = "open"
    /\ \/ path = 0 /\ NotAttached(p)
       \/ /\ path # 0
          /\ proc' = [proc EXCEPT ![p].pc = "wait", ![p].ino = path]
          /\ UNCHANGED tab
    /\ UNCHANGED <<path, file, elock, mounted, removed, counts>>

\* read_attachent: the lock on the file, waited for.
LockEntry(p) ==
    /\ proc[p].pc = "wait"
    /\ elock[proc[p].ino] = Nobody
    /\ elock' = [elock EXCEPT ![proc[p].ino] = p]
    /\ Goto(p, "check")
    /\ UNCHANGED <<path, file, tab, mounted, removed, counts>>

\* Variant: the file that was opened is taken, whether or not it is still there.
CheckGoneTakesIt(p) ==
    /\ proc[p].pc = "check" /\ path # proc[p].ino
    /\ proc' = [proc EXCEPT ![p].pc = "work", ![p].attached = TRUE,
                            ![p].owners = file[proc[p].ino].owners]
    /\ UnlockTab(p)
    /\ UNCHANGED <<path, file, elock, mounted, removed, counts>>

\* read_attachent, the checks: the file has been deleted, or another one created.
CheckGone(p) ==
    /\ proc[p].pc = "check" /\ path # proc[p].ino
    /\ elock' = Unlocked(p)
    /\ NotAttached(p)
    /\ UNCHANGED <<path, file, mounted, removed, counts>>

CheckEmpty(p) ==
    /\ proc[p].pc = "check" /\ path = proc[p].ino
    /\ ~file[path].there
    /\ Goto(p, "empty")
    /\ UNCHANGED <<path, file, elock, tab, mounted, removed, counts>>

\* "This can't happen": whatever file is there now is removed.  (The symbolic links by
\* which lockers are looked up by name are left out: there the link is removed instead.)
RemoveEmpty(p) ==
    /\ proc[p].pc = "empty"
    /\ Unlink(p)
    /\ elock' = Unlocked(p)
    /\ NotAttached(p)
    /\ UNCHANGED <<file, mounted, counts>>

\* The entry is read, and the lookup gives the table's lock back.
ReadEntry(p) ==
    /\ proc[p].pc = "check" /\ path = proc[p].ino
    /\ file[path].there
    /\ proc' = [proc EXCEPT ![p].pc = "work", ![p].attached = TRUE,
                            ![p].owners = file[path].owners]
    /\ UnlockTab(p)
    /\ UNCHANGED <<path, file, elock, mounted, removed, counts>>

\* The lock cannot be had, or the locker's description not be found or parsed.
LookupFails(p) ==
    /\ proc[p].pc \in {"wait", "create"}
    /\ Return(p) /\ UnlockTab(p)
    /\ UNCHANGED <<path, file, elock, mounted, removed, counts>>

\* get_attachent: open with O_CREAT.  A new file has an inode no one uses.
CreateEntry(p) ==
    /\ proc[p].pc = "create"
    /\ LET free == {n \in Inodes : \A q \in Procs : proc[q].ino # n}
           n == IF path # 0 THEN path ELSE CHOOSE n \in free : TRUE
       IN  /\ path' = n
           /\ file' = IF path # 0 THEN file ELSE [file EXCEPT ![n] = Empty]
           /\ proc' = [proc EXCEPT ![p].pc = "created", ![p].ino = n]
    /\ UNCHANGED <<elock, tab, mounted, removed, counts>>

\* get_attachent: the lock on the new file.  Nothing is checked after it.
LockCreated(p) ==
    /\ proc[p].pc = "created"
    /\ elock[proc[p].ino] = Nobody
    /\ elock' = [elock EXCEPT ![proc[p].ino] = p]
    /\ UnlockTab(p)
    /\ Goto(p, "work")
    /\ UNCHANGED <<path, file, mounted, removed, counts>>

\* get_attachent, cleanup: the new file is removed again.
CreateFails(p) ==
    /\ proc[p].pc = "created"
    /\ Unlink(p)
    /\ Return(p) /\ UnlockTab(p)
    /\ UNCHANGED <<file, elock, mounted, counts>>

-----------------------------------------------------------------------------
(* attach_attachent *)

\* The locker is mounted, or was already; who asked for it becomes an owner.
Attach(p) ==
    /\ proc[p].pc = "work" /\ proc[p].op = "attach"
    /\ mounted' = (mounted \/ ~proc[p].attached)
    /\ proc' = [proc EXCEPT ![p].pc = "update", ![p].attached = TRUE, ![p].owners = @ \cup {p}]
    /\ UNCHANGED <<path, file, elock, tab, removed, counts>>

\* Refused, or authentication, the mountpoint or the mount itself fails.
AttachFails(p) ==
    /\ proc[p].pc = "work" /\ proc[p].op = "attach"
    /\ Goto(p, "free")
    /\ UNCHANGED <<path, file, elock, tab, mounted, removed, counts>>

-----------------------------------------------------------------------------
(* detach_attachent *)

Detaching(p) == proc[p].pc = "work" /\ proc[p].op # "attach"
Others(p) == proc[p].owners \ {p}

\* del_owner; "Locker is wanted by others. Not detached."
DetachWanted(p) ==
    /\ Detaching(p)
    /\ OwnerCheck /\ Others(p) # {}
    /\ proc' = [proc EXCEPT ![p].pc = "update", ![p].owners = Others(p)]
    /\ UNCHANGED <<path, file, elock, tab, mounted, removed, counts>>

\* fs->detach and locker__remove_mountpoint.
Detach(p) ==
    /\ Detaching(p)
    /\ ~(OwnerCheck /\ Others(p) # {})
    /\ mounted' = FALSE
    /\ proc' = [proc EXCEPT ![p].pc = "update", ![p].attached = FALSE, ![p].owners = Others(p)]
    /\ UNCHANGED <<path, file, elock, tab, removed, counts>>

\* Refused, locked, or fs->detach fails: the entry is not written.
DetachFails(p) ==
    /\ Detaching(p)
    /\ Goto(p, "free")
    /\ UNCHANGED <<path, file, elock, tab, mounted, removed, counts>>

\* fs->detach succeeds and locker__remove_mountpoint fails: the entry still says
\* the locker is attached.
RemoveMountpointFails(p) ==
    /\ Detaching(p)
    /\ ~(OwnerCheck /\ Others(p) # {})
    /\ faults < MaxFaults
    /\ faults' = faults + 1
    /\ mounted' = FALSE
    /\ Goto(p, "free")
    /\ UNCHANGED <<path, file, elock, tab, removed, calls>>

-----------------------------------------------------------------------------
(* locker__update_attachent, locker_free_attachent *)

Update(p) ==
    /\ proc[p].pc = "update"
    /\ file' = [file EXCEPT ![proc[p].ino] =
                  IF proc[p].attached THEN [there |-> TRUE, owners |-> proc[p].owners] ELSE Empty]
    /\ Goto(p, "free")
    /\ UNCHANGED <<path, elock, tab, mounted, removed, counts>>

\* Variant: the file of an attached locker is not closed.
FreeLeaks(p) ==
    /\ proc[p].pc = "free"
    /\ elock' = IF proc[p].attached THEN elock ELSE Unlocked(p)
    /\ IF proc[p].attached THEN Return(p)
       ELSE proc' = [proc EXCEPT ![p].pc = "delete", ![p].ino = 0]
    /\ UNCHANGED <<path, file, tab, mounted, removed, counts>>

\* Variant: the file is closed after it has been deleted.
FreeKeepsLock(p) ==
    /\ proc[p].pc = "free"
    /\ elock' = IF proc[p].attached THEN Unlocked(p) ELSE elock
    /\ IF proc[p].attached THEN Return(p) ELSE Goto(p, "delete")
    /\ UNCHANGED <<path, file, tab, mounted, removed, counts>>

\* locker_free_attachent: fclose gives the file's lock back, and then the entry
\* is deleted if the locker is not attached.
Free(p) ==
    /\ proc[p].pc = "free"
    /\ elock' = Unlocked(p)
    /\ IF proc[p].attached THEN Return(p)
       ELSE proc' = [proc EXCEPT ![p].pc = "delete", ![p].ino = 0]
    /\ UNCHANGED <<path, file, tab, mounted, removed, counts>>

\* delete_attachent: the table's lock,
LockToDelete(p) ==
    /\ proc[p].pc = "delete"
    /\ tab = Nobody
    /\ tab' = p
    /\ Goto(p, "unlink")
    /\ UNCHANGED <<path, file, elock, mounted, removed, counts>>

\* and whatever file has the entry's name.
DeleteEntry(p) ==
    /\ proc[p].pc = "unlink"
    /\ Unlink(p)
    /\ elock' = Unlocked(p)
    /\ Return(p) /\ UnlockTab(p)
    /\ UNCHANGED <<file, mounted, counts>>

\* Killed; the kernel drops its locks.
Dies(p) ==
    /\ proc[p].pc # "idle"
    /\ faults < MaxFaults
    /\ faults' = faults + 1
    /\ elock' = Unlocked(p)
    /\ UnlockTab(p) /\ Return(p)
    /\ UNCHANGED <<path, file, mounted, removed, calls>>

-----------------------------------------------------------------------------
Lookup(p) == \/ LockTab(p) \/ ListEntries(p) \/ OpenEntry(p) \/ LockEntry(p)
             \/ CheckGone(p) \/ CheckEmpty(p) \/ RemoveEmpty(p) \/ ReadEntry(p)
             \/ CreateEntry(p) \/ LockCreated(p)
Work(p) == \/ Attach(p) \/ AttachFails(p)
           \/ DetachWanted(p) \/ Detach(p) \/ DetachFails(p)
Finish(p) == Update(p) \/ Free(p) \/ LockToDelete(p) \/ DeleteEntry(p)

Step(p) == Lookup(p) \/ Work(p) \/ Finish(p)
Failure(p) == LookupFails(p) \/ CreateFails(p) \/ RemoveMountpointFails(p) \/ Dies(p)

Next == \E p \in Procs : \/ \E op \in Ops : Call(p, op)
                         \/ Step(p)
                         \/ Failure(p)

Spec == Init /\ [][Next]_vars

\* A process that can take a step takes it: system calls return, and a lock that
\* stays free is granted.  No failure is relied on to end a wait.
FairSpec == Spec /\ \A p \in Procs : WF_vars(Step(p))

-----------------------------------------------------------------------------
Pcs == {"idle", "lock", "open", "wait", "check", "empty", "create", "created", "work",
        "update", "free", "delete", "unlink"}

ProcType == [pc : Pcs, op : {"attach", "detach", "sweep"}, again : BOOLEAN,
             ino : Inodes \cup {0}, attached : BOOLEAN, owners : SUBSET Procs]

\* Types; a lock on an entry's file is held only by a process that has that file open
\* (read_attachent, get_attachent, locker_free_attachent).
TypeOK ==
    /\ path \in Inodes \cup {0}
    /\ file \in [Inodes -> [there : BOOLEAN, owners : SUBSET Procs]]
    /\ elock \in [Inodes -> Procs \cup {Nobody}]
    /\ tab \in Procs \cup {Nobody}
    /\ mounted \in BOOLEAN /\ removed \in BOOLEAN
    /\ proc \in [Procs -> ProcType]
    /\ calls \in 0 .. MaxCalls /\ faults \in 0 .. MaxFaults
    /\ \A n \in Inodes : elock[n] # Nobody => proc[elock[n]].ino = n

\* The attachtab says that the locker is attached.
Recorded == path # 0 /\ file[path].there

\* As long as no file in use is removed (ConsistentView says how one can be), one
\* process at a time mounts or unmounts the locker, and in between the attachtab
\* says it is attached exactly if it is mounted, but for a process killed on the
\* way or a mountpoint that could not be removed.
GuardedByEntry ==
    ~removed =>
        /\ \A p, q \in Procs : Working(p) /\ Working(q) => p = q
        /\ (faults = 0 /\ \A p \in Procs : ~Working(p)) => (Recorded <=> mounted)

\* Lookups wait for an entry's lock with the table's lock held, and deleting an
\* entry waits for the table's lock: still, nobody waits for ever.
CallsEnd == \A p \in Procs : proc[p].pc # "idle" ~> proc[p].pc = "idle"

\* The table's lock is there "to guarantee a consistent view of the attachtab"
\* (lock_attachtab): once every call has returned, it says what is attached.
ConsistentView ==
    (faults = 0 /\ \A p \in Procs : proc[p].pc = "idle") => (Recorded <=> mounted)

=============================================================================

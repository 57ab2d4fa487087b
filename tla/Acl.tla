-------------------------------- MODULE Acl ---------------------------------
(***************************************************************************)
(* The access control list of one meeting: the list itself (server/acl.c), *)
(* changing it under the control file's lock (server/acl_core.c), and the  *)
(* copy each server process keeps and checks its callers against           *)
(* (open_mtg in server/coreutil.c).                                        *)
(*                                                                         *)
(* Each process serves one caller, without privileges (has_privs).  Modes  *)
(* are sets of letters (acl_canon sorts them and drops doubles).  A list   *)
(* reads back as it was written: names have at most 100 characters and     *)
(* neither ':' nor a newline.                                              *)
(***************************************************************************)
EXTENDS Integers, Sequences, SequencesExt

CONSTANTS Servers, Nobody,
          Caller,       \* the principal each server process serves
          Principals, Everybody, Modes,
          FirstAcl,     \* the list create_mtg_priv writes
          MaxTime,      \* bound: seconds on the clock
          MaxCalls      \* bound: calls made

VARIABLES clock,    \* time in seconds, what st_mtime is kept in
          acl,      \* the file acl: list, mtime; and whether the list it replaced
                    \* had the same mtime
          tmp,      \* the file acl~: list and mtime; no list while it is not there or
                    \* not written
          lock,     \* who has the lock on the control file
          srv,      \* each server process: pc, call, the list it works on
          cache,    \* each server's mtg_acl and last_acl_mod
          calls     \* calls made

vars == <<clock, acl, tmp, lock, srv, cache, calls>>

Names == Principals \cup {Everybody}
Entry == [principal : Names, modes : SUBSET Modes]

\* A list as create_mtg_priv writes it and acl.c keeps it: one entry for each name, that
\* of everybody last.
Orderly(list) ==
    /\ list \in Seq(Entry)
    /\ \A j, k \in DOMAIN list : list[j].principal = list[k].principal => j = k
    /\ \A k \in DOMAIN list : list[k].principal = Everybody => k = Len(list)

ASSUME FirstAclAssumption == Orderly(FirstAcl)
ASSUME ServersAssumption == Caller \in [Servers -> Principals] /\ Nobody \notin Servers
ASSUME BoundsAssumption == MaxTime \in Nat \ {0} /\ MaxCalls \in Nat

-----------------------------------------------------------------------------
(* acl.c *)

\* The first entry for p itself, or 0.
EntryOf(list, p) == SelectInSeq(list, LAMBDA e : e.principal = p)

\* acl_get_access: the first entry for p or for everybody counts.
AclGetAccess(list, p) ==
    LET k == SelectInSeq(list, LAMBDA e : e.principal \in {p, Everybody})
    IN  IF k = 0 THEN {} ELSE list[k].modes

AclCheck(list, p, mode) == mode \in AclGetAccess(list, p)

\* Variant: a new entry goes to the end, behind that of everybody.
AclAddAccessAtEnd(list, p, modes) ==
    LET k == EntryOf(list, p)
    IN  IF k # 0 THEN [list EXCEPT ![k].modes = @ \cup modes]
        ELSE Append(list, [principal |-> p, modes |-> modes])

\* acl_add_access: join the modes of an entry there is, or add one at the end
\* but before that of everybody.
AclAddAccess(list, p, modes) ==
    LET k == EntryOf(list, p)
        new == [principal |-> p, modes |-> modes]
    IN  IF k # 0 THEN [list EXCEPT ![k].modes = @ \cup modes]
        ELSE IF list # << >> /\ Last(list).principal = Everybody
          THEN Append(Front(list), new) \o <<Last(list)>>
          ELSE Append(list, new)

AclReplaceAccess(list, p, modes) ==
    LET k == EntryOf(list, p)
    IN  IF k # 0 THEN [list EXCEPT ![k].modes = modes] ELSE AclAddAccess(list, p, modes)

AclDeleteAccess(list, p) == RemoveAt(list, EntryOf(list, p))

-----------------------------------------------------------------------------
NoCall == [pc |-> "idle", op |-> "add", p |-> Everybody, modes |-> {}, list |-> << >>]
NoCache == [list |-> << >>, mtime |-> 0]
NoFile == [list |-> << >>, mtime |-> 0]

Init ==
    /\ clock = 1
    /\ acl = [list |-> FirstAcl, mtime |-> 1, again |-> FALSE]
    /\ tmp = NoFile
    /\ lock = Nobody
    /\ srv = [s \in Servers |-> NoCall]
    /\ cache = [s \in Servers |-> NoCache]
    /\ calls = 0

Goto(s, pc) == srv' = [srv EXCEPT ![s].pc = pc]

\* A call arrives: set_access or delete_access, or "add" for any operation that
\* opens the meeting, checks the caller's access and locks the control file.
Call(s, op, p, modes) ==
    /\ srv[s].pc = "idle"
    /\ calls < MaxCalls
    /\ calls' = calls + 1
    /\ srv' = [srv EXCEPT ![s] = [NoCall EXCEPT !.pc = "open", !.op = op, !.p = p,
                                                !.modes = modes]]
    /\ UNCHANGED <<clock, acl, tmp, lock, cache>>

-----------------------------------------------------------------------------
(* set_access and delete_access *)

\* locked_open_mtg: the lock on the control file, without waiting, and the list
\* that is in place.
LockedOpenMtg(s) ==
    /\ srv[s].pc = "open" /\ srv[s].op # "add"
    /\ lock = Nobody
    /\ lock' = s
    /\ srv' = [srv EXCEPT ![s].pc = "modify", ![s].list = acl.list]
    /\ UNCHANGED <<clock, acl, tmp, cache, calls>>

\* Someone else has the lock, or a file cannot be opened: an error is returned,
\* and the lock, if it was taken, is gone.  On the way out acl_destroy is given a
\* pointer that was never set, which may also end the process (Dies).
LockedOpenFails(s) ==
    /\ srv[s].pc = "open" /\ srv[s].op # "add"
    /\ srv' = [srv EXCEPT ![s] = NoCall]
    /\ UNCHANGED <<clock, acl, tmp, lock, cache, calls>>

\* What the caller asks for.
Modified(s) ==
    IF srv[s].op = "set" THEN AclReplaceAccess(srv[s].list, srv[s].p, srv[s].modes)
    ELSE AclDeleteAccess(srv[s].list, srv[s].p)

MayModify(s) ==
    /\ AclCheck(srv[s].list, Caller[s], "c")
    /\ srv[s].op = "delete" => EntryOf(srv[s].list, srv[s].p) # 0

\* The list is changed in core.  Refused with NO_ACCESS and NO_PRINC, and with
\* YOU_TWIT if the caller could not undo it: then the lock is given up.
Modify(s) ==
    /\ srv[s].pc = "modify"
    /\ MayModify(s) /\ AclCheck(Modified(s), Caller[s], "c")
    /\ srv' = [srv EXCEPT ![s] = [NoCall EXCEPT !.pc = "create", !.list = Modified(s)]]
    /\ UNCHANGED <<clock, acl, tmp, lock, cache, calls>>

Unlock(s) ==
    /\ lock' = IF lock = s THEN Nobody ELSE lock
    /\ srv' = [srv EXCEPT ![s] = NoCall]

ModifyRefused(s) ==
    /\ srv[s].pc = "modify"
    /\ MayModify(s) => ~AclCheck(Modified(s), Caller[s], "c")
    /\ Unlock(s)
    /\ UNCHANGED <<clock, acl, tmp, cache, calls>>

\* Variant: the list is not written.
CreateTmpOnly(s) ==
    /\ srv[s].pc = "create"
    /\ tmp' = NoFile
    /\ Goto(s, "rename")
    /\ UNCHANGED <<clock, acl, lock, cache, calls>>

\* locked_close_mtg: open with O_TRUNC.
CreateTmp(s) ==
    /\ srv[s].pc = "create"
    /\ tmp' = NoFile
    /\ Goto(s, "write")
    /\ UNCHANGED <<clock, acl, lock, cache, calls>>

\* acl_write, to the disk.
WriteTmp(s) ==
    /\ srv[s].pc = "write"
    /\ tmp' = [list |-> srv[s].list, mtime |-> clock]
    /\ Goto(s, "rename")
    /\ UNCHANGED <<clock, acl, lock, cache, calls>>

\* Any of the three system calls fails: what acl~ holds stays.
CloseFails(s) ==
    /\ srv[s].pc \in {"create", "write", "rename"}
    /\ Unlock(s)
    /\ UNCHANGED <<clock, acl, tmp, cache, calls>>

\* The commit point.  The file keeps the time it was written at.
Rename(s) ==
    /\ srv[s].pc = "rename"
    /\ acl' = [list |-> tmp.list, mtime |-> tmp.mtime, again |-> tmp.mtime = acl.mtime]
    /\ tmp' = NoFile
    /\ Goto(s, "close")
    /\ UNCHANGED <<clock, lock, cache, calls>>

Close(s) ==
    /\ srv[s].pc = "close"
    /\ Unlock(s)
    /\ UNCHANGED <<clock, acl, tmp, cache, calls>>

-----------------------------------------------------------------------------
(* The other operations *)

\* Variant: the time of the reading, not of the file.
CachedNow(s) ==
    IF cache[s].mtime # 0 /\ acl.mtime <= cache[s].mtime THEN cache[s]
    ELSE [list |-> acl.list, mtime |-> clock]

\* open_mtg: the list in core is kept unless the file's time is later.
Cached(s) ==
    IF cache[s].mtime # 0 /\ acl.mtime <= cache[s].mtime THEN cache[s]
    ELSE [list |-> acl.list, mtime |-> acl.mtime]

\* open_mtg and has_mtg_access.
OpenMtg(s) ==
    /\ srv[s].pc = "open" /\ srv[s].op = "add"
    /\ cache' = [cache EXCEPT ![s] = Cached(s)]
    /\ Goto(s, IF AclCheck(Cached(s).list, Caller[s], "w") THEN "lock" ELSE "refused")
    /\ UNCHANGED <<clock, acl, tmp, lock, calls>>

\* aopen: wait for the lock.
LockControl(s) ==
    /\ srv[s].pc = "lock"
    /\ lock = Nobody
    /\ lock' = s
    /\ Goto(s, "work")
    /\ UNCHANGED <<clock, acl, tmp, cache, calls>>

\* aclose, or the answer NO_ACCESS.
Answer(s) ==
    /\ srv[s].pc \in {"work", "refused"}
    /\ Unlock(s)
    /\ UNCHANGED <<clock, acl, tmp, cache, calls>>

\* The process ends and the kernel drops its locks; another one starts in its
\* place with nothing in core.
Dies(s) ==
    /\ srv[s].pc # "idle"
    /\ Unlock(s)
    /\ cache' = [cache EXCEPT ![s] = NoCache]
    /\ UNCHANGED <<clock, acl, tmp, calls>>

Tick ==
    /\ clock < MaxTime
    /\ clock' = clock + 1
    /\ UNCHANGED <<acl, tmp, lock, srv, cache, calls>>

-----------------------------------------------------------------------------
Step(s) ==
    \/ LockedOpenMtg(s) \/ LockedOpenFails(s) \/ Modify(s) \/ ModifyRefused(s)
    \/ CreateTmp(s) \/ WriteTmp(s) \/ CloseFails(s) \/ Rename(s) \/ Close(s)
    \/ OpenMtg(s) \/ LockControl(s) \/ Answer(s)

Next ==
    \/ \E s \in Servers :
         \/ Call(s, "add", Everybody, {})
         \/ \E p \in Names : \/ Call(s, "delete", p, {})
                             \/ \E modes \in SUBSET Modes : Call(s, "set", p, modes)
         \/ Step(s)
         \/ Dies(s)
    \/ Tick

Spec == Init /\ [][Next]_vars

-----------------------------------------------------------------------------
\* Types; every list in place, written or kept in core is one of whole entries, and no
\* file or copy is from the future (locked_close_mtg, open_mtg).
TypeOK ==
    /\ clock \in 1 .. MaxTime
    /\ acl \in [list : Seq(Entry), mtime : 1 .. clock, again : BOOLEAN]
    /\ tmp \in [list : Seq(Entry), mtime : 0 .. clock]
    /\ lock \in Servers \cup {Nobody}
    /\ srv \in [Servers -> [pc : {"idle", "open", "modify", "create", "write", "rename",
                                  "close", "lock", "work", "refused"},
                            op : {"add", "set", "delete"}, p : Names,
                            modes : SUBSET Modes, list : Seq(Entry)]]
    /\ cache \in [Servers -> [list : Seq(Entry), mtime : 0 .. clock]]
    /\ calls \in 0 .. MaxCalls

\* What the list gives to each name, as acl_check finds it.
Given(list) == [p \in {list[k].principal : k \in DOMAIN list} |-> AclGetAccess(list, p)]

A == INSTANCE Access WITH FirstGiven <- {Given(FirstAcl)}, given <- Given(acl.list)

\* The file in place changes only by what one call of someone who controls the
\* meeting asks for, applied to the list in place: no change is lost by two
\* servers' calls, a crash or a failing write, every entry counts, and the caller
\* controls the meeting before and afterwards.
IsAccess == A!Spec

\* An operation decides by the list in place when it opens the meeting, unless
\* that list replaced one written in the same second.
DecidesByListInPlace ==
    [][\A s \in Servers :
         (srv[s].pc = "open" /\ srv'[s].pc \in {"lock", "refused"} /\ ~acl.again) =>
            srv'[s].pc = (IF AclCheck(acl.list, Caller[s], "w") THEN "lock" ELSE "refused")]_vars

=============================================================================

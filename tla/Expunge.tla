------------------------------ MODULE Expunge ------------------------------
(***************************************************************************)
(* The expunge program (server/expunge.c) rebuilding a meeting without its *)
(* deleted transactions while servers go on using it.                      *)
(*                                                                         *)
(* The program copies the meeting at "loc" into a new one at "bak", until  *)
(* it has them all; it locks the old one, makes sure nothing was added,    *)
(* renames "loc" to "fut" and "bak" to "loc", and removes "fut".  It marks *)
(* the removed control file (date_created = 0), so that a server that had  *)
(* it open and waits for its lock finds out and opens the new one.         *)
(*                                                                         *)
(* A server call is open_mtg, then the lock on the file it has open, then  *)
(* its changes in memory, then aclose, which writes them and unlocks.      *)
(* Locks are fcntl locks: closing any descriptor of a file drops them all. *)
(*                                                                         *)
(* Beside each control file is the meeting's acl, which moves with it.  Of *)
(* the acl only st_mtime matters here: open_mtg closes and opens again     *)
(* what it has open when the acl at the name has become newer, in seconds. *)
(***************************************************************************)
EXTENDS MeetingOps, FiniteSetsExt

CONSTANTS Servers,
          Expunger,        \* the expunge program, as the owner of a lock
          Nobody,
          Starts,          \* what may be at the start: a meeting, and the bounds on
                           \* calls to it and on runs of the program
          MaxFiles,        \* bound: control files ever made
          MaxCalls,        \* bound: the numbers calls get, which are also their texts
          ExpungerMayDie   \* whether the program may be killed

ASSUME NoFlagsAssumption == 0 \in TrnFlags
ASSUME LockersAssumption == Expunger \notin Servers /\ Nobody \notin Servers \cup {Expunger}
ASSUME FilesAssumption == MaxFiles \in Nat /\ MaxCalls \in Nat
ASSUME StartsAssumption ==
    \A start \in Starts :
       /\ start.calls \in 0 .. MaxCalls /\ start.runs \in 0 .. MaxFiles - 1
       /\ MtgType(start.meeting) /\ start.meeting.created
       /\ MeetingLinked(start.meeting) /\ ChainsLinked(start.meeting)
       /\ ChainNumbers(start.meeting)

\* Every run of the program makes one new file.
Files == 1 .. MaxFiles
NoFile == << >>

VARIABLES file,     \* control files: f -> meeting, or NoFile
          text,     \* transactions files: f -> number -> text
          dir,      \* directories: name -> file, or 0
          lock,     \* f -> who has the exclusive lock
          acl,      \* f -> st_mtime of the acl beside it
          now,      \* the time, in seconds, of the last change of an acl
          srv,      \* server -> its call in progress
          exp,      \* the expunge program
          acked,    \* adds that were answered with success
          gone,     \* texts that somebody deleted
          started   \* calls so far, which gives each its text

vars == << file, text, dir, lock, acl, now, srv, exp, acked, gone, started >>

Ops == {"add", "delete", "retrieve"}

\* f and mod are what open_mtg keeps from one call to the next: the file that is
\* open, and last_acl_mod.
NoCall == [pc |-> "idle", op |-> "add", t |-> 0, id |-> 0, f |-> 0, mod |-> 0,
           again |-> FALSE, mem |-> EmptyMeeting]
Idle(c) == [NoCall EXCEPT !.f = c.f, !.mod = c.mod]

\* mod is last_acl_mod as the last check left it.
NoRun == [pc |-> "start", i |-> 1, high |-> 0, old |-> 0, mod |-> 0, pref |-> 0,
          no_nuke |-> FALSE, super |-> EmptyMeeting, disturbed |-> FALSE]

Init ==
    /\ \E start \in Starts :
         LET m == start.meeting
             first == MaxFiles - start.runs
         IN  /\ file = [f \in Files |-> IF f <= first THEN m ELSE NoFile]
             /\ text = [f \in Files |-> IF f <= first THEN [i \in Trns(m) |-> i] ELSE << >>]
             /\ acked = {[n |-> i, id |-> i, late |-> FALSE] : i \in Stored(m)}
             /\ gone = Stored(m) \ Live(m)
             /\ started = MaxCalls - start.calls
             /\ dir = [name \in {"loc", "bak", "fut"} |-> IF name = "loc" THEN first ELSE 0]
    /\ lock = [f \in Files |-> Nobody]
    /\ acl = [f \in Files |-> 0] /\ now = 0
    /\ srv = [s \in Servers |-> NoCall]
    /\ exp = NoRun

-----------------------------------------------------------------------------
(* The servers *)

Call(s, op, t) ==
    /\ srv[s].pc = "idle"
    /\ started < MaxCalls
    /\ started' = started + 1
    /\ srv' = [srv EXCEPT ![s] = [Idle(@) EXCEPT !.pc = "open", !.op = op, !.t = t,
                                                !.id = started + 1]]
    /\ UNCHANGED << file, text, dir, lock, acl, now, exp, acked, gone >>

\* open_mtg: the descriptors of the last call are kept as long as the acl at
\* "loc" is no newer than the one that came with them.
OpenMtg(s) ==
    LET c == srv[s]
        cached == c.f # 0 /\ acl[dir["loc"]] <= c.mod
    IN  /\ c.pc = "open"
        /\ srv' = [srv EXCEPT ![s] =
                     IF dir["loc"] = 0 THEN NoCall
                     ELSE IF cached THEN [c EXCEPT !.pc = "lock"]
                     ELSE [c EXCEPT !.pc = "lock", !.f = dir["loc"], !.mod = acl[dir["loc"]]]]
        /\ UNCHANGED << file, text, dir, lock, acl, now, exp, acked, gone, started >>

\* The neighbours that the searches of retrieve_trn find.
Before(S, t) == LET B == {j \in S : j < t} IN IF B = {} THEN 0 ELSE Max(B)
After(S, t) == LET A == {j \in S : j > t} IN IF A = {} THEN 0 ELSE Min(A)
RetrieveTrn(m, t) ==
    LET chain == ChainMembers(m, m.blk[t].trn_chain)
    IN  RelinkTrn(m, t, [prev |-> Before(Live(m), t), next |-> After(Live(m), t),
                         pref |-> Before(chain, t), nref |-> After(chain, t)])

Allowed(m, c) ==
    CASE c.op = "add" -> CanReply(m, c.t)
      [] c.op = "delete" -> CanDelete(m, c.t)
      [] c.op = "retrieve" -> CanRetrieve(m, c.t)

Changed(m, c) ==
    CASE c.op = "add" -> AddTrn(m, c.t, 0)
      [] c.op = "delete" -> DeleteTrn(m, c.t)
      [] c.op = "retrieve" -> RetrieveTrn(m, c.t)

\* "Meeting has been expunged": add_trn asks once; delete_trn and retrieve_trn
\* do not ask.
MustReopen(m, c) == c.op = "add" /\ ~m.created /\ ~c.again

\* The call gets the lock (aopen), reads the meeting and makes its changes in
\* memory, opens the meeting again, or is refused.
Work(s) ==
    LET c == srv[s]
        m == file[c.f]
    IN  /\ c.pc = "lock" /\ lock[c.f] = Nobody
        /\ \/ /\ MustReopen(m, c)
              /\ srv' = [srv EXCEPT ![s] = [c EXCEPT !.pc = "open", !.again = TRUE]]
              /\ UNCHANGED lock
           \/ /\ ~MustReopen(m, c) /\ Allowed(m, c)
              /\ srv' = [srv EXCEPT ![s] = [c EXCEPT !.pc = "close", !.mem = Changed(m, c)]]
              /\ lock' = [lock EXCEPT ![c.f] = s]
           \/ /\ ~MustReopen(m, c) /\ ~Allowed(m, c)
              /\ srv' = [srv EXCEPT ![s] = Idle(c)]
              /\ UNCHANGED lock
        /\ UNCHANGED << file, text, dir, acl, now, exp, acked, gone, started >>

\* Variant: the answer is given without unlocking.
CommitKeepsLock(s) ==
    LET c == srv[s]
        n == c.mem.highest
    IN  /\ c.pc = "close"
        /\ file' = [file EXCEPT ![c.f] = c.mem]
        /\ text' = IF c.op = "add" THEN [text EXCEPT ![c.f] = [i \in 1 .. n |-> IF i = n THEN c.id ELSE @[i]]]
                   ELSE text
        /\ srv' = [srv EXCEPT ![s] = Idle(c)]
        /\ UNCHANGED << dir, lock, acl, now, exp, acked, gone, started >>

\* aclose, and the answer to the caller.  An add is late if the program has looked for
\* new transactions for the last time, or the file is no longer the meeting.
Commit(s) ==
    LET c == srv[s]
        n == c.mem.highest
    IN  /\ c.pc = "close"
        /\ file' = [file EXCEPT ![c.f] = c.mem]
        /\ text' = IF c.op = "add" THEN [text EXCEPT ![c.f] = [i \in 1 .. n |-> IF i = n THEN c.id ELSE @[i]]]
                   ELSE text
        /\ acked' = IF c.op = "add"
                    THEN acked \cup {[n |-> n, id |-> c.id,
                                      late |-> dir["loc"] # c.f \/ exp.pc = "rename1"]}
                    ELSE acked
        /\ gone' = IF c.op = "delete" THEN gone \cup {text[c.f][c.t]} ELSE gone
        /\ exp' = IF c.op = "add" THEN exp ELSE [exp EXCEPT !.disturbed = TRUE]
        /\ lock' = [lock EXCEPT ![c.f] = Nobody]
        /\ srv' = [srv EXCEPT ![s] = Idle(c)]
        /\ UNCHANGED << dir, acl, now, started >>

\* set_access or delete_access, whose steps Acl has: the acl at "loc" is written anew,
\* in the same second as the last change of one or in a later one.  The control file
\* is locked meanwhile (F_SETLK: the call is refused if somebody else has the lock).
SetAccess(s) ==
    /\ srv[s].pc = "idle"
    /\ dir["loc"] # 0 /\ lock[dir["loc"]] = Nobody
    /\ started < MaxCalls
    /\ started' = started + 1
    /\ now' \in {now, now + 1}
    /\ acl' = [acl EXCEPT ![dir["loc"]] = now']
    /\ UNCHANGED << file, text, dir, lock, srv, exp, acked, gone >>

ServerDies(s) ==
    /\ srv[s].pc # "idle"
    /\ srv' = [srv EXCEPT ![s] = NoCall]
    /\ lock' = [f \in Files |-> IF lock[f] = s THEN Nobody ELSE lock[f]]
    /\ UNCHANGED << file, text, dir, acl, now, exp, acked, gone, started >>

-----------------------------------------------------------------------------
(* The expunge program.  After an error while copying (error_occurred) it  *)
(* goes through the remaining numbers, reading "loc" and writing "bak",    *)
(* and exits before the renames: nothing but the left-over "bak" comes of  *)
(* it, so here it exits at once.                                           *)

UnusedFiles == {f \in Files : file[f] = NoFile}

\* The shared lock of start_read, unless no_nuke is set.
MayRead(f) == exp.no_nuke \/ lock[f] = Nobody

Exit == [NoRun EXCEPT !.pc = "exit"]

serverVars == << srv, acked, gone, started, acl, now >>

\* The lock as the program leaves it when it closes a descriptor of file f.
Dropped(f) == [lock EXCEPT ![f] = IF @ = Expunger THEN Nobody ELSE @]

\* Variant: numbers from 0.
StartFromZero ==
    /\ exp.pc = "start" /\ dir["loc"] # 0 /\ dir["bak"] = 0
    /\ \E f \in UnusedFiles : /\ dir' = [dir EXCEPT !["bak"] = f]
                              /\ file' = [file EXCEPT ![f] = EmptyMeeting]
    /\ exp' = [NoRun EXCEPT !.pc = "info", !.old = dir["loc"], !.i = 0,
                            !.high = file[dir["loc"]].highest]
    /\ UNCHANGED << text, lock, serverVars >>

\* get_mtg_info, then create_mtg_priv: DUP_MTG_NAME if a run left "bak" behind.  The
\* new acl has what the old one has now.
Start ==
    /\ exp.pc = "start" /\ dir["loc"] # 0 /\ MayRead(dir["loc"])
    /\ \/ /\ dir["bak"] = 0
          /\ now' \in {now, now + 1}
          /\ \E f \in UnusedFiles : /\ dir' = [dir EXCEPT !["bak"] = f]
                                    /\ file' = [file EXCEPT ![f] = EmptyMeeting]
                                    /\ acl' = [acl EXCEPT ![f] = now']
          /\ exp' = [NoRun EXCEPT !.pc = "info", !.old = dir["loc"],
                                  !.high = file[dir["loc"]].highest]
       \/ /\ dir["bak"] # 0
          /\ exp' = Exit /\ UNCHANGED << file, dir, acl, now >>
    /\ UNCHANGED << text, lock, srv, acked, gone, started >>

\* Variant: prev is taken for pref.
GetInfoPrev ==
    LET cb == file[exp.old].blk[exp.i]
    IN  /\ exp.pc = "info" /\ exp.i <= exp.high /\ MayRead(exp.old)
        /\ exp' = IF cb.trn_addr = 0 \/ cb.deleted THEN [exp EXCEPT !.pc = "hole"]
                  ELSE [exp EXCEPT !.pc = "text", !.pref = cb.prev]
        /\ UNCHANGED << file, text, dir, lock, serverVars >>

\* Variant: every transaction is copied as a new thread.
GetInfoNoPref ==
    LET cb == file[exp.old].blk[exp.i]
    IN  /\ exp.pc = "info" /\ exp.i <= exp.high /\ MayRead(exp.old)
        /\ exp' = IF cb.trn_addr = 0 \/ cb.deleted THEN [exp EXCEPT !.pc = "hole"]
                  ELSE [exp EXCEPT !.pc = "text", !.pref = 0]
        /\ UNCHANGED << file, text, dir, lock, serverVars >>

\* get_trn_info3 of transaction i.
GetInfo ==
    LET cb == file[exp.old].blk[exp.i]
    IN  /\ exp.pc = "info" /\ exp.i <= exp.high /\ MayRead(exp.old)
        /\ exp' = IF cb.trn_addr = 0 \/ cb.deleted THEN [exp EXCEPT !.pc = "hole"]
                  ELSE [exp EXCEPT !.pc = "text", !.pref = cb.pref]
        /\ UNCHANGED << file, text, dir, lock, serverVars >>

\* Variant: a deleted transaction is left out, and its number with it.
CopyNoHole ==
    /\ exp.pc = "hole"
    /\ exp' = [exp EXCEPT !.pc = "info", !.i = @ + 1, !.no_nuke = FALSE]
    /\ UNCHANGED << file, text, dir, lock, serverVars >>

\* expunge_trn at "bak".
CopyHole ==
    LET f == dir["bak"]
    IN  /\ exp.pc = "hole"
        /\ \E pref, chain \in Junk, flags \in TrnFlags :
              file' = [file EXCEPT ![f] = ExpungeTrn(@, pref, chain, flags)]
        /\ text' = [text EXCEPT ![f] = [i \in 1 .. exp.i |-> IF i = exp.i THEN 0 ELSE @[i]]]
        /\ exp' = [exp EXCEPT !.pc = "info", !.i = @ + 1, !.no_nuke = FALSE]
        /\ UNCHANGED << dir, lock, serverVars >>

\* get_trn of transaction i: an error if it was deleted since.
GetTrn ==
    /\ exp.pc = "text" /\ MayRead(exp.old)
    /\ exp' = IF file[exp.old].blk[exp.i].deleted THEN [Exit EXCEPT !.disturbed = exp.disturbed]
              ELSE [exp EXCEPT !.pc = "add"]
    /\ UNCHANGED << file, text, dir, lock, serverVars >>

\* add_trn_priv at "bak", as a reply to what its pref was: an error if that was
\* not copied.
CopyTrn ==
    LET f == dir["bak"]
    IN  /\ exp.pc = "add"
        /\ \/ /\ CanReply(file[f], exp.pref)
              /\ file' = [file EXCEPT ![f] = AddTrn(@, exp.pref, file[exp.old].blk[exp.i].flags)]
              /\ text' = [text EXCEPT ![f] = [i \in 1 .. exp.i |-> IF i = exp.i THEN text[exp.old][i]
                                                                   ELSE @[i]]]
              /\ exp' = [exp EXCEPT !.pc = "info", !.i = @ + 1, !.no_nuke = FALSE]
           \/ /\ ~CanReply(file[f], exp.pref)
              /\ exp' = [Exit EXCEPT !.disturbed = exp.disturbed]
              /\ UNCHANGED << file, text >>
        /\ UNCHANGED << dir, lock, serverVars >>

\* Variant: >= for >.
CheckAgain ==
    LET highest == file[exp.old].highest
    IN  /\ exp.pc = "info" /\ exp.i > exp.high /\ MayRead(exp.old)
        /\ exp' = IF highest >= exp.high THEN [exp EXCEPT !.high = highest]
                  ELSE [exp EXCEPT !.pc = "lock"]
        /\ UNCHANGED << file, text, dir, lock, serverVars >>

\* "Check if any new transactions have been added."  What was open was "bak", so
\* open_mtg opens "loc" and its acl.
Check ==
    LET highest == file[exp.old].highest
    IN  /\ exp.pc = "info" /\ exp.i > exp.high /\ MayRead(exp.old)
        /\ exp' = IF highest > exp.high THEN [exp EXCEPT !.high = highest]
                  ELSE [exp EXCEPT !.pc = "lock", !.mod = acl[exp.old]]
        /\ UNCHANGED << file, text, dir, lock, serverVars >>

LockOld ==
    /\ exp.pc = "lock" /\ lock[exp.old] = Nobody
    /\ lock' = [lock EXCEPT ![exp.old] = Expunger]
    /\ exp' = [exp EXCEPT !.pc = "recheck"]
    /\ UNCHANGED << file, text, dir, serverVars >>

\* The acl of the old meeting has become newer since the last check.
AclNewer == acl[exp.old] > exp.mod

\* Variant: get_mtg_info's own unlocking drops the program's lock.
RecheckOpenUnlocks ==
    /\ exp.pc = "recheck"
    /\ exp' = [exp EXCEPT !.pc = "reread"]
    /\ lock' = Dropped(exp.old)
    /\ UNCHANGED << file, text, dir, serverVars >>

\* get_mtg_info with the lock, and no_nuke set for the rest of the run or up to the
\* next copy.  If the acl is newer, open_mtg closes its descriptor of the same file,
\* and the lock is gone.
RecheckOpen ==
    /\ exp.pc = "recheck"
    /\ exp' = [exp EXCEPT !.pc = "reread", !.no_nuke = TRUE]
    /\ lock' = IF AclNewer THEN Dropped(exp.old) ELSE lock
    /\ UNCHANGED << file, text, dir, serverVars >>

\* Variant: what was read under the lock is not looked at.
RecheckNot ==
    /\ exp.pc = "reread"
    /\ exp' = [exp EXCEPT !.pc = "rename1"]
    /\ UNCHANGED << file, text, dir, lock, serverVars >>

\* read_super, and back to copying if there are new transactions.
Recheck ==
    LET highest == file[exp.old].highest
    IN  /\ exp.pc = "reread"
        /\ \/ /\ highest > exp.high
              /\ exp' = [exp EXCEPT !.pc = "info", !.high = highest]
              /\ lock' = Dropped(exp.old)
           \/ /\ highest <= exp.high
              /\ exp' = [exp EXCEPT !.pc = "rename1"]
              /\ UNCHANGED lock
        /\ UNCHANGED << file, text, dir, serverVars >>

\* Variant: the old meeting is removed, not renamed.
Rename1Removes ==
    /\ exp.pc = "rename1"
    /\ dir' = [dir EXCEPT !["loc"] = 0]
    /\ exp' = [exp EXCEPT !.pc = "rename2"]
    /\ UNCHANGED << file, text, lock, serverVars >>

\* Variant: the second rename is left out.
Rename1Only ==
    /\ exp.pc = "rename1" /\ dir["fut"] = 0
    /\ dir' = [dir EXCEPT !["fut"] = dir["loc"], !["loc"] = 0]
    /\ exp' = [exp EXCEPT !.pc = "remove"]
    /\ UNCHANGED << file, text, lock, serverVars >>

\* rename to a directory that is not empty fails.
Rename1 ==
    /\ exp.pc = "rename1"
    /\ \/ /\ dir["fut"] = 0
          /\ dir' = [dir EXCEPT !["fut"] = dir["loc"], !["loc"] = 0]
          /\ exp' = [exp EXCEPT !.pc = "rename2"]
          /\ UNCHANGED lock
       \/ /\ dir["fut"] # 0
          /\ exp' = Exit
          /\ lock' = Dropped(exp.old)
          /\ UNCHANGED dir
    /\ UNCHANGED << file, text, serverVars >>

Rename2 ==
    /\ exp.pc = "rename2"
    /\ dir' = [dir EXCEPT !["loc"] = dir["bak"], !["bak"] = 0]
    /\ exp' = [exp EXCEPT !.pc = "remove"]
    /\ UNCHANGED << file, text, lock, serverVars >>

\* remove_mtg: open_mtg of "fut" closes the descriptors it has of "loc", which are
\* of the same file, and so gives up the lock.
RemoveOpen ==
    /\ exp.pc = "remove"
    /\ lock' = Dropped(exp.old)
    /\ exp' = [exp EXCEPT !.pc = "unlink"]
    /\ UNCHANGED << file, text, dir, serverVars >>

\* The files and the directory go; read_super of the file that is still open.
RemoveUnlink ==
    /\ exp.pc = "unlink"
    /\ dir' = [dir EXCEPT !["fut"] = 0]
    /\ exp' = [exp EXCEPT !.pc = "mark", !.super = file[exp.old]]
    /\ UNCHANGED << file, text, lock, serverVars >>

\* Variant: the old ends go to the meeting that is now at "loc".
RemoveMarkNew ==
    LET sb == exp.super
    IN  /\ exp.pc = "mark"
        /\ file' = [file EXCEPT ![dir["loc"]] = [@ EXCEPT !.first = sb.first, !.last = sb.last]]
        /\ exp' = Exit
        /\ UNCHANGED << text, dir, lock, serverVars >>

\* date_created = 0; write_super, without a lock.
RemoveMark ==
    LET sb == exp.super
    IN  /\ exp.pc = "mark"
        /\ file' = [file EXCEPT ![exp.old] =
                      [@ EXCEPT !.first = sb.first, !.last = sb.last,
                                !.highest = sb.highest, !.highest_chain = sb.highest_chain,
                                !.highest_trn_addr = sb.highest_trn_addr, !.created = FALSE]]
        /\ exp' = Exit
        /\ UNCHANGED << text, dir, lock, serverVars >>

\* Killed; the kernel drops its lock.
ExpungerDies ==
    /\ ExpungerMayDie /\ exp.pc \notin {"start", "exit"}
    /\ exp' = Exit
    /\ lock' = [f \in Files |-> IF lock[f] = Expunger THEN Nobody ELSE lock[f]]
    /\ UNCHANGED << file, text, dir, serverVars >>

\* What is on disk of an add that is cut off, which was to make r of m: with no_nuke
\* set write_chain writes each block straight to the file, and write_super comes last.
\* (expunge_trn writes no block that is in use before write_super.)
PartsOf(m, r) ==
    {[m EXCEPT !.blk = [i \in Trns(m) |-> IF i \in done THEN r.blk[i] ELSE m.blk[i]]] :
        done \in SUBSET Trns(m)}

\* Killed in the middle of add_trn_priv at "bak".
DiesCopying ==
    LET f == dir["bak"]
    IN  /\ ExpungerMayDie /\ exp.pc = "add" /\ CanReply(file[f], exp.pref)
        /\ \E m \in PartsOf(file[f], AddTrn(file[f], exp.pref, file[exp.old].blk[exp.i].flags)) :
              file' = [file EXCEPT ![f] = m]
        /\ exp' = Exit
        /\ UNCHANGED << text, dir, lock, serverVars >>

\* The program is run again.
Rerun ==
    /\ exp.pc = "exit" /\ UnusedFiles # {} /\ dir["loc"] # 0
    /\ exp' = NoRun
    /\ UNCHANGED << file, text, dir, lock, serverVars >>

Expunging ==
    \/ GetInfo \/ CopyHole \/ GetTrn \/ CopyTrn \/ Check \/ LockOld
    \/ RecheckOpen \/ Recheck \/ Rename1 \/ Rename2 \/ RemoveOpen \/ RemoveUnlink \/ RemoveMark

ServerStep(s) == OpenMtg(s) \/ Work(s) \/ Commit(s)

Next ==
    \/ \E s \in Servers : \/ \E op \in Ops, t \in 0 .. MaxCalls : Call(s, op, t)
                          \/ ServerStep(s) \/ SetAccess(s) \/ ServerDies(s)
    \/ Start \/ Expunging \/ ExpungerDies \/ DiesCopying \/ Rerun

Spec == Init /\ [][Next]_vars

\* A process that runs keeps running, and the kernel hands a lock on to those who
\* wait for it (F_SETLKW); nobody is obliged to start a call.
FairSpec ==
    /\ Spec
    /\ \A s \in Servers : WF_vars(OpenMtg(s) \/ Commit(s)) /\ SF_vars(Work(s))
    /\ SF_vars(Start \/ Expunging)

-----------------------------------------------------------------------------
(* Properties *)

\* Types: in particular open_mtg and the program always have a file, and the copying
\* goes by transaction numbers.
TypeOK ==
    /\ DOMAIN file = Files
    /\ \A f \in Files : file[f] # NoFile => file[f].highest \in Nat /\ file[f].created \in BOOLEAN
    /\ DOMAIN text = Files
    /\ dir \in [{"loc", "bak", "fut"} -> Files \cup {0}]
    /\ lock \in [Files -> Servers \cup {Expunger, Nobody}]
    /\ acl \in [Files -> 0 .. now]
    /\ \A s \in Servers : /\ srv[s].pc \in {"idle", "open", "lock", "close"}
                          /\ srv[s].f \in Files \cup {0}
    /\ exp.pc \in {"start", "info", "hole", "text", "add", "lock", "recheck", "reread",
                   "rename1", "rename2", "remove", "unlink", "mark", "exit"}
    /\ exp.i \in Nat \ {0} /\ exp.high \in Nat /\ exp.old \in Files \cup {0}
    /\ acked \subseteq [n : Nat \ {0}, id : Nat, late : BOOLEAN]

\* The new meeting while it is at "bak", and then at "loc" until the old one is removed.
New == IF exp.pc \in {"remove", "unlink", "mark"} THEN dir["loc"] ELSE dir["bak"]
Copying == exp.pc \notin {"start", "exit"}

\* The copy has the numbers of the old meeting, without gaps, with the same texts.
CopyInStep ==
    Copying =>
      LET m == file[New]
      IN  /\ m.highest >= exp.i - 1
          /\ \A i \in 1 .. exp.i - 1 : i \in Stored(m) =>
                /\ i \in Stored(file[exp.old])
                /\ text[New][i] = text[exp.old][i]

\* Copying by pref, whatever is deleted and retrieved meanwhile, never puts
\* transactions of two threads into one.
NeverMerged ==
    Copying =>
      \A i, j \in Stored(file[New]) \cap 1 .. exp.i - 1 :
         file[New].blk[i].trn_chain = file[New].blk[j].trn_chain
           => file[exp.old].blk[i].trn_chain = file[exp.old].blk[j].trn_chain

\* If nothing is deleted or retrieved meanwhile, no thread is split either, and
\* the copying does not fail.
UndisturbedCopy ==
    Copying /\ ~exp.disturbed =>
      /\ \A i \in 1 .. exp.i - 1 : i \in Live(file[exp.old]) <=> i \in Live(file[New])
      /\ \A i, j \in Stored(file[New]) \cap 1 .. exp.i - 1 :
           file[exp.old].blk[i].trn_chain = file[exp.old].blk[j].trn_chain
             => file[New].blk[i].trn_chain = file[New].blk[j].trn_chain
      /\ exp.pc = "add" => CanReply(file[New], exp.pref)

\* What is at "loc" and at "fut" is a meeting with its links in order, and so is what
\* is at "bak" from the time it is to be moved.  None is shown half built: the copy that
\* a run leaves behind which was killed in the middle of an add is never moved.
NamedLinked ==
    \A name \in DOMAIN dir :
       dir[name] # 0 /\ (name = "bak" => exp.pc \in {"rename1", "rename2"} \/ dir["loc"] = 0)
         => MeetingLinked(file[dir[name]]) /\ ChainsLinked(file[dir[name]])

\* From the check under the lock to the end of the second rename nobody else has the
\* old meeting, and all its numbers are in the new one ("When we get here, we have the
\* old meeting locked").  But if its acl was changed between the program's last two
\* checks, open_mtg has dropped the lock, and neither is so.
MoveIsWhole ==
    exp.pc \in {"rename1", "rename2", "remove"} /\ ~AclNewer =>
       /\ lock[exp.old] = Expunger
       /\ Trns(file[exp.old]) \subseteq Trns(file[New])

\* The meeting as its users find it; between the renames, the one about to be there.
Current == IF dir["loc"] # 0 THEN dir["loc"] ELSE dir["bak"]

InMeeting(a) == /\ a.n \in Stored(file[Current])
                /\ text[Current][a.n] = a.id

\* An add that was answered before the program looked for the last time, or by a meeting
\* that is not being moved, is there for good, unless somebody deletes it: also when the
\* program has lost its lock and the meeting changes while it is moved.
AckedBeforeMove == \A a \in acked : a.late \/ a.id \in gone \/ InMeeting(a)

\* expunge.c: "When we get here, we have the old meeting locked.  Now we do the
\* move as atomically as we can."  Then no add that was answered is lost.
AckedIsKept == \A a \in acked : a.id \in gone \/ InMeeting(a)

\* Between the renames there is no meeting at "loc", and if the program is killed
\* there it stays so.  But then the old one is whole at "fut" for somebody to rename
\* back, even if that run was not the first: nothing in "bak" is missing there, and
\* what servers that had it open have added since is there as well.
BothThere ==
    dir["loc"] = 0 =>
       /\ dir["fut"] # 0 /\ dir["bak"] # 0
       /\ Trns(file[dir["bak"]]) \subseteq Trns(file[dir["fut"]])
       /\ file[dir["fut"]].created
       /\ \A a \in acked : \/ a.late \/ a.id \in gone
                           \/ a.n \in Stored(file[dir["fut"]]) /\ text[dir["fut"]][a.n] = a.id

\* Every call ends: the locks of other servers and of the program, which are taken
\* and dropped again and again, do not keep it waiting for good.
CallsEnd == \A s \in Servers : srv[s].pc # "idle" ~> srv[s].pc = "idle"

\* The program ends, although new transactions send it back to copying (goto
\* expunge_range) from both checks, and does not leave the meeting without its name.
ExpungeEnds == Copying ~> ~Copying /\ dir["loc"] # 0

=============================================================================

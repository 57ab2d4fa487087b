-------------------------------- MODULE Dcm --------------------------------
(***************************************************************************)
(* Moira's data control manager (third/moira/dcm/dcm.pc) for one service:  *)
(* a run has the service's data generated, sends it to every host that is  *)
(* due, and then has every host that took it install it.  Runs keep their  *)
(* state in two tables of the database, servers and serverhosts, so that   *)
(* failed hosts are tried again, and mark what they work on there.  Several*)
(* runs may be on the way: cron starts them, the moira server does and     *)
(* people do.  A run may die anywhere, the database remains.               *)
(*                                                                         *)
(* Statements from one COMMIT to the next are one step, except a SELECT    *)
(* that is used as a guard.  Enabled hosts and services only.              *)
(***************************************************************************)
EXTENDS UpdateServer, Sequences, FiniteSets, SequencesExt

CONSTANTS Dcms,        \* runs of dcm that may be on the way at once
          HostOrder,   \* the service's hosts, as the cursors return them
          Interval,    \* servers.update_int
          MaxTime, MaxVer, MaxRuns, MaxFaults, MaxCrashes   \* bounds

ASSUME HostOrderAssumption == HostOrder \in Seq(ToSet(HostOrder))
ASSUME IntervalAssumption == Interval \in Nat

Hosts == ToSet(HostOrder)

VARIABLES now,      \* the clock, in seconds
          ver,      \* the version of the data in Moira's tables
          srv,      \* the service's row of servers
          shost,    \* its rows of serverhosts
          made,     \* the version of the generator's working files
          out,      \* DCM_DIR/<service>.out
          host,     \* the hosts themselves
          dcm,      \* the local state of each run
          kind,     \* what sort of service this is
          hist      \* history, for the bounds and the properties

tables == << srv, shost >>
files == << made, out >>
world == << now, ver, kind >>
vars == << tables, files, world, host, dcm, hist >>

Idle == [pc |-> "idle", t |-> 0, todo |-> {}, said |-> 0, res |-> "ok"]

Init ==
    /\ now = Interval + 1 /\ ver = 1 /\ made = 0 /\ out = Partial
    /\ srv = [dfgen |-> 0, dfcheck |-> 0, inprogress |-> FALSE, harderror |-> FALSE]
    /\ shost = [h \in Hosts |-> [inprogress |-> FALSE, success |-> FALSE,
                                 hosterror |-> FALSE, lts |-> 0]]
    /\ host = [h \in Hosts |-> NewHost]
    /\ dcm = [d \in Dcms |-> Idle]
    /\ kind \in [replicated : BOOLEAN, noticesNoChange : BOOLEAN]
    /\ hist = [runs |-> 0, faults |-> 0, crashes |-> 0, last |-> 0, gen |-> 0, raced |-> FALSE]

At(d, pc) == dcm[d].pc = pc
Goto(d, pc) == dcm' = [dcm EXCEPT ![d].pc = pc]
Exit(d) == dcm' = [dcm EXCEPT ![d] = Idle]
AllIdle == \A d \in Dcms : At(d, "idle")

\* The hosts that a loop has not come to yet are taken in the cursor's order.
First(todo) == HostOrder[Min({k \in DOMAIN HostOrder : HostOrder[k] \in todo})]
Cur(d) == First(dcm[d].todo)

\* A failure uses up one of MaxFaults.
Fault(res) == /\ res = "ok" \/ hist.faults < MaxFaults
              /\ hist' = [hist EXCEPT !.faults = IF res = "ok" THEN @ ELSE @ + 1]

-----------------------------------------------------------------------------
(* generate_service *)

\* The service is looked at: from main's list it is not one with a hard error; it is
\* not in progress; and it is time, unless the run is forced.  Generating and sending
\* each take longer than the second they start in.
GenRead(d, byHand, force) ==
    /\ At(d, "idle") /\ hist.runs < MaxRuns /\ hist.last < now
    /\ force => byHand
    /\ byHand \/ ~srv.harderror
    /\ ~srv.inprogress
    /\ force \/ srv.dfcheck + Interval < now
    /\ dcm' = [dcm EXCEPT ![d].pc = "genmark", ![d].t = now]
    /\ hist' = [hist EXCEPT !.runs = @ + 1, !.last = now]
    /\ UNCHANGED << tables, files, host, world >>

GenMark(d) ==
    /\ At(d, "genmark")
    /\ srv' = [srv EXCEPT !.inprogress = TRUE]
    /\ hist' = [hist EXCEPT !.raced = @ \/ srv.inprogress]
    /\ Goto(d, "gen")
    /\ UNCHANGED << shost, files, host, world >>

\* The generator makes its working files and then the output, in place, as tar does
\* in hesiod.gen and as access.gen does.
GenWrite(d) ==
    /\ At(d, "gen")
    /\ made' = ver /\ out' = Partial
    /\ Goto(d, "genwait")
    /\ UNCHANGED << tables, host, world, hist >>

\* hesiod.gen finds that no working file has changed, and some output.
GenNoChange(d) ==
    /\ At(d, "gen") /\ kind.noticesNoChange /\ made = ver
    /\ srv' = [srv EXCEPT !.dfcheck = dcm[d].t, !.inprogress = FALSE]
    /\ Exit(d)
    /\ UNCHANGED << shost, files, host, world, hist >>

GenDone(d) ==
    /\ At(d, "genwait")
    /\ out' = made
    /\ srv' = [srv EXCEPT !.dfgen = dcm[d].t, !.dfcheck = dcm[d].t, !.inprogress = FALSE]
    /\ hist' = [hist EXCEPT !.gen = made]
    /\ Goto(d, "hosts")
    /\ UNCHANGED << shost, made, host, world >>

GenFails(d, hard) ==
    /\ At(d, "gen") \/ At(d, "genwait")
    /\ Fault("failed")
    /\ srv' = [srv EXCEPT !.inprogress = FALSE, !.harderror = @ \/ hard]
    /\ Exit(d)
    /\ UNCHANGED << shost, files, host, world >>

-----------------------------------------------------------------------------
(* do_hosts *)

\* Variant: a host that was updated less than an interval before is not due.
DueLater(h) == ~shost[h].hosterror /\ shost[h].lts + Interval < srv.dfgen

Due(h) == ~shost[h].hosterror /\ shost[h].lts < srv.dfgen
Taken(h) == ~shost[h].hosterror /\ shost[h].inprogress

\* The hosts that are due, if no other run is generating by now.
HostsStart(d) ==
    /\ At(d, "hosts")
    /\ IF srv.inprogress
       THEN Exit(d)
       ELSE dcm' = [dcm EXCEPT ![d] = [Idle EXCEPT !.pc = "check", !.t = now,
                                                   !.todo = {h \in Hosts : Due(h)}]]
    /\ hist' = [hist EXCEPT !.last = now]
    /\ UNCHANGED << tables, files, host, world >>

\* The next host to send to: if somebody else has it, the run is over.
HostCheck(d) ==
    /\ At(d, "check") /\ dcm[d].todo # {}
    /\ IF shost[Cur(d)].inprogress THEN Exit(d) ELSE Goto(d, "mark")
    /\ UNCHANGED << tables, files, host, world, hist >>

HostMark(d) ==
    /\ At(d, "mark")
    /\ shost' = [shost EXCEPT ![Cur(d)].inprogress = TRUE]
    /\ hist' = [hist EXCEPT !.raced = @ \/ shost[Cur(d)].inprogress]
    /\ Goto(d, "connect")
    /\ UNCHANGED << srv, files, host, world >>

\* dcm_send_file up to the request: no connection is soft, refusals are hard.
Connect(d, res) ==
    /\ At(d, "connect") \/ (At(d, "exec") /\ dcm[d].todo # {})
    /\ res # "ok" /\ Fault(res)
    /\ dcm' = [dcm EXCEPT ![d].res = res, ![d].pc = IF @ = "exec" THEN "execd" ELSE "sent"]
    /\ UNCHANGED << tables, files, host, world >>

\* The size and the checksum of the file are sent, and the host makes room for it.
SendStart(d) ==
    /\ At(d, "connect")
    /\ \E a \in Accepted(host[Cur(d)], d) :
          /\ host' = [host EXCEPT ![Cur(d)] = a[1]]
          /\ Fault(a[2])
          /\ dcm' = [dcm EXCEPT ![d].said = out, ![d].res = a[2],
                                ![d].pc = IF a[2] = "ok" THEN "send" ELSE "sent"]
    /\ UNCHANGED << tables, files, world >>

\* The data: not what was announced, if it was generated anew meanwhile.
SendData(d) ==
    /\ At(d, "send")
    /\ \E data \in IF out = dcm[d].said THEN {out} ELSE {out, Partial} :
         \E r \in Received(host[Cur(d)], d, dcm[d].said, data) :
            /\ host' = [host EXCEPT ![Cur(d)] = r[1]]
            /\ Fault(r[2])
            /\ dcm' = [dcm EXCEPT ![d].res = r[2], ![d].pc = "sent"]
    /\ UNCHANGED << tables, files, world >>

\* The row of a host after a failure; a soft one leaves it to the next run.
Failed(row, res) == [row EXCEPT !.inprogress = FALSE, !.success = FALSE,
                                !.hosterror = row.hosterror \/ res = "hard"]
Done(row, t) == [row EXCEPT !.inprogress = FALSE, !.success = TRUE, !.lts = t]

\* Variant: a replicated service's loops go on after a failure.
AfterGoOn(d, pc) ==
    dcm' = [dcm EXCEPT ![d].pc = pc, ![d].todo = @ \ {Cur(d)}, ![d].said = 0, ![d].res = "ok"]

\* Variant: the loop takes up the next host where it was with this one.
AfterStay(d, pc) == dcm' = [dcm EXCEPT ![d].todo = @ \ {Cur(d)}]

\* Both loops go on with the next host, but the first failure ends them for a
\* replicated service.
After(d, pc) ==
    IF kind.replicated /\ dcm[d].res # "ok"
    THEN Goto(d, "finish")
    ELSE dcm' = [dcm EXCEPT ![d].pc = pc, ![d].todo = @ \ {Cur(d)}, ![d].said = 0,
                            ![d].res = "ok"]

SendRecord(d) ==
    /\ At(d, "sent")
    /\ shost' = IF dcm[d].res = "ok" THEN shost
                ELSE [shost EXCEPT ![Cur(d)] = Failed(shost[Cur(d)], dcm[d].res)]
    /\ After(d, "check")
    /\ UNCHANGED << srv, files, host, world, hist >>

\* The second cursor: every host marked as in progress.
ExecStart(d) ==
    /\ At(d, "check") /\ dcm[d].todo = {}
    /\ dcm' = [dcm EXCEPT ![d].pc = "exec", ![d].todo = {h \in Hosts : Taken(h)}]
    /\ UNCHANGED << tables, files, host, world, hist >>

Exec(d) ==
    /\ At(d, "exec") /\ dcm[d].todo # {}
    /\ \E r \in Executed(host[Cur(d)]) :
          /\ host' = [host EXCEPT ![Cur(d)] = r[1]]
          /\ Fault(r[2])
          /\ dcm' = [dcm EXCEPT ![d].pc = "execd", ![d].res = r[2]]
    /\ UNCHANGED << tables, files, world >>

\* Variant: the result of the script is not looked at.
ExecRecordBlind(d) ==
    /\ At(d, "execd")
    /\ shost' = [shost EXCEPT ![Cur(d)] = Done(shost[Cur(d)], dcm[d].t)]
    /\ After(d, "exec")
    /\ UNCHANGED << srv, files, host, world, hist >>

ExecRecord(d) ==
    /\ At(d, "execd")
    /\ shost' = [shost EXCEPT ![Cur(d)] = IF dcm[d].res = "ok"
                                          THEN Done(shost[Cur(d)], dcm[d].t)
                                          ELSE Failed(shost[Cur(d)], dcm[d].res)]
    /\ After(d, "exec")
    /\ UNCHANGED << srv, files, host, world, hist >>

\* Variant: the hosts that the loops did not come to keep their marks.
FinishMarked(d) ==
    /\ At(d, "finish") \/ (At(d, "exec") /\ dcm[d].todo = {})
    /\ IF kind.replicated /\ At(d, "finish") /\ dcm[d].res = "hard"
       THEN srv' = [srv EXCEPT !.harderror = TRUE]
       ELSE UNCHANGED srv
    /\ Exit(d)
    /\ UNCHANGED << shost, files, host, world, hist >>

\* A replicated service leaves no host marked, and a hard failure stops it.
Finish(d) ==
    /\ At(d, "finish") \/ (At(d, "exec") /\ dcm[d].todo = {})
    /\ IF kind.replicated
       THEN /\ shost' = [h \in Hosts |-> [shost[h] EXCEPT !.inprogress = FALSE]]
            /\ srv' = [srv EXCEPT !.harderror = @ \/ (At(d, "finish") /\ dcm[d].res = "hard")]
       ELSE UNCHANGED tables
    /\ Exit(d)
    /\ UNCHANGED << files, host, world, hist >>

-----------------------------------------------------------------------------
(* What else happens *)

\* A run dies; what it has not committed is undone.
Dies(d) ==
    /\ ~At(d, "idle") /\ hist.crashes < MaxCrashes
    /\ hist' = [hist EXCEPT !.crashes = @ + 1]
    /\ Exit(d)
    /\ UNCHANGED << tables, files, host, world >>

\* gen_cleanup and host_cleanup: they do not commit, but the database may, at exit.
SqlError(d) ==
    /\ hist.crashes < MaxCrashes
    /\ hist' = [hist EXCEPT !.crashes = @ + 1]
    /\ \/ /\ \E pc \in {"genmark", "gen", "genwait"} : At(d, pc)
          /\ srv' = [srv EXCEPT !.inprogress = FALSE, !.harderror = TRUE]
          /\ UNCHANGED shost
       \/ /\ \E pc \in {"check", "mark", "sent", "exec", "execd"} : At(d, pc)
          /\ dcm[d].todo # {}
          /\ shost' = [shost EXCEPT ![Cur(d)] = Failed(shost[Cur(d)], "hard")]
          /\ srv' = [srv EXCEPT !.harderror = @ \/ kind.replicated]
    /\ Exit(d)
    /\ UNCHANGED << files, host, world >>

\* The menus of the moira client, used while no run is on the way.
ResetServerError ==
    /\ AllIdle
    /\ srv' = [srv EXCEPT !.harderror = FALSE, !.dfcheck = srv.dfgen]
    /\ UNCHANGED << shost, files, world, host, dcm, hist >>

ResetServer ==
    /\ AllIdle
    /\ srv' = [dfgen |-> 0, dfcheck |-> 0, inprogress |-> FALSE, harderror |-> FALSE]
    /\ UNCHANGED << shost, files, world, host, dcm, hist >>

ResetHostError(h) ==
    /\ AllIdle
    /\ shost' = [shost EXCEPT ![h].hosterror = FALSE]
    /\ UNCHANGED << srv, files, world, host, dcm, hist >>

ResetHost(h) ==
    /\ AllIdle
    /\ shost' = [shost EXCEPT ![h] = [inprogress |-> FALSE, success |-> FALSE,
                                      hosterror |-> FALSE, lts |-> 0]]
    /\ UNCHANGED << srv, files, world, host, dcm, hist >>

Change ==
    /\ ver < MaxVer /\ ver' = ver + 1
    /\ UNCHANGED << tables, files, now, kind, host, dcm, hist >>

Tick ==
    /\ now < MaxTime /\ now' = now + 1
    /\ UNCHANGED << tables, files, ver, kind, host, dcm, hist >>

-----------------------------------------------------------------------------
(* The specification *)

Generating(d) ==
    \/ GenMark(d) \/ GenWrite(d) \/ GenNoChange(d) \/ GenDone(d)
    \/ \E hard \in BOOLEAN : GenFails(d, hard)

Distributing(d) ==
    \/ HostsStart(d) \/ HostCheck(d) \/ HostMark(d)
    \/ \E res \in {"soft", "hard"} : Connect(d, res)
    \/ SendStart(d) \/ SendData(d) \/ SendRecord(d)
    \/ ExecStart(d) \/ Exec(d) \/ ExecRecord(d) \/ Finish(d)

Operator ==
    \/ ResetServerError \/ ResetServer
    \/ \E h \in Hosts : ResetHostError(h) \/ ResetHost(h)

Next ==
    \/ \E d \in Dcms :
          \/ \E byHand, force \in BOOLEAN : GenRead(d, byHand, force)
          \/ Generating(d) \/ Distributing(d) \/ Dies(d) \/ SqlError(d)
    \/ Operator \/ Change \/ Tick

Spec == Init /\ [][Next]_vars

\* cron starts runs, time goes on, and a run that is on the way goes on.
FairSpec ==
    /\ Spec
    /\ WF_vars(Tick)
    /\ \A d \in Dcms : /\ WF_vars(GenRead(d, FALSE, FALSE))
                       /\ WF_vars(Generating(d) \/ Distributing(d))

-----------------------------------------------------------------------------
(* Properties *)

Pcs == {"idle", "genmark", "gen", "genwait", "hosts", "check", "mark", "connect", "send",
        "sent", "exec", "execd", "finish"}

\* Types; a run has a current host wherever it uses one.
TypeOK ==
    /\ now \in Nat /\ ver \in Nat /\ made \in Nat /\ out \in Nat \cup {Partial}
    /\ srv \in [dfgen : Nat, dfcheck : Nat, inprogress : BOOLEAN, harderror : BOOLEAN]
    /\ shost \in [Hosts -> [inprogress : BOOLEAN, success : BOOLEAN, hosterror : BOOLEAN, lts : Nat]]
    /\ \A h \in Hosts : /\ host[h].path.by \in Dcms \cup {Nobody}
                        /\ host[h].path.data \in Nat \cup {NoFile, Partial}
                        /\ host[h].inst \in Nat \cup {Partial}
    /\ \A d \in Dcms : /\ dcm[d].pc \in Pcs /\ dcm[d].t \in Nat
                       /\ dcm[d].res \in {"ok", "soft", "hard"}
                       /\ dcm[d].pc \in {"mark", "connect", "send", "sent", "execd"}
                            => dcm[d].todo # {}

\* What the tables say of a host is true of it: one that is not in error and not due
\* has what was generated last, whatever failed and whenever runs died before.
RecordedIsInstalled ==
    \A h \in Hosts : 0 < srv.dfgen /\ srv.dfgen <= shost[h].lts => host[h].inst = hist.gen

\* Marks are left in the tables only by a run that died: runs that fail clear theirs,
\* whichever hosts they had and wherever they broke off.
MarksCleared ==
    AllIdle /\ hist.crashes = 0 =>
       ~srv.inprogress /\ \A h \in Hosts : ~shost[h].inprogress

\* A replicated service is installed nowhere before every host that is to have it has
\* got the file whole.
SentBeforeInstalled ==
    [][ \A h \in Hosts : kind.replicated /\ host'[h].inst # host[h].inst =>
          \A k \in Hosts : Due(k) => host[k].path.data = out ]_vars

\* Soft failures need nobody: when data has stopped changing and failures are over,
\* with time for another run after those on the way, every host ends up with the data
\* or in error.  Not so for a generator that notices that nothing has changed.
Calm == /\ ver = MaxVer /\ hist.faults = MaxFaults /\ hist.crashes = 0
        /\ AllIdle /\ hist.runs < MaxRuns /\ now + Interval < MaxTime
        /\ ~kind.noticesNoChange

Retried ==
    Calm ~> \/ srv.harderror \/ hist.crashes > 0
            \/ \A h \in Hosts : host[h].inst = ver \/ shost[h].hosterror

\* dcm.pc: "Check if someone got here before we did.  There's still a race condition
\* here, but it's a small one."  Then, while nobody marks what is marked already, no
\* host has two runs at work on it.
Busy(d) == IF dcm[d].pc \in {"connect", "send", "exec", "execd"} /\ dcm[d].todo # {}
           THEN {Cur(d)} ELSE {}

OneAtATime == hist.raced \/ \A c, d \in Dcms : c # d => Busy(c) \cap Busy(d) = {}

=============================================================================

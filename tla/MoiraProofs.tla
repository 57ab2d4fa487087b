----------------------------- MODULE MoiraProofs -----------------------------
(***************************************************************************)
(* Proofs about Dcm, for any hosts in any order, any interval, and any     *)
(* numbers of runs, failures, deaths and versions of the data; and about   *)
(* Moirad with its Imembers, for any finite set of lists, any other        *)
(* members, any size of the arrays and any numbers of queries and faults.  *)
(*                                                                         *)
(* Dcm.  The types hold for any runs (TypesKeep).  The other properties    *)
(* are those of runs that do not overlap (OneRun): the inductive invariant *)
(* IInv adds to the types how the times in the tables compare (TimeInv),   *)
(* that a run distributes what was generated last (OutInv), which hosts    *)
(* have been sent it (SentInv) and which are marked (MarkInv) at each step *)
(* of the run.                                                             *)
(*                                                                         *)
(* Moirad.  The inductive invariant MoiradIInv says of the table that each *)
(* count is the number of ways over the first direct row and no list is in *)
(* itself (RightTable), and of each row that the last update in the queue  *)
(* for it, or if there is none the one that is under way, says what the    *)
(* table says (FollowsInv).  ChangeCounts shows that adding or taking away *)
(* the product of the ways to the list and the ways from the member is     *)
(* right; that the counts are those of Walks (RightIsFlattened), and that  *)
(* a delete leaves none below 0 (CountsAreNat), is by induction over the   *)
(* lists that are in a list (Below).                                       *)
(*                                                                         *)
(* Induction is over a set, of numbers (Counting) or of subsets of a       *)
(* finite set (Building).                                                  *)
(***************************************************************************)
EXTENDS Dcm, Moirad, FiniteSetTheorems, SequenceTheorems, WellFoundedInduction, TLAPS

Data == Nat \cup {NoFile, Partial}
Row == [inprogress : BOOLEAN, success : BOOLEAN, hosterror : BOOLEAN, lts : Nat]
HostType == [path : [by : Dcms \cup {Nobody}, data : Data], inst : Nat \cup {Partial}]
RunType == [pc : Pcs, t : Nat, todo : SUBSET Hosts, said : Nat \cup {Partial},
            res : {"ok", "soft", "hard"}]
HasHost == {"mark", "connect", "send", "sent", "execd"}

SrvType == srv \in [dfgen : Nat, dfcheck : Nat, inprogress : BOOLEAN, harderror : BOOLEAN]
ShostType == shost \in [Hosts -> Row]
HostsType == host \in [Hosts -> HostType]
HistType == hist \in [runs : Nat, faults : Nat, crashes : Nat, last : Nat, gen : Nat,
                      raced : BOOLEAN]
WorldType == /\ now \in Nat /\ ver \in Nat /\ made \in Nat /\ out \in Nat \cup {Partial}
             /\ kind \in [replicated : BOOLEAN, noticesNoChange : BOOLEAN]
RunsType == /\ dcm \in [Dcms -> RunType]
            /\ \A d \in Dcms : dcm[d].pc \in HasHost => dcm[d].todo # {}

Types == SrvType /\ ShostType /\ HostsType /\ HistType /\ WorldType /\ RunsType

\* One run is on the way at a time: the only one, or no other before it has ended.
OneRun == \A c, d \in Dcms : c = d

FirstLoop == {"check", "mark", "connect", "send", "sent"}
SecondLoop == {"exec", "execd"}
Sending == FirstLoop \cup SecondLoop \cup {"hosts", "finish"}

\* Times are those of runs that have started; what was generated last is due everywhere
\* until it is recorded.
TimeInv ==
    /\ hist.last <= now /\ srv.dfgen <= hist.last
    /\ \A h \in Hosts : shost[h].lts <= hist.last
    /\ \A d \in Dcms :
          /\ dcm[d].t <= hist.last
          /\ dcm[d].pc \in {"genmark", "gen", "genwait"} =>
                0 < dcm[d].t /\ \A h \in Hosts : shost[h].lts < dcm[d].t
          /\ dcm[d].pc \in Sending => 0 < srv.dfgen /\ srv.dfgen <= dcm[d].t
          /\ dcm[d].pc \in FirstLoop \cup {"hosts"} =>
                \A h \in Hosts : shost[h].lts < srv.dfgen
          /\ dcm[d].pc \in SecondLoop => \A h \in dcm[d].todo : shost[h].lts < srv.dfgen

\* What a run distributes is what was generated last.
OutInv ==
    \A d \in Dcms :
       /\ dcm[d].pc \in Sending => out = hist.gen
       /\ dcm[d].pc = "send" => dcm[d].said = out

Sent(h) == host[h].path.data = out

\* The first loop leaves a host behind as sent to or as one not to go on with; the second
\* finds every host that it comes to sent to, and of a replicated service every host that
\* is due.
SentInv ==
    \A d \in Dcms :
       LET r == dcm[d]
       IN  /\ r.pc \in FirstLoop =>
                /\ \A h \in r.todo : ~shost[h].hosterror
                /\ \A h \in Hosts \ r.todo :
                      Taken(h) \/ (kind.replicated /\ Due(h)) => Sent(h)
           /\ r.pc = "sent" /\ r.res = "ok" => Sent(Cur(d))
           /\ r.pc \in SecondLoop =>
                \A h \in Hosts :
                   h \in r.todo \/ (kind.replicated /\ Due(h)) =>
                      Sent(h) \/ (r.pc = "execd" /\ h = Cur(d))
           /\ r.pc = "execd" /\ r.res = "ok" => host[Cur(d)].inst = hist.gen
           /\ r.pc = "finish" => kind.replicated

\* While no run has died, a host is marked only where the run on the way will clear it.
MarkInv ==
    hist.crashes = 0 =>
       /\ srv.inprogress => \E d \in Dcms : dcm[d].pc \in {"gen", "genwait"}
       /\ \A h \in Hosts : shost[h].inprogress =>
             \E d \in Dcms :
                LET r == dcm[d]
                IN  \/ /\ r.pc \in FirstLoop /\ ~shost[h].hosterror
                       /\ h \notin r.todo \/ (h = Cur(d) /\ r.pc \in {"connect", "send", "sent"})
                    \/ r.pc \in SecondLoop /\ h \in r.todo
                    \/ r.pc = "finish"

RunInv == TimeInv /\ OutInv /\ SentInv /\ MarkInv /\ RecordedIsInstalled
IInv == Types /\ RunInv

-----------------------------------------------------------------------------
\* A set of numbers has a least one.
LEMMA LeastOf ==
  ASSUME NEW S, S \subseteq Nat, S # {}
  PROVE  Min(S) \in S /\ \A y \in S : Min(S) <= y
<1> DEFINE R == OpToRel(<, Nat)
<1>1. \A x, y \in Nat : x < y => <<x, y>> \in R
  BY DEF OpToRel
<1>2. IsWellFoundedOn(R, Nat)
  BY NatLessThanWellFounded
<1> HIDE DEF R
<1>3. PICK x \in S : \A y \in S : ~(<<y, x>> \in R)
  BY <1>2, WFMin
<1>4. ASSUME NEW y \in S PROVE x <= y
  <2>1. ~(y < x) /\ x \in Nat /\ y \in Nat
    BY <1>1, <1>3
  <2> QED
    BY <2>1
<1> QED
  BY <1>4 DEF Min

\* The host a loop is at is one it has not come past.
LEMMA FirstIs ==
  ASSUME NEW todo \in SUBSET Hosts, todo # {}
  PROVE  First(todo) \in todo
<1> DEFINE K == {k \in DOMAIN HostOrder : HostOrder[k] \in todo}
<1>1. K \subseteq Nat
  BY HostOrderAssumption
<1>2. K # {}
  BY DEF Hosts, ToSet
<1>3. Min(K) \in K
  BY <1>1, <1>2, LeastOf
<1> QED
  BY <1>3 DEF First

-----------------------------------------------------------------------------
(* What a step does to the parts of the state                              *)

\* The fields of run d after a step; the other runs are where they were.
Becomes(d, pc, t, todo, said, res) ==
    /\ dcm'[d].pc = pc /\ dcm'[d].t = t /\ dcm'[d].todo = todo
    /\ dcm'[d].said = said /\ dcm'[d].res = res
    /\ \A c \in Dcms : c # d => dcm'[c] = dcm[c]

\* A step of a run.
LEMMA Changing ==
  ASSUME RunsType, NEW d \in Dcms, NEW r \in RunType, r.pc \in HasHost => r.todo # {},
         dcm' = [dcm EXCEPT ![d] = r]
  PROVE  RunsType' /\ Becomes(d, r.pc, r.t, r.todo, r.said, r.res)
<1>1. dcm' \in [Dcms -> RunType] /\ dcm'[d] = r /\ \A c \in Dcms : c # d => dcm'[c] = dcm[c]
  BY DEF RunsType
<1>2. \A c \in Dcms : dcm'[c].pc \in HasHost => dcm'[c].todo # {}
  BY <1>1 DEF RunsType
<1> QED
  BY <1>1, <1>2 DEF RunsType, Becomes

\* What is known of a run.
LEMMA RunIs ==
  ASSUME RunsType, NEW d \in Dcms
  PROVE  /\ DOMAIN dcm = Dcms /\ dcm[d] \in RunType
         /\ dcm[d].pc \in Pcs /\ dcm[d].t \in Nat /\ dcm[d].todo \in SUBSET Hosts
         /\ dcm[d].said \in Nat \cup {Partial} /\ dcm[d].res \in {"ok", "soft", "hard"}
         /\ dcm[d].pc \in HasHost => dcm[d].todo # {}
  BY DEF RunsType, RunType

\* A run goes on.
LEMMA Going ==
  ASSUME RunsType, NEW d \in Dcms, NEW pc \in Pcs, pc \in HasHost => dcm[d].todo # {},
         Goto(d, pc)
  PROVE  RunsType' /\ Becomes(d, pc, dcm[d].t, dcm[d].todo, dcm[d].said, dcm[d].res)
<1> DEFINE r == [dcm[d] EXCEPT !.pc = pc]
<1>1. dcm' = [dcm EXCEPT ![d] = r]
  BY DEF Goto
<1>2. dcm[d] \in RunType
  BY RunIs
<1>3. /\ r \in RunType /\ r.pc = pc /\ r.t = dcm[d].t /\ r.todo = dcm[d].todo
      /\ r.said = dcm[d].said /\ r.res = dcm[d].res
  BY <1>2 DEF RunType
<1> HIDE DEF r
<1> QED
  BY <1>1, <1>3, Changing

\* A run ends.
LEMMA Exiting ==
  ASSUME RunsType, NEW d \in Dcms, Exit(d)
  PROVE  RunsType' /\ Becomes(d, "idle", 0, {}, 0, "ok")
<1>1. /\ Idle \in RunType /\ Idle.pc = "idle" /\ Idle.t = 0 /\ Idle.todo = {}
      /\ Idle.said = 0 /\ Idle.res = "ok" /\ ~(Idle.pc \in HasHost)
  BY DEF Idle, RunType, Pcs, HasHost
<1> QED
  BY <1>1, Changing DEF Exit

\* A host's row is changed.
LEMMA RowStep ==
  ASSUME ShostType, NEW h \in Hosts, NEW row \in Row, shost' = [shost EXCEPT ![h] = row]
  PROVE  /\ ShostType' /\ shost'[h] = row
         /\ \A k \in Hosts : k # h => shost'[k] = shost[k]
  BY DEF ShostType

\* What is known of a host's row.
LEMMA RowIs ==
  ASSUME ShostType, NEW h \in Hosts
  PROVE  /\ DOMAIN shost = Hosts /\ shost[h] \in Row
         /\ shost[h].lts \in Nat
         /\ shost[h].inprogress \in BOOLEAN /\ shost[h].hosterror \in BOOLEAN
  BY DEF ShostType, Row

\* The row of a host that could not be updated.
LEMMA FailedIs ==
  ASSUME NEW row \in Row, NEW res
  PROVE  LET f == Failed(row, res)
         IN  /\ f \in Row /\ f.lts = row.lts /\ ~f.inprogress
             /\ f.hosterror <=> row.hosterror \/ res = "hard"
<1> DEFINE e == row.hosterror \/ res = "hard"
<1>1. e \in BOOLEAN
  OBVIOUS
<1>2. Failed(row, res) = [row EXCEPT !.inprogress = FALSE, !.success = FALSE, !.hosterror = e]
  BY Zenon DEF Failed
<1> HIDE DEF e
<1>3. /\ Failed(row, res) \in Row /\ Failed(row, res).lts = row.lts
      /\ Failed(row, res).inprogress = FALSE /\ Failed(row, res).hosterror = e
  BY <1>1, <1>2 DEF Row
<1> QED
  BY <1>3, Zenon DEF e

\* The row of one that was.
LEMMA DoneIs ==
  ASSUME NEW row \in Row, NEW t \in Nat
  PROVE  LET f == Done(row, t)
         IN  /\ f \in Row /\ f.lts = t /\ f.inprogress = FALSE
             /\ f.hosterror = row.hosterror
  BY DEF Done, Row

\* A row that is marked, or no longer.
LEMMA MarkedIs ==
  ASSUME NEW row \in Row, NEW b \in BOOLEAN
  PROVE  LET f == [row EXCEPT !.inprogress = b]
         IN  /\ f \in Row /\ f.lts = row.lts /\ f.inprogress = b
             /\ f.hosterror = row.hosterror
  BY DEF Row

\* A host is changed.
LEMMA HostStep ==
  ASSUME HostsType, NEW h \in Hosts, NEW x \in HostType, host' = [host EXCEPT ![h] = x]
  PROVE  /\ HostsType' /\ host'[h] = x
         /\ \A k \in Hosts : k # h => host'[k] = host[k]
  BY DEF HostsType

\* Bounds and history apart from what the properties speak of.
SameHist == hist'.last = hist.last /\ hist'.gen = hist.gen /\ hist'.crashes = hist.crashes

\* A failure is counted.
LEMMA FaultIs ==
  ASSUME HistType, NEW res, Fault(res)
  PROVE  HistType' /\ SameHist
<1>1. hist.faults \in Nat /\ hist.faults + 1 \in Nat
  BY DEF HistType
<1>2. PICK n \in Nat : hist' = [hist EXCEPT !.faults = n]
  BY <1>1 DEF Fault
<1> QED
  BY <1>2 DEF HistType, SameHist

-----------------------------------------------------------------------------
(* What each step does                                                     *)

SameTables == srv' = srv /\ shost' = shost
SameFiles == made' = made /\ out' = out
SameWorld == now' = now /\ ver' = ver /\ kind' = kind

\* What is left alone keeps its type.
LEMMA SameTypes ==
  ASSUME Types
  PROVE  /\ UNCHANGED srv => SrvType'
         /\ UNCHANGED shost => ShostType'
         /\ UNCHANGED host => HostsType'
         /\ UNCHANGED hist => HistType' /\ SameHist
         /\ SameFiles /\ SameWorld => WorldType'
         /\ UNCHANGED dcm => RunsType'
  BY DEF Types, SrvType, ShostType, HostsType, HistType, WorldType, RunsType, SameHist,
         SameFiles, SameWorld

\* The service is looked at.
LEMMA GenReadIs ==
  ASSUME Types, NEW d \in Dcms, NEW byHand, NEW force, GenRead(d, byHand, force)
  PROVE  /\ Types' /\ SameTables /\ SameFiles /\ SameWorld /\ UNCHANGED host
         /\ At(d, "idle") /\ hist.last < now /\ ~srv.inprogress
         /\ Becomes(d, "genmark", now, dcm[d].todo, dcm[d].said, dcm[d].res)
         /\ hist'.last = now /\ hist'.gen = hist.gen /\ hist'.crashes = hist.crashes
<1>1. /\ SrvType /\ ShostType /\ HostsType /\ HistType /\ WorldType /\ RunsType
      /\ now \in Nat
  BY DEF Types, WorldType
<1>2. SameTables /\ SameFiles /\ SameWorld /\ UNCHANGED host
  BY DEF GenRead, SameTables, SameFiles, SameWorld, tables, files, world
<1>3. HistType' /\ hist'.last = now /\ hist'.gen = hist.gen /\ hist'.crashes = hist.crashes
  <2>1. hist.runs \in Nat /\ hist.runs + 1 \in Nat
    BY <1>1 DEF HistType
  <2>2. PICK n \in Nat : hist' = [hist EXCEPT !.runs = n, !.last = now]
    BY <2>1 DEF GenRead
  <2> QED
    BY <1>1, <2>2 DEF HistType
<1>4. RunsType' /\ Becomes(d, "genmark", now, dcm[d].todo, dcm[d].said, dcm[d].res)
  <2> DEFINE r == [dcm[d] EXCEPT !.pc = "genmark", !.t = now]
  <2>1. dcm[d] \in RunType
    BY <1>1, RunIs
  <2>2. dcm' = [dcm EXCEPT ![d] = r]
    BY <1>1 DEF GenRead
  <2>3. /\ r \in RunType /\ r.pc = "genmark" /\ r.t = now /\ r.todo = dcm[d].todo
        /\ r.said = dcm[d].said /\ r.res = dcm[d].res /\ ~("genmark" \in HasHost)
    BY <1>1, <2>1 DEF RunType, Pcs, HasHost
  <2> HIDE DEF r
  <2> QED
    BY <1>1, <2>2, <2>3, Changing
<1>5. At(d, "idle") /\ hist.last < now /\ ~srv.inprogress
  BY DEF GenRead
<1> QED
  BY <1>2, <1>3, <1>4, <1>5, SameTypes DEF Types, SameTables

\* It is marked.
LEMMA GenMarkIs ==
  ASSUME Types, NEW d \in Dcms, GenMark(d)
  PROVE  /\ Types' /\ UNCHANGED shost /\ SameFiles /\ SameWorld /\ UNCHANGED host
         /\ At(d, "genmark") /\ srv'.dfgen = srv.dfgen
         /\ Becomes(d, "gen", dcm[d].t, dcm[d].todo, dcm[d].said, dcm[d].res)
         /\ SameHist
<1>1. SrvType /\ ShostType /\ HostsType /\ HistType /\ WorldType /\ RunsType
  BY DEF Types
<1>2. /\ UNCHANGED <<shost, host>> /\ SameFiles /\ SameWorld /\ At(d, "genmark")
      /\ srv' = [srv EXCEPT !.inprogress = TRUE]
      /\ Goto(d, "gen")
  BY DEF GenMark, SameFiles, SameWorld, files, world
<1>3. SrvType' /\ srv'.dfgen = srv.dfgen
  BY <1>1, <1>2 DEF SrvType
<1>4. HistType' /\ SameHist
  <2> DEFINE b == hist.raced \/ srv.inprogress
  <2>1. b \in BOOLEAN
    OBVIOUS
  <2>2. hist' = [hist EXCEPT !.raced = b]
    BY Zenon DEF GenMark
  <2> HIDE DEF b
  <2> QED
    BY <1>1, <2>1, <2>2 DEF HistType, SameHist
<1>5. RunsType' /\ Becomes(d, "gen", dcm[d].t, dcm[d].todo, dcm[d].said, dcm[d].res)
  <2>1. "gen" \in Pcs /\ ~("gen" \in HasHost)
    BY DEF Pcs, HasHost
  <2> QED
    BY <1>1, <1>2, <2>1, Going
<1> QED
  BY <1>2, <1>3, <1>4, <1>5, SameTypes DEF Types

\* The generator begins.
LEMMA GenWriteIs ==
  ASSUME Types, NEW d \in Dcms, GenWrite(d)
  PROVE  /\ Types' /\ SameTables /\ SameWorld /\ UNCHANGED host
         /\ At(d, "gen") /\ SameHist
         /\ Becomes(d, "genwait", dcm[d].t, dcm[d].todo, dcm[d].said, dcm[d].res)
<1>1. SrvType /\ ShostType /\ HostsType /\ HistType /\ WorldType /\ RunsType
  BY DEF Types
<1>2. /\ SameTables /\ SameWorld /\ UNCHANGED <<host, hist>> /\ At(d, "gen")
      /\ made' = ver /\ out' = Partial /\ Goto(d, "genwait")
  BY DEF GenWrite, SameTables, SameWorld, tables, world
<1>3. WorldType'
  BY <1>1, <1>2 DEF WorldType, SameWorld
<1>4. RunsType' /\ Becomes(d, "genwait", dcm[d].t, dcm[d].todo, dcm[d].said, dcm[d].res)
  <2>1. "genwait" \in Pcs /\ ~("genwait" \in HasHost)
    BY DEF Pcs, HasHost
  <2> QED
    BY <1>1, <1>2, <2>1, Going
<1> QED
  BY <1>2, <1>3, <1>4, SameTypes DEF Types, SameTables

\* It finds that nothing has changed.
LEMMA GenNoChangeIs ==
  ASSUME Types, NEW d \in Dcms, GenNoChange(d)
  PROVE  /\ Types' /\ UNCHANGED shost /\ SameFiles /\ SameWorld /\ UNCHANGED host
         /\ SameHist /\ srv'.dfgen = srv.dfgen /\ srv'.inprogress = FALSE
         /\ Becomes(d, "idle", 0, {}, 0, "ok")
<1>1. SrvType /\ ShostType /\ HostsType /\ HistType /\ WorldType /\ RunsType
  BY DEF Types
<1>2. /\ UNCHANGED <<shost, host, hist>> /\ SameFiles /\ SameWorld
      /\ srv' = [srv EXCEPT !.dfcheck = dcm[d].t, !.inprogress = FALSE]
      /\ Exit(d)
  BY DEF GenNoChange, SameFiles, SameWorld, files, world
<1>3. SrvType' /\ srv'.dfgen = srv.dfgen /\ srv'.inprogress = FALSE
  <2>1. dcm[d].t \in Nat
    BY <1>1, RunIs
  <2> QED
    BY <1>1, <1>2, <2>1 DEF SrvType
<1> QED
  BY <1>1, <1>2, <1>3, Exiting, SameTypes DEF Types

\* The data is generated.
LEMMA GenDoneIs ==
  ASSUME Types, NEW d \in Dcms, GenDone(d)
  PROVE  /\ Types' /\ UNCHANGED shost /\ SameWorld /\ UNCHANGED host
         /\ At(d, "genwait") /\ srv'.dfgen = dcm[d].t /\ srv'.inprogress = FALSE
         /\ hist'.last = hist.last /\ hist'.crashes = hist.crashes /\ out' = hist'.gen
         /\ Becomes(d, "hosts", dcm[d].t, dcm[d].todo, dcm[d].said, dcm[d].res)
<1>1. /\ SrvType /\ ShostType /\ HostsType /\ HistType /\ WorldType /\ RunsType
      /\ made \in Nat
  BY DEF Types, WorldType
<1>2. /\ UNCHANGED <<shost, host, made>> /\ SameWorld /\ At(d, "genwait") /\ out' = made
      /\ srv' = [srv EXCEPT !.dfgen = dcm[d].t, !.dfcheck = dcm[d].t, !.inprogress = FALSE]
      /\ hist' = [hist EXCEPT !.gen = made] /\ Goto(d, "hosts")
  BY DEF GenDone, SameWorld, world
<1>3. SrvType' /\ srv'.dfgen = dcm[d].t /\ srv'.inprogress = FALSE
  <2>1. dcm[d].t \in Nat
    BY <1>1, RunIs
  <2> QED
    BY <1>1, <1>2, <2>1 DEF SrvType
<1>4. /\ HistType' /\ hist'.last = hist.last /\ hist'.crashes = hist.crashes
      /\ hist'.gen = made
  BY <1>1, <1>2 DEF HistType
<1>5. WorldType'
  BY <1>1, <1>2 DEF WorldType, SameWorld
<1>6. RunsType' /\ Becomes(d, "hosts", dcm[d].t, dcm[d].todo, dcm[d].said, dcm[d].res)
  <2>1. "hosts" \in Pcs /\ ~("hosts" \in HasHost)
    BY DEF Pcs, HasHost
  <2> QED
    BY <1>1, <1>2, <2>1, Going
<1> QED
  BY <1>2, <1>3, <1>4, <1>5, <1>6, SameTypes DEF Types

\* It fails.
LEMMA GenFailsIs ==
  ASSUME Types, NEW d \in Dcms, NEW hard \in BOOLEAN, GenFails(d, hard)
  PROVE  /\ Types' /\ UNCHANGED shost /\ SameFiles /\ SameWorld /\ UNCHANGED host
         /\ SameHist /\ srv'.dfgen = srv.dfgen /\ srv'.inprogress = FALSE
         /\ Becomes(d, "idle", 0, {}, 0, "ok")
<1>1. SrvType /\ ShostType /\ HostsType /\ HistType /\ WorldType /\ RunsType
  BY DEF Types
<1>2. /\ UNCHANGED <<shost, host>> /\ SameFiles /\ SameWorld
      /\ Fault("failed") /\ Exit(d)
  BY DEF GenFails, SameFiles, SameWorld, files, world
<1>3. SrvType' /\ srv'.dfgen = srv.dfgen /\ srv'.inprogress = FALSE
  <2> DEFINE b == srv.harderror \/ hard
  <2>1. b \in BOOLEAN
    OBVIOUS
  <2>2. srv' = [srv EXCEPT !.inprogress = FALSE, !.harderror = b]
    BY Zenon DEF GenFails
  <2> HIDE DEF b
  <2> QED
    BY <1>1, <2>1, <2>2 DEF SrvType
<1> QED
  BY <1>1, <1>2, <1>3, Exiting, FaultIs, SameTypes DEF Types

\* The hosts that are due are found, or another run is generating.
LEMMA HostsStartIs ==
  ASSUME Types, NEW d \in Dcms, HostsStart(d)
  PROVE  /\ Types' /\ SameTables /\ SameFiles /\ SameWorld /\ UNCHANGED host
         /\ At(d, "hosts") /\ hist'.last = now /\ hist'.gen = hist.gen
         /\ hist'.crashes = hist.crashes
         /\ \/ Becomes(d, "idle", 0, {}, 0, "ok")
            \/ Becomes(d, "check", now, {h \in Hosts : Due(h)}, 0, "ok")
<1>1. /\ SrvType /\ ShostType /\ HostsType /\ HistType /\ WorldType /\ RunsType
      /\ now \in Nat
  BY DEF Types, WorldType
<1>2. /\ SameTables /\ SameFiles /\ SameWorld /\ UNCHANGED host /\ At(d, "hosts")
      /\ hist' = [hist EXCEPT !.last = now]
  BY DEF HostsStart, SameTables, SameFiles, SameWorld, tables, files, world
<1>3. HistType' /\ hist'.last = now /\ hist'.gen = hist.gen /\ hist'.crashes = hist.crashes
  BY <1>1, <1>2 DEF HistType
<1>4. /\ RunsType'
      /\ \/ Becomes(d, "idle", 0, {}, 0, "ok")
         \/ Becomes(d, "check", now, {h \in Hosts : Due(h)}, 0, "ok")
  <2>1. CASE Exit(d)
    BY <1>1, <2>1, Exiting
  <2>2. CASE ~Exit(d)
    <3> DEFINE T == {h \in Hosts : Due(h)}
               r == [Idle EXCEPT !.pc = "check", !.t = now, !.todo = T]
    <3>1. dcm' = [dcm EXCEPT ![d] = r]
      BY <2>2 DEF HostsStart
    <3>2. T \in SUBSET Hosts
      OBVIOUS
    <3> HIDE DEF T
    <3>3. /\ r \in RunType /\ r.pc = "check" /\ r.t = now /\ r.todo = T /\ r.said = 0
          /\ r.res = "ok" /\ ~("check" \in HasHost)
      BY <1>1, <3>2 DEF Idle, RunType, Pcs, HasHost
    <3> HIDE DEF r
    <3>4. RunsType' /\ Becomes(d, "check", now, T, 0, "ok")
      BY <1>1, <3>1, <3>3, Changing
    <3> QED
      BY <3>4 DEF T
  <2> QED
    BY <2>1, <2>2
<1> QED
  BY <1>2, <1>3, <1>4, SameTypes DEF Types, SameTables

\* The next host is looked at.
LEMMA HostCheckIs ==
  ASSUME Types, NEW d \in Dcms, HostCheck(d)
  PROVE  /\ Types' /\ SameTables /\ SameFiles /\ SameWorld /\ UNCHANGED <<host, hist>>
         /\ At(d, "check") /\ Cur(d) \in dcm[d].todo
         /\ \/ Becomes(d, "idle", 0, {}, 0, "ok") /\ shost[Cur(d)].inprogress
            \/ Becomes(d, "mark", dcm[d].t, dcm[d].todo, dcm[d].said, dcm[d].res)
<1>1. SrvType /\ ShostType /\ HostsType /\ HistType /\ WorldType /\ RunsType
  BY DEF Types
<1>2. /\ SameTables /\ SameFiles /\ SameWorld /\ UNCHANGED <<host, hist>> /\ At(d, "check")
      /\ dcm[d].todo # {}
  BY DEF HostCheck, SameTables, SameFiles, SameWorld, tables, files, world
<1>3. /\ RunsType'
      /\ \/ Becomes(d, "idle", 0, {}, 0, "ok") /\ shost[Cur(d)].inprogress
         \/ Becomes(d, "mark", dcm[d].t, dcm[d].todo, dcm[d].said, dcm[d].res)
  <2>1. CASE shost[Cur(d)].inprogress
    BY <1>1, <2>1, Exiting DEF HostCheck
  <2>2. CASE ~shost[Cur(d)].inprogress
    <3>1. "mark" \in Pcs /\ Goto(d, "mark")
      BY <2>2 DEF Pcs, HostCheck
    <3> QED
      BY <1>1, <1>2, <3>1, Going
  <2> QED
    BY <2>1, <2>2
<1>4. Cur(d) \in dcm[d].todo
  BY <1>1, <1>2, RunIs, FirstIs DEF Cur
<1> QED
  BY <1>2, <1>3, <1>4, SameTypes DEF Types, SameTables

\* It is marked.
LEMMA HostMarkIs ==
  ASSUME Types, NEW d \in Dcms, HostMark(d)
  PROVE  /\ Types' /\ UNCHANGED <<srv, host>> /\ SameFiles /\ SameWorld /\ SameHist
         /\ At(d, "mark") /\ Cur(d) \in dcm[d].todo /\ Cur(d) \in Hosts
         /\ Becomes(d, "connect", dcm[d].t, dcm[d].todo, dcm[d].said, dcm[d].res)
         /\ shost'[Cur(d)].lts = shost[Cur(d)].lts
         /\ shost'[Cur(d)].hosterror = shost[Cur(d)].hosterror
         /\ \A k \in Hosts : k # Cur(d) => shost'[k] = shost[k]
<1>1. SrvType /\ ShostType /\ HostsType /\ HistType /\ WorldType /\ RunsType
  BY DEF Types
<1>2. /\ UNCHANGED <<srv, host>> /\ SameFiles /\ SameWorld /\ At(d, "mark")
      /\ shost' = [shost EXCEPT ![Cur(d)].inprogress = TRUE] /\ Goto(d, "connect")
  BY DEF HostMark, SameFiles, SameWorld, files, world
<1>3. dcm[d].todo # {} /\ Cur(d) \in dcm[d].todo /\ Cur(d) \in Hosts
  <2>1. dcm[d].todo # {} /\ dcm[d].todo \in SUBSET Hosts
    BY <1>1, <1>2, RunIs DEF At, HasHost
  <2> QED
    BY <2>1, FirstIs DEF Cur
<1>4. HistType' /\ SameHist
  <2> DEFINE b == hist.raced \/ shost[Cur(d)].inprogress
  <2>1. b \in BOOLEAN
    OBVIOUS
  <2>2. hist' = [hist EXCEPT !.raced = b]
    BY Zenon DEF HostMark
  <2> HIDE DEF b
  <2> QED
    BY <1>1, <2>1, <2>2 DEF HistType, SameHist
<1>5. /\ RunsType'
      /\ Becomes(d, "connect", dcm[d].t, dcm[d].todo, dcm[d].said, dcm[d].res)
  <2>1. "connect" \in Pcs
    BY DEF Pcs
  <2> QED
    BY <1>1, <1>2, <1>3, <2>1, Going
<1>6. /\ ShostType' /\ shost'[Cur(d)].lts = shost[Cur(d)].lts
      /\ shost'[Cur(d)].hosterror = shost[Cur(d)].hosterror
      /\ \A k \in Hosts : k # Cur(d) => shost'[k] = shost[k]
  <2> DEFINE h == Cur(d)
             row == [shost[h] EXCEPT !.inprogress = TRUE]
  <2>1. h \in Hosts /\ shost' = [shost EXCEPT ![h] = row]
    BY <1>2, <1>3
  <2> HIDE DEF h
  <2>2. shost[h] \in Row
    BY <1>1, <2>1, RowIs
  <2>3. row \in Row /\ row.lts = shost[h].lts /\ row.hosterror = shost[h].hosterror
    BY <2>2, MarkedIs
  <2> HIDE DEF row
  <2>4. ShostType' /\ shost'[h] = row /\ \A k \in Hosts : k # h => shost'[k] = shost[k]
    BY <1>1, <2>1, <2>3, RowStep
  <2> QED
    BY <2>3, <2>4 DEF h
<1> QED
  BY <1>2, <1>3, <1>4, <1>5, <1>6, SameTypes DEF Types

\* There is no connection, or it is refused.
LEMMA ConnectIs ==
  ASSUME Types, NEW d \in Dcms, NEW res \in {"soft", "hard"}, Connect(d, res)
  PROVE  /\ Types' /\ SameTables /\ SameFiles /\ SameWorld /\ UNCHANGED host /\ SameHist
         /\ Cur(d) \in dcm[d].todo /\ Cur(d) \in Hosts
         /\ \/ /\ At(d, "connect")
               /\ Becomes(d, "sent", dcm[d].t, dcm[d].todo, dcm[d].said, res)
            \/ /\ At(d, "exec")
               /\ Becomes(d, "execd", dcm[d].t, dcm[d].todo, dcm[d].said, res)
<1>1. SrvType /\ ShostType /\ HostsType /\ HistType /\ WorldType /\ RunsType
  BY DEF Types
<1>2. /\ SameTables /\ SameFiles /\ SameWorld /\ UNCHANGED host /\ Fault(res)
      /\ At(d, "connect") \/ (At(d, "exec") /\ dcm[d].todo # {})
  BY DEF Connect, SameTables, SameFiles, SameWorld, tables, files, world
<1>3. dcm[d].todo # {} /\ dcm[d].todo \in SUBSET Hosts
  BY <1>1, <1>2, RunIs DEF At, HasHost
<1>4. /\ RunsType'
      /\ \/ /\ At(d, "connect")
            /\ Becomes(d, "sent", dcm[d].t, dcm[d].todo, dcm[d].said, res)
         \/ /\ At(d, "exec")
            /\ Becomes(d, "execd", dcm[d].t, dcm[d].todo, dcm[d].said, res)
  <2> DEFINE pc == IF dcm[d].pc = "exec" THEN "execd" ELSE "sent"
             r == [dcm[d] EXCEPT !.res = res, !.pc = pc]
  <2>1. dcm[d] \in RunType /\ pc \in {"execd", "sent"} /\ {"execd", "sent"} \subseteq Pcs
    BY <1>1, RunIs DEF Pcs
  <2>2. dcm' = [dcm EXCEPT ![d] = r]
    BY <1>1, RunIs DEF Connect
  <2>3. pc = IF At(d, "exec") THEN "execd" ELSE "sent"
    BY DEF At
  <2> HIDE DEF pc
  <2>4. /\ r \in RunType /\ r.pc = pc /\ r.t = dcm[d].t /\ r.todo = dcm[d].todo
        /\ r.said = dcm[d].said /\ r.res = res
    BY <2>1 DEF RunType
  <2> HIDE DEF r
  <2>5. RunsType' /\ Becomes(d, pc, dcm[d].t, dcm[d].todo, dcm[d].said, res)
    BY <1>1, <1>3, <2>2, <2>4, Changing
  <2> QED
    BY <1>2, <2>3, <2>5 DEF At
<1>5. Cur(d) \in dcm[d].todo /\ Cur(d) \in Hosts
  BY <1>3, FirstIs DEF Cur
<1> QED
  BY <1>1, <1>2, <1>4, <1>5, FaultIs, SameTypes DEF Types, SameTables

\* A host's record.
LEMMA HostIs ==
  ASSUME NEW h \in HostType
  PROVE  /\ h.path.by \in Dcms \cup {Nobody} /\ h.path.data \in Data
         /\ h.path \in [by : Dcms \cup {Nobody}, data : Data]
         /\ h.inst \in Nat \cup {Partial}
  BY DEF HostType

\* Another file at the target's name.
LEMMA PathIs ==
  ASSUME NEW h \in HostType, NEW p \in [by : Dcms \cup {Nobody}, data : Data]
  PROVE  LET x == [h EXCEPT !.path = p]
         IN  x \in HostType /\ x.path = p /\ x.inst = h.inst
  BY DEF HostType

\* Other data installed.
LEMMA InstIs ==
  ASSUME NEW h \in HostType, NEW i \in Nat \cup {Partial}
  PROVE  LET x == [h EXCEPT !.inst = i]
         IN  x \in HostType /\ x.path = h.path /\ x.inst = i
  BY DEF HostType

\* The file is gone.
LEMMA UnlinkedIs ==
  ASSUME NEW h \in HostType
  PROVE  Unlinked(h) \in HostType /\ Unlinked(h).inst = h.inst
<1>1. [by |-> Nobody, data |-> NoFile] \in [by : Dcms \cup {Nobody}, data : Data]
  BY DEF Data
<1> QED
  BY <1>1, PathIs DEF Unlinked

\* The first half of a transfer installs nothing.
LEMMA AcceptedIs ==
  ASSUME NEW h \in HostType, NEW c \in Dcms, NEW a \in Accepted(h, c)
  PROVE  a[1] \in HostType /\ a[1].inst = h.inst /\ a[2] \in {"ok", "hard"}
<1>1. [by |-> c, data |-> Partial] \in [by : Dcms \cup {Nobody}, data : Data]
  BY DEF Data
<1>2. Created(h, c) \in HostType /\ Created(h, c).inst = h.inst
  BY <1>1, PathIs DEF Created
<1>3. a = <<Created(h, c), "ok">> \/ a = <<Unlinked(h), "hard">>
  BY DEF Accepted
<1> QED
  BY <1>2, <1>3, UnlinkedIs

\* Nor does the second; the sender is told that all is well only if the file at the name
\* has the data that was announced.
LEMMA ReceivedIs ==
  ASSUME NEW h \in HostType, NEW c \in Dcms, NEW said, NEW data \in Data,
         NEW a \in Received(h, c, said, data)
  PROVE  /\ a[1] \in HostType /\ a[1].inst = h.inst /\ a[2] \in {"ok", "hard"}
         /\ a[2] = "ok" => a[1].path.data = said
<1> DEFINE w == Written(h, c, data)
<1>1. w \in HostType /\ w.inst = h.inst
  <2>1. CASE h.path.by = c
    <3> DEFINE p == [h.path EXCEPT !.data = data]
    <3>1. p \in [by : Dcms \cup {Nobody}, data : Data]
      BY HostIs
    <3>2. w = [h EXCEPT !.path = p]
      BY <2>1 DEF Written
    <3> HIDE DEF p, w
    <3> QED
      BY <3>1, <3>2, PathIs
  <2>2. CASE h.path.by # c
    BY <2>2 DEF Written
  <2> QED
    BY <2>1, <2>2
<1>2. \/ a = <<w, IF w.path.data = said THEN "ok" ELSE "hard">>
      \/ a = <<Unlinked(h), "hard">> \/ a = <<h, "hard">> \/ a = <<w, "hard">>
  BY DEF Received
<1> HIDE DEF w
<1>3. CASE a = <<w, IF w.path.data = said THEN "ok" ELSE "hard">>
  BY <1>1, <1>3
<1>4. CASE a = <<Unlinked(h), "hard">>
  BY <1>4, UnlinkedIs
<1>5. CASE a = <<h, "hard">> \/ a = <<w, "hard">>
  BY <1>1, <1>5
<1> QED
  BY <1>2, <1>3, <1>4, <1>5

\* The script is said to have succeeded only if it has installed the file.
LEMMA ExecutedIs ==
  ASSUME NEW h \in HostType, NEW a \in Executed(h)
  PROVE  /\ a[1] \in HostType /\ a[2] \in {"ok", "soft", "hard"}
         /\ a[2] = "ok" => a[1].inst = h.path.data
<1>1. PICK s \in Script(h) :
         /\ a[1] = s[1] /\ a[2] \in {"ok", "soft", "hard"}
         /\ a[2] = "ok" => s[2]
  BY DEF Executed
<1>2. s[1] \in HostType /\ (s[2] => s[1].inst = h.path.data)
  <2>1. CASE h.path.data \in {NoFile, Partial}
    <3>1. s = <<h, FALSE>>
      BY <2>1 DEF Script
    <3> QED
      BY <3>1
  <2>2. CASE h.path.data \notin {NoFile, Partial}
    <3> DEFINE moved == [h EXCEPT !.inst = h.path.data]
               half == [h EXCEPT !.inst = Partial]
    <3>1. \/ s = <<Unlinked(moved), TRUE>> \/ s = <<moved, FALSE>> \/ s = <<half, FALSE>>
      BY <2>2 DEF Script
    <3>2. h.path.data \in Nat \cup {Partial}
      BY <2>2, HostIs DEF Data
    <3>3. moved \in HostType /\ moved.inst = h.path.data /\ half \in HostType
      BY <3>2, InstIs
    <3> HIDE DEF moved, half
    <3>4. Unlinked(moved) \in HostType /\ Unlinked(moved).inst = h.path.data
      BY <3>3, UnlinkedIs
    <3>5. CASE s = <<Unlinked(moved), TRUE>>
      BY <3>4, <3>5
    <3>6. CASE s = <<moved, FALSE>>
      BY <3>3, <3>6
    <3>7. CASE s = <<half, FALSE>>
      BY <3>3, <3>7
    <3> QED
      BY <3>1, <3>5, <3>6, <3>7
  <2> QED
    BY <2>1, <2>2
<1> QED
  BY <1>1, <1>2

\* A host while a run is at it.
LEMMA AtHost ==
  ASSUME Types, NEW d \in Dcms, dcm[d].pc \in HasHost \/ dcm[d].todo # {}
  PROVE  Cur(d) \in dcm[d].todo /\ Cur(d) \in Hosts
<1>1. dcm[d].todo \in SUBSET Hosts /\ dcm[d].todo # {}
  BY RunIs DEF Types
<1> QED
  BY <1>1, FirstIs DEF Cur

\* A file is announced.
LEMMA SendStartIs ==
  ASSUME Types, NEW d \in Dcms, SendStart(d)
  PROVE  /\ Types' /\ SameTables /\ SameFiles /\ SameWorld /\ SameHist /\ At(d, "connect")
         /\ host'[Cur(d)].inst = host[Cur(d)].inst
         /\ \A k \in Hosts : k # Cur(d) => host'[k] = host[k]
         /\ \/ Becomes(d, "send", dcm[d].t, dcm[d].todo, out, "ok")
            \/ Becomes(d, "sent", dcm[d].t, dcm[d].todo, out, "hard")
<1>1. /\ SrvType /\ ShostType /\ HostsType /\ HistType /\ WorldType /\ RunsType
      /\ out \in Nat \cup {Partial}
  BY DEF Types, WorldType
<1>2. SameTables /\ SameFiles /\ SameWorld /\ At(d, "connect")
  BY DEF SendStart, SameTables, SameFiles, SameWorld, tables, files, world
<1>3. Cur(d) \in dcm[d].todo /\ Cur(d) \in Hosts
  BY <1>2, AtHost DEF At, HasHost
<1>4. PICK a \in Accepted(host[Cur(d)], d) :
         /\ host' = [host EXCEPT ![Cur(d)] = a[1]] /\ Fault(a[2])
         /\ dcm' = [dcm EXCEPT ![d].said = out, ![d].res = a[2],
                               ![d].pc = IF a[2] = "ok" THEN "send" ELSE "sent"]
  BY DEF SendStart
<1>5. host[Cur(d)] \in HostType
  BY <1>1, <1>3 DEF HostsType
<1>6. a[1] \in HostType /\ a[1].inst = host[Cur(d)].inst /\ a[2] \in {"ok", "hard"}
  BY <1>5, AcceptedIs
<1>7. /\ HostsType' /\ host'[Cur(d)] = a[1]
      /\ \A k \in Hosts : k # Cur(d) => host'[k] = host[k]
  BY <1>1, <1>3, <1>4, <1>6, HostStep
<1>8. /\ RunsType'
      /\ \/ Becomes(d, "send", dcm[d].t, dcm[d].todo, out, "ok")
         \/ Becomes(d, "sent", dcm[d].t, dcm[d].todo, out, "hard")
  <2> DEFINE pc == IF a[2] = "ok" THEN "send" ELSE "sent"
             r == [dcm[d] EXCEPT !.said = out, !.res = a[2], !.pc = pc]
  <2>1. /\ dcm[d] \in RunType /\ DOMAIN dcm = Dcms /\ dcm[d].todo # {}
        /\ pc \in Pcs
    BY <1>1, <1>3, RunIs DEF Pcs
  <2>2. dcm' = [dcm EXCEPT ![d] = r]
    BY <1>4, <2>1
  <2>3. (pc = "send" /\ a[2] = "ok") \/ (pc = "sent" /\ a[2] = "hard")
    BY <1>6
  <2> HIDE DEF pc
  <2>4. /\ r \in RunType /\ r.pc = pc /\ r.t = dcm[d].t /\ r.todo = dcm[d].todo
        /\ r.said = out /\ r.res = a[2]
    BY <1>1, <1>6, <2>1 DEF RunType
  <2> HIDE DEF r
  <2>5. RunsType' /\ Becomes(d, pc, dcm[d].t, dcm[d].todo, out, a[2])
    BY <1>1, <2>1, <2>2, <2>4, Changing
  <2> QED
    BY <2>3, <2>5
<1> QED
  BY <1>1, <1>2, <1>4, <1>6, <1>7, <1>8, FaultIs, SameTypes DEF Types, SameTables

\* The file is sent.
LEMMA SendDataIs ==
  ASSUME Types, NEW d \in Dcms, SendData(d)
  PROVE  /\ Types' /\ SameTables /\ SameFiles /\ SameWorld /\ SameHist /\ At(d, "send")
         /\ host'[Cur(d)].inst = host[Cur(d)].inst
         /\ \A k \in Hosts : k # Cur(d) => host'[k] = host[k]
         /\ \/ /\ Becomes(d, "sent", dcm[d].t, dcm[d].todo, dcm[d].said, "ok")
               /\ host'[Cur(d)].path.data = dcm[d].said
            \/ Becomes(d, "sent", dcm[d].t, dcm[d].todo, dcm[d].said, "hard")
<1>1. /\ SrvType /\ ShostType /\ HostsType /\ HistType /\ WorldType /\ RunsType
      /\ out \in Nat \cup {Partial}
  BY DEF Types, WorldType
<1>2. SameTables /\ SameFiles /\ SameWorld /\ At(d, "send")
  BY DEF SendData, SameTables, SameFiles, SameWorld, tables, files, world
<1>3. Cur(d) \in dcm[d].todo /\ Cur(d) \in Hosts
  BY <1>2, AtHost DEF At, HasHost
<1>4. PICK data \in {out, Partial} : \E a \in Received(host[Cur(d)], d, dcm[d].said, data) :
         /\ host' = [host EXCEPT ![Cur(d)] = a[1]] /\ Fault(a[2])
         /\ dcm' = [dcm EXCEPT ![d].res = a[2], ![d].pc = "sent"]
  BY DEF SendData
<1>5. PICK a \in Received(host[Cur(d)], d, dcm[d].said, data) :
         /\ host' = [host EXCEPT ![Cur(d)] = a[1]] /\ Fault(a[2])
         /\ dcm' = [dcm EXCEPT ![d].res = a[2], ![d].pc = "sent"]
  BY <1>4
<1>6. host[Cur(d)] \in HostType /\ data \in Data
  BY <1>1, <1>3 DEF HostsType, Data
<1>7. /\ a[1] \in HostType /\ a[1].inst = host[Cur(d)].inst /\ a[2] \in {"ok", "hard"}
      /\ a[2] = "ok" => a[1].path.data = dcm[d].said
  BY <1>6, ReceivedIs
<1>8. /\ HostsType' /\ host'[Cur(d)] = a[1]
      /\ \A k \in Hosts : k # Cur(d) => host'[k] = host[k]
  BY <1>1, <1>3, <1>5, <1>7, HostStep
<1>9. RunsType' /\ Becomes(d, "sent", dcm[d].t, dcm[d].todo, dcm[d].said, a[2])
  <2> DEFINE r == [dcm[d] EXCEPT !.res = a[2], !.pc = "sent"]
  <2>1. /\ dcm[d] \in RunType /\ DOMAIN dcm = Dcms /\ dcm[d].todo # {}
        /\ "sent" \in Pcs
    BY <1>1, <1>3, RunIs DEF Pcs
  <2>2. dcm' = [dcm EXCEPT ![d] = r]
    BY <1>5, <2>1
  <2>3. /\ r \in RunType /\ r.pc = "sent" /\ r.t = dcm[d].t /\ r.todo = dcm[d].todo
        /\ r.said = dcm[d].said /\ r.res = a[2]
    BY <1>7, <2>1 DEF RunType
  <2> HIDE DEF r
  <2> QED
    BY <1>1, <2>1, <2>2, <2>3, Changing
<1> QED
  BY <1>1, <1>2, <1>5, <1>7, <1>8, <1>9, FaultIs, SameTypes DEF Types, SameTables

\* A loop goes on with the next host, or the run gives up.
LEMMA AfterIs ==
  ASSUME RunsType, NEW d \in Dcms, NEW pc \in {"check", "exec"}, dcm[d].todo # {},
         After(d, pc)
  PROVE  /\ RunsType'
         /\ \/ /\ kind.replicated /\ dcm[d].res # "ok"
               /\ Becomes(d, "finish", dcm[d].t, dcm[d].todo, dcm[d].said, dcm[d].res)
            \/ /\ ~(kind.replicated /\ dcm[d].res # "ok")
               /\ Becomes(d, pc, dcm[d].t, dcm[d].todo \ {Cur(d)}, 0, "ok")
<1>1. CASE kind.replicated /\ dcm[d].res # "ok"
  <2>1. Goto(d, "finish") /\ "finish" \in Pcs
    BY <1>1 DEF After, Pcs
  <2> QED
    BY <1>1, <2>1, Going
<1>2. CASE ~(kind.replicated /\ dcm[d].res # "ok")
  <2> DEFINE T == dcm[d].todo \ {Cur(d)}
             r == [dcm[d] EXCEPT !.pc = pc, !.todo = T, !.said = 0, !.res = "ok"]
  <2>1. /\ dcm[d] \in RunType /\ DOMAIN dcm = Dcms /\ T \in SUBSET Hosts
        /\ pc \in Pcs /\ ~(pc \in HasHost)
    BY RunIs DEF Pcs, HasHost
  <2>2. dcm' = [dcm EXCEPT ![d] = r]
    BY <1>2, <2>1 DEF After
  <2> HIDE DEF T
  <2>3. /\ r \in RunType /\ r.pc = pc /\ r.t = dcm[d].t /\ r.todo = T
        /\ r.said = 0 /\ r.res = "ok"
    BY <2>1 DEF RunType
  <2> HIDE DEF r
  <2>4. RunsType' /\ Becomes(d, pc, dcm[d].t, T, 0, "ok")
    BY <2>1, <2>2, <2>3, Changing
  <2> QED
    BY <1>2, <2>4 DEF T
<1> QED
  BY <1>1, <1>2

\* A failure to send is recorded.
LEMMA SendRecordIs ==
  ASSUME Types, NEW d \in Dcms, SendRecord(d)
  PROVE  /\ Types' /\ UNCHANGED <<srv, host>> /\ SameFiles /\ SameWorld /\ SameHist
         /\ At(d, "sent") /\ Cur(d) \in dcm[d].todo /\ Cur(d) \in Hosts
         /\ \A k \in Hosts : k # Cur(d) => shost'[k] = shost[k]
         /\ shost'[Cur(d)].lts = shost[Cur(d)].lts
         /\ dcm[d].res = "ok" => shost' = shost
         /\ dcm[d].res # "ok" => ~shost'[Cur(d)].inprogress
         /\ \/ /\ kind.replicated /\ dcm[d].res # "ok"
               /\ Becomes(d, "finish", dcm[d].t, dcm[d].todo, dcm[d].said, dcm[d].res)
            \/ /\ ~(kind.replicated /\ dcm[d].res # "ok")
               /\ Becomes(d, "check", dcm[d].t, dcm[d].todo \ {Cur(d)}, 0, "ok")
<1>1. SrvType /\ ShostType /\ HostsType /\ HistType /\ WorldType /\ RunsType
  BY DEF Types
<1>2. /\ UNCHANGED <<srv, host, hist>> /\ SameFiles /\ SameWorld /\ At(d, "sent")
      /\ After(d, "check")
      /\ shost' = IF dcm[d].res = "ok" THEN shost
                  ELSE [shost EXCEPT ![Cur(d)] = Failed(shost[Cur(d)], dcm[d].res)]
  BY DEF SendRecord, SameFiles, SameWorld, files, world
<1>3. Cur(d) \in dcm[d].todo /\ Cur(d) \in Hosts
  BY <1>2, AtHost DEF At, HasHost
<1>4. /\ ShostType' /\ \A k \in Hosts : k # Cur(d) => shost'[k] = shost[k]
      /\ shost'[Cur(d)].lts = shost[Cur(d)].lts
      /\ dcm[d].res = "ok" => shost' = shost
      /\ dcm[d].res # "ok" => ~shost'[Cur(d)].inprogress
  <2>1. CASE dcm[d].res = "ok"
    BY <1>1, <1>2, <2>1, SameTypes
  <2>2. CASE dcm[d].res # "ok"
    <3> DEFINE h == Cur(d)
               row == Failed(shost[h], dcm[d].res)
    <3>1. h \in Hosts /\ shost' = [shost EXCEPT ![h] = row]
      BY <1>2, <1>3, <2>2
    <3> HIDE DEF h
    <3>2. shost[h] \in Row
      BY <1>1, <3>1, RowIs
    <3>3. row \in Row /\ row.lts = shost[h].lts /\ ~row.inprogress
      BY <3>2, FailedIs
    <3> HIDE DEF row
    <3>4. ShostType' /\ shost'[h] = row /\ \A k \in Hosts : k # h => shost'[k] = shost[k]
      BY <1>1, <3>1, <3>3, RowStep
    <3> QED
      BY <2>2, <3>3, <3>4 DEF h
  <2> QED
    BY <2>1, <2>2
<1>5. /\ RunsType'
      /\ \/ /\ kind.replicated /\ dcm[d].res # "ok"
            /\ Becomes(d, "finish", dcm[d].t, dcm[d].todo, dcm[d].said, dcm[d].res)
         \/ /\ ~(kind.replicated /\ dcm[d].res # "ok")
            /\ Becomes(d, "check", dcm[d].t, dcm[d].todo \ {Cur(d)}, 0, "ok")
  BY <1>1, <1>2, <1>3, AfterIs
<1> QED
  BY <1>2, <1>3, <1>4, <1>5, SameTypes DEF Types

\* The hosts that are marked are found.
LEMMA ExecStartIs ==
  ASSUME Types, NEW d \in Dcms, ExecStart(d)
  PROVE  /\ Types' /\ SameTables /\ SameFiles /\ SameWorld /\ UNCHANGED host /\ SameHist
         /\ At(d, "check") /\ dcm[d].todo = {}
         /\ Becomes(d, "exec", dcm[d].t, {h \in Hosts : Taken(h)}, dcm[d].said, dcm[d].res)
<1>1. SrvType /\ ShostType /\ HostsType /\ HistType /\ WorldType /\ RunsType
  BY DEF Types
<1>2. /\ SameTables /\ SameFiles /\ SameWorld /\ UNCHANGED <<host, hist>>
      /\ At(d, "check") /\ dcm[d].todo = {}
  BY DEF ExecStart, SameTables, SameFiles, SameWorld, tables, files, world
<1>3. /\ RunsType'
      /\ Becomes(d, "exec", dcm[d].t, {h \in Hosts : Taken(h)}, dcm[d].said, dcm[d].res)
  <2> DEFINE T == {h \in Hosts : Taken(h)}
             r == [dcm[d] EXCEPT !.pc = "exec", !.todo = T]
  <2>1. /\ dcm[d] \in RunType /\ DOMAIN dcm = Dcms /\ T \in SUBSET Hosts
        /\ "exec" \in Pcs /\ ~("exec" \in HasHost)
    BY <1>1, RunIs DEF Pcs, HasHost
  <2>2. dcm' = [dcm EXCEPT ![d] = r]
    BY <2>1 DEF ExecStart
  <2> HIDE DEF T
  <2>3. /\ r \in RunType /\ r.pc = "exec" /\ r.t = dcm[d].t /\ r.todo = T
        /\ r.said = dcm[d].said /\ r.res = dcm[d].res
    BY <2>1 DEF RunType
  <2> HIDE DEF r
  <2>4. RunsType' /\ Becomes(d, "exec", dcm[d].t, T, dcm[d].said, dcm[d].res)
    BY <1>1, <2>1, <2>2, <2>3, Changing
  <2> QED
    BY <2>4 DEF T
<1> QED
  BY <1>2, <1>3, SameTypes DEF Types, SameTables

\* The script is run.
LEMMA ExecIs ==
  ASSUME Types, NEW d \in Dcms, Exec(d)
  PROVE  /\ Types' /\ SameTables /\ SameFiles /\ SameWorld /\ SameHist
         /\ At(d, "exec") /\ Cur(d) \in dcm[d].todo /\ Cur(d) \in Hosts
         /\ \A k \in Hosts : k # Cur(d) => host'[k] = host[k]
         /\ \E res \in {"ok", "soft", "hard"} :
               /\ Becomes(d, "execd", dcm[d].t, dcm[d].todo, dcm[d].said, res)
               /\ res = "ok" => host'[Cur(d)].inst = host[Cur(d)].path.data
<1>1. SrvType /\ ShostType /\ HostsType /\ HistType /\ WorldType /\ RunsType
  BY DEF Types
<1>2. SameTables /\ SameFiles /\ SameWorld /\ At(d, "exec") /\ dcm[d].todo # {}
  BY DEF Exec, SameTables, SameFiles, SameWorld, tables, files, world
<1>3. Cur(d) \in dcm[d].todo /\ Cur(d) \in Hosts
  BY <1>2, AtHost
<1>4. PICK a \in Executed(host[Cur(d)]) :
         /\ host' = [host EXCEPT ![Cur(d)] = a[1]] /\ Fault(a[2])
         /\ dcm' = [dcm EXCEPT ![d].pc = "execd", ![d].res = a[2]]
  BY DEF Exec
<1>5. host[Cur(d)] \in HostType
  BY <1>1, <1>3 DEF HostsType
<1>6. /\ a[1] \in HostType /\ a[2] \in {"ok", "soft", "hard"}
      /\ a[2] = "ok" => a[1].inst = host[Cur(d)].path.data
  BY <1>5, ExecutedIs
<1>7. /\ HostsType' /\ host'[Cur(d)] = a[1]
      /\ \A k \in Hosts : k # Cur(d) => host'[k] = host[k]
  BY <1>1, <1>3, <1>4, <1>6, HostStep
<1>8. RunsType' /\ Becomes(d, "execd", dcm[d].t, dcm[d].todo, dcm[d].said, a[2])
  <2> DEFINE r == [dcm[d] EXCEPT !.pc = "execd", !.res = a[2]]
  <2>1. /\ dcm[d] \in RunType /\ DOMAIN dcm = Dcms /\ dcm[d].todo # {}
        /\ "execd" \in Pcs
    BY <1>1, <1>3, RunIs DEF Pcs
  <2>2. dcm' = [dcm EXCEPT ![d] = r]
    BY <1>4, <2>1
  <2>3. /\ r \in RunType /\ r.pc = "execd" /\ r.t = dcm[d].t /\ r.todo = dcm[d].todo
        /\ r.said = dcm[d].said /\ r.res = a[2]
    BY <1>6, <2>1 DEF RunType
  <2> HIDE DEF r
  <2> QED
    BY <1>1, <2>1, <2>2, <2>3, Changing
<1> QED
  BY <1>1, <1>2, <1>3, <1>4, <1>6, <1>7, <1>8, FaultIs, SameTypes DEF Types, SameTables

\* What became of it is recorded.
LEMMA ExecRecordIs ==
  ASSUME Types, NEW d \in Dcms, ExecRecord(d)
  PROVE  /\ Types' /\ UNCHANGED <<srv, host>> /\ SameFiles /\ SameWorld /\ SameHist
         /\ At(d, "execd") /\ Cur(d) \in dcm[d].todo /\ Cur(d) \in Hosts
         /\ \A k \in Hosts : k # Cur(d) => shost'[k] = shost[k]
         /\ shost'[Cur(d)].lts = IF dcm[d].res = "ok" THEN dcm[d].t ELSE shost[Cur(d)].lts
         /\ ~shost'[Cur(d)].inprogress
         /\ \/ /\ kind.replicated /\ dcm[d].res # "ok"
               /\ Becomes(d, "finish", dcm[d].t, dcm[d].todo, dcm[d].said, dcm[d].res)
            \/ /\ ~(kind.replicated /\ dcm[d].res # "ok")
               /\ Becomes(d, "exec", dcm[d].t, dcm[d].todo \ {Cur(d)}, 0, "ok")
<1>1. SrvType /\ ShostType /\ HostsType /\ HistType /\ WorldType /\ RunsType
  BY DEF Types
<1>2. /\ UNCHANGED <<srv, host, hist>> /\ SameFiles /\ SameWorld /\ At(d, "execd")
      /\ After(d, "exec")
      /\ shost' = [shost EXCEPT ![Cur(d)] = IF dcm[d].res = "ok"
                                            THEN Done(shost[Cur(d)], dcm[d].t)
                                            ELSE Failed(shost[Cur(d)], dcm[d].res)]
  BY DEF ExecRecord, SameFiles, SameWorld, files, world
<1>3. Cur(d) \in dcm[d].todo /\ Cur(d) \in Hosts
  BY <1>2, AtHost DEF At, HasHost
<1>4. /\ ShostType' /\ \A k \in Hosts : k # Cur(d) => shost'[k] = shost[k]
      /\ shost'[Cur(d)].lts = IF dcm[d].res = "ok" THEN dcm[d].t ELSE shost[Cur(d)].lts
      /\ ~shost'[Cur(d)].inprogress
  <2> DEFINE h == Cur(d)
             row == IF dcm[d].res = "ok" THEN Done(shost[h], dcm[d].t)
                    ELSE Failed(shost[h], dcm[d].res)
  <2>1. h \in Hosts /\ shost' = [shost EXCEPT ![h] = row] /\ dcm[d].t \in Nat
    BY <1>1, <1>2, <1>3, RunIs
  <2> HIDE DEF h
  <2>2. shost[h] \in Row
    BY <1>1, <2>1, RowIs
  <2>3. /\ row \in Row /\ ~row.inprogress
        /\ row.lts = IF dcm[d].res = "ok" THEN dcm[d].t ELSE shost[h].lts
    <3>1. CASE dcm[d].res = "ok"
      BY <2>1, <2>2, <3>1, DoneIs
    <3>2. CASE dcm[d].res # "ok"
      BY <2>2, <3>2, FailedIs
    <3> QED
      BY <3>1, <3>2
  <2> HIDE DEF row
  <2>4. ShostType' /\ shost'[h] = row /\ \A k \in Hosts : k # h => shost'[k] = shost[k]
    BY <1>1, <2>1, <2>3, RowStep
  <2> QED
    BY <2>3, <2>4 DEF h
<1>5. /\ RunsType'
      /\ \/ /\ kind.replicated /\ dcm[d].res # "ok"
            /\ Becomes(d, "finish", dcm[d].t, dcm[d].todo, dcm[d].said, dcm[d].res)
         \/ /\ ~(kind.replicated /\ dcm[d].res # "ok")
            /\ Becomes(d, "exec", dcm[d].t, dcm[d].todo \ {Cur(d)}, 0, "ok")
  BY <1>1, <1>2, <1>3, AfterIs
<1> QED
  BY <1>2, <1>3, <1>4, <1>5, SameTypes DEF Types

\* A run ends.
LEMMA FinishIs ==
  ASSUME Types, NEW d \in Dcms, Finish(d)
  PROVE  /\ Types' /\ SameFiles /\ SameWorld /\ UNCHANGED <<host, hist>>
         /\ At(d, "finish") \/ (At(d, "exec") /\ dcm[d].todo = {})
         /\ srv'.dfgen = srv.dfgen /\ srv'.inprogress = srv.inprogress
         /\ \A h \in Hosts : shost'[h].lts = shost[h].lts
         /\ IF kind.replicated THEN \A h \in Hosts : ~shost'[h].inprogress
                               ELSE shost' = shost
         /\ Becomes(d, "idle", 0, {}, 0, "ok")
<1>1. SrvType /\ ShostType /\ HostsType /\ HistType /\ WorldType /\ RunsType
  BY DEF Types
<1>2. /\ UNCHANGED <<host, hist>> /\ SameFiles /\ SameWorld /\ Exit(d)
      /\ At(d, "finish") \/ (At(d, "exec") /\ dcm[d].todo = {})
  BY DEF Finish, SameFiles, SameWorld, files, world
<1>3. /\ SrvType' /\ ShostType' /\ srv'.dfgen = srv.dfgen /\ srv'.inprogress = srv.inprogress
      /\ \A h \in Hosts : shost'[h].lts = shost[h].lts
      /\ IF kind.replicated THEN \A h \in Hosts : ~shost'[h].inprogress
                            ELSE shost' = shost
  <2>1. CASE kind.replicated
    <3>1. shost' = [h \in Hosts |-> [shost[h] EXCEPT !.inprogress = FALSE]]
      BY <2>1 DEF Finish
    <3>2. \A h \in Hosts : LET f == [shost[h] EXCEPT !.inprogress = FALSE]
                           IN  f \in Row /\ f.lts = shost[h].lts /\ f.inprogress = FALSE
      BY <1>1, RowIs, MarkedIs
    <3>3. /\ ShostType' /\ \A h \in Hosts : shost'[h].lts = shost[h].lts
          /\ \A h \in Hosts : ~shost'[h].inprogress
      BY <3>1, <3>2 DEF ShostType
    <3>4. SrvType' /\ srv'.dfgen = srv.dfgen /\ srv'.inprogress = srv.inprogress
      <4> DEFINE b == srv.harderror \/ (At(d, "finish") /\ dcm[d].res = "hard")
      <4>1. b \in BOOLEAN
        OBVIOUS
      <4>2. srv' = [srv EXCEPT !.harderror = b]
        BY <2>1, Zenon DEF Finish
      <4> HIDE DEF b
      <4> QED
        BY <1>1, <4>1, <4>2 DEF SrvType
    <3> QED
      BY <2>1, <3>3, <3>4
  <2>2. CASE ~kind.replicated
    <3>1. UNCHANGED <<srv, shost>>
      BY <2>2 DEF Finish, tables
    <3> QED
      BY <2>2, <3>1, SameTypes
  <2> QED
    BY <2>1, <2>2
<1> QED
  BY <1>1, <1>2, <1>3, Exiting, SameTypes DEF Types

\* One more has died.
LEMMA CrashIs ==
  ASSUME HistType, hist' = [hist EXCEPT !.crashes = hist.crashes + 1]
  PROVE  /\ HistType' /\ hist'.crashes > 0 /\ hist'.last = hist.last
         /\ hist'.gen = hist.gen
<1>1. hist.crashes \in Nat /\ hist.crashes + 1 \in Nat /\ hist.crashes + 1 > 0
  BY DEF HistType
<1>2. PICK n \in Nat : n > 0 /\ hist' = [hist EXCEPT !.crashes = n]
  BY <1>1
<1> QED
  BY <1>2 DEF HistType

\* A run dies.
LEMMA DiesIs ==
  ASSUME Types, NEW d \in Dcms, Dies(d)
  PROVE  /\ Types' /\ SameTables /\ SameFiles /\ SameWorld /\ UNCHANGED host
         /\ hist'.crashes > 0 /\ hist'.last = hist.last /\ hist'.gen = hist.gen
         /\ Becomes(d, "idle", 0, {}, 0, "ok")
<1>1. SrvType /\ ShostType /\ HostsType /\ HistType /\ WorldType /\ RunsType
  BY DEF Types
<1>2. /\ SameTables /\ SameFiles /\ SameWorld /\ UNCHANGED host /\ Exit(d)
      /\ hist' = [hist EXCEPT !.crashes = hist.crashes + 1]
  BY DEF Dies, SameTables, SameFiles, SameWorld, tables, files, world
<1> QED
  BY <1>1, <1>2, CrashIs, Exiting, SameTypes DEF Types, SameTables

\* A run dies of the database, and may be able to say so there.
LEMMA SqlErrorIs ==
  ASSUME Types, NEW d \in Dcms, SqlError(d)
  PROVE  /\ Types' /\ SameFiles /\ SameWorld /\ UNCHANGED host
         /\ hist'.crashes > 0 /\ hist'.last = hist.last /\ hist'.gen = hist.gen
         /\ srv'.dfgen = srv.dfgen /\ \A h \in Hosts : shost'[h].lts = shost[h].lts
         /\ Becomes(d, "idle", 0, {}, 0, "ok")
<1>1. SrvType /\ ShostType /\ HostsType /\ HistType /\ WorldType /\ RunsType
  BY DEF Types
<1>2. /\ SameFiles /\ SameWorld /\ UNCHANGED host /\ Exit(d)
      /\ hist' = [hist EXCEPT !.crashes = hist.crashes + 1]
  BY DEF SqlError, SameFiles, SameWorld, files, world
<1>3. /\ SrvType' /\ ShostType'
      /\ srv'.dfgen = srv.dfgen /\ \A h \in Hosts : shost'[h].lts = shost[h].lts
  <2>1. CASE UNCHANGED shost /\ srv' = [srv EXCEPT !.inprogress = FALSE, !.harderror = TRUE]
    <3>1. SrvType' /\ srv'.dfgen = srv.dfgen
      BY <1>1, <2>1 DEF SrvType
    <3> QED
      BY <2>1, <3>1, SameTypes
  <2>2. ASSUME dcm[d].todo # {},
               shost' = [shost EXCEPT ![Cur(d)] = Failed(shost[Cur(d)], "hard")],
               srv' = [srv EXCEPT !.harderror = srv.harderror \/ kind.replicated]
        PROVE  /\ SrvType' /\ ShostType' /\ srv'.dfgen = srv.dfgen
               /\ \A h \in Hosts : shost'[h].lts = shost[h].lts
    <3>1. SrvType' /\ srv'.dfgen = srv.dfgen
      <4> DEFINE b == srv.harderror \/ kind.replicated
      <4>1. b \in BOOLEAN
        OBVIOUS
      <4>2. srv' = [srv EXCEPT !.harderror = b]
        BY <2>2
      <4> HIDE DEF b
      <4> QED
        BY <1>1, <4>1, <4>2 DEF SrvType
    <3>2. Cur(d) \in Hosts
      BY <2>2, AtHost
    <3>3. shost[Cur(d)] \in Row
      BY <1>1, <3>2, RowIs
    <3> DEFINE row == Failed(shost[Cur(d)], "hard")
    <3>4. row \in Row /\ row.lts = shost[Cur(d)].lts
      BY <3>3, FailedIs
    <3>5. shost' = [shost EXCEPT ![Cur(d)] = row]
      BY <2>2
    <3> HIDE DEF row
    <3>6. /\ ShostType' /\ shost'[Cur(d)] = row
          /\ \A k \in Hosts : k # Cur(d) => shost'[k] = shost[k]
      BY <1>1, <3>2, <3>4, <3>5, RowStep
    <3> QED
      BY <3>1, <3>4, <3>6
  <2> QED
    BY <2>1, <2>2 DEF SqlError
<1> QED
  BY <1>1, <1>2, <1>3, CrashIs, Exiting, SameTypes DEF Types

\* An operator resets a row.
LEMMA OperatorIs ==
  ASSUME Types, Operator
  PROVE  /\ Types' /\ SameFiles /\ SameWorld /\ UNCHANGED <<host, dcm, hist>> /\ AllIdle
         /\ srv'.dfgen \in {srv.dfgen, 0}
         /\ srv'.inprogress => srv.inprogress
         /\ \A h \in Hosts : /\ shost'[h].lts \in {shost[h].lts, 0}
                             /\ shost'[h].inprogress => shost[h].inprogress
<1>1. SrvType /\ ShostType /\ HostsType /\ HistType /\ WorldType /\ RunsType
  BY DEF Types
<1> DEFINE TablesAre == /\ SrvType' /\ ShostType'
                        /\ srv'.dfgen \in {srv.dfgen, 0}
                        /\ srv'.inprogress => srv.inprogress
                        /\ \A h \in Hosts : /\ shost'[h].lts \in {shost[h].lts, 0}
                                            /\ shost'[h].inprogress => shost[h].inprogress
           RestIs == /\ SameFiles /\ SameWorld /\ UNCHANGED <<host, dcm, hist>> /\ AllIdle
<1>2. ASSUME ResetServerError PROVE TablesAre /\ RestIs
  <2>1. /\ RestIs /\ shost' = shost
        /\ srv' = [srv EXCEPT !.harderror = FALSE, !.dfcheck = srv.dfgen]
    BY <1>2 DEF ResetServerError, SameFiles, SameWorld, files, world
  <2>2. SrvType' /\ srv'.dfgen = srv.dfgen /\ srv'.inprogress = srv.inprogress
    BY <1>1, <2>1 DEF SrvType
  <2> QED
    BY <2>1, <2>2, SameTypes
<1>3. ASSUME ResetServer PROVE TablesAre /\ RestIs
  <2>1. /\ RestIs /\ shost' = shost
        /\ srv' = [dfgen |-> 0, dfcheck |-> 0, inprogress |-> FALSE, harderror |-> FALSE]
    BY <1>3 DEF ResetServer, SameFiles, SameWorld, files, world
  <2>2. SrvType' /\ srv'.dfgen = 0 /\ srv'.inprogress = FALSE
    BY <2>1 DEF SrvType
  <2> QED
    BY <2>1, <2>2, SameTypes
<1>4. ASSUME NEW h \in Hosts, ResetHostError(h) PROVE TablesAre /\ RestIs
  <2> DEFINE row == [shost[h] EXCEPT !.hosterror = FALSE]
  <2>1. RestIs /\ srv' = srv /\ shost' = [shost EXCEPT ![h] = row]
    BY <1>4 DEF ResetHostError, SameFiles, SameWorld, files, world
  <2>2. shost[h] \in Row
    BY <1>1, RowIs
  <2>3. row \in Row /\ row.lts = shost[h].lts /\ row.inprogress = shost[h].inprogress
    BY <2>2 DEF Row
  <2> HIDE DEF row
  <2>4. /\ ShostType' /\ shost'[h] = row /\ \A k \in Hosts : k # h => shost'[k] = shost[k]
    BY <1>1, <2>1, <2>3, RowStep
  <2> QED
    BY <2>1, <2>3, <2>4, SameTypes
<1>5. ASSUME NEW h \in Hosts, ResetHost(h) PROVE TablesAre /\ RestIs
  <2> DEFINE row == [inprogress |-> FALSE, success |-> FALSE, hosterror |-> FALSE, lts |-> 0]
  <2>1. RestIs /\ srv' = srv /\ shost' = [shost EXCEPT ![h] = row]
    BY <1>5 DEF ResetHost, SameFiles, SameWorld, files, world
  <2>2. row \in Row /\ row.lts = 0 /\ row.inprogress = FALSE
    BY DEF Row
  <2> HIDE DEF row
  <2>3. /\ ShostType' /\ shost'[h] = row /\ \A k \in Hosts : k # h => shost'[k] = shost[k]
    BY <1>1, <2>1, <2>2, RowStep
  <2> QED
    BY <2>1, <2>2, <2>3, SameTypes
<1>6. TablesAre /\ RestIs
  BY <1>2, <1>3, <1>4, <1>5 DEF Operator
<1> QED
  BY <1>6, SameTypes DEF Types

\* The data changes, or time passes.
LEMMA OtherwiseIs ==
  ASSUME Types, Change \/ Tick
  PROVE  /\ Types' /\ SameTables /\ SameFiles /\ UNCHANGED <<host, dcm, hist, kind>>
         /\ now' \in {now, now + 1}
<1>1. now \in Nat /\ ver \in Nat /\ WorldType
  BY DEF Types, WorldType
<1>2. /\ SameTables /\ SameFiles /\ UNCHANGED <<host, dcm, hist, kind>>
      /\ now' \in {now, now + 1} /\ ver' \in {ver, ver + 1}
  BY DEF Change, Tick, SameTables, SameFiles, tables, files
<1>3. WorldType'
  BY <1>1, <1>2 DEF WorldType, SameFiles
<1> QED
  BY <1>2, <1>3, SameTypes DEF Types, SameTables

\* No step disturbs the types.
LEMMA TypesKeep == Types /\ [Next]_vars => Types'
<1> SUFFICES ASSUME Types, [Next]_vars PROVE Types'
  OBVIOUS
<1>1. ASSUME NEW d \in Dcms, NEW byHand \in BOOLEAN, NEW force \in BOOLEAN,
             GenRead(d, byHand, force)
      PROVE  Types'
  BY <1>1, GenReadIs
<1>2. ASSUME NEW d \in Dcms, Generating(d) PROVE Types'
  BY <1>2, GenMarkIs, GenWriteIs, GenNoChangeIs, GenDoneIs, GenFailsIs DEF Generating
<1>3. ASSUME NEW d \in Dcms, Distributing(d) PROVE Types'
  BY <1>3, HostsStartIs, HostCheckIs, HostMarkIs, ConnectIs, SendStartIs, SendDataIs,
     SendRecordIs, ExecStartIs, ExecIs, ExecRecordIs, FinishIs DEF Distributing
<1>4. ASSUME NEW d \in Dcms, Dies(d) \/ SqlError(d) PROVE Types'
  BY <1>4, DiesIs, SqlErrorIs
<1>5. ASSUME Operator \/ Change \/ Tick PROVE Types'
  BY <1>5, OperatorIs, OtherwiseIs
<1>6. CASE UNCHANGED vars
  <2>1. /\ UNCHANGED <<srv, shost, host, hist, dcm>> /\ SameFiles /\ SameWorld
    BY <1>6 DEF vars, tables, files, world, SameFiles, SameWorld
  <2> QED
    BY <2>1, SameTypes DEF Types
<1> QED
  BY <1>1, <1>2, <1>3, <1>4, <1>5, <1>6 DEF Next

-----------------------------------------------------------------------------
(* What each step keeps of the invariant: generate_service                 *)

\* The numbers that are compared.
LEMMA Numbers ==
  ASSUME Types
  PROVE  /\ now \in Nat /\ srv.dfgen \in Nat /\ hist.last \in Nat /\ hist.crashes \in Nat
         /\ \A h \in Hosts : shost[h].lts \in Nat
         /\ \A d \in Dcms : dcm[d].t \in Nat
  BY RunIs, RowIs DEF Types, WorldType, SrvType, HistType

\* A run is at no more than one place.
LEMMA Apart ==
  /\ ~("idle" \in FirstLoop \cup SecondLoop \cup Sending)
  /\ \A pc \in {"genmark", "gen", "genwait"} : ~(pc \in FirstLoop \cup SecondLoop \cup Sending)
  /\ ~("hosts" \in FirstLoop \cup SecondLoop) /\ ~("finish" \in FirstLoop \cup SecondLoop)
  /\ FirstLoop \cap SecondLoop = {}
  BY DEF FirstLoop, SecondLoop, Sending

\* A run that ends leaves no marks, unless one has died.
LEMMA EndKeeps ==
  ASSUME IInv, OneRun, NEW d \in Dcms, Becomes(d, "idle", 0, {}, 0, "ok"),
         srv'.dfgen = srv.dfgen, \A h \in Hosts : shost'[h].lts = shost[h].lts,
         host' = host, hist'.gen = hist.gen, now' = now,
         hist'.last = hist.last \/ hist'.last = now,
         hist'.crashes = 0 => ~srv'.inprogress /\ \A h \in Hosts : ~shost'[h].inprogress
  PROVE  RunInv'
<1>1. /\ now \in Nat /\ srv.dfgen \in Nat /\ hist.last \in Nat
      /\ \A h \in Hosts : shost[h].lts \in Nat
  BY Numbers DEF IInv
<1>2. /\ hist.last <= now /\ srv.dfgen <= hist.last
      /\ \A h \in Hosts : shost[h].lts <= hist.last
  BY DEF IInv, RunInv, TimeInv
<1>3. \A c \in Dcms : c = d
  BY DEF OneRun
<1>4. dcm'[d].pc = "idle" /\ dcm'[d].t = 0
  BY DEF Becomes
<1>5. \A c \in Dcms : dcm'[c].pc = "idle" /\ dcm'[c].t = 0
  BY <1>3, <1>4
<1>6. TimeInv'
  BY <1>1, <1>2, <1>5, Apart DEF TimeInv
<1>7. OutInv' /\ SentInv'
  BY <1>5, Apart DEF OutInv, SentInv
<1>8. MarkInv'
  BY DEF MarkInv
<1>9. RecordedIsInstalled'
  BY DEF IInv, RunInv, RecordedIsInstalled
<1> QED
  BY <1>6, <1>7, <1>8, <1>9 DEF RunInv

\* No host is marked by a run that is generating, or is done with it.
LEMMA UnmarkedWhile ==
  ASSUME IInv, OneRun, NEW d \in Dcms,
         dcm[d].pc \in {"idle", "genmark", "gen", "genwait", "hosts"}, hist.crashes = 0
  PROVE  \A h \in Hosts : ~shost[h].inprogress
<1>1. ~(dcm[d].pc \in FirstLoop \cup SecondLoop) /\ dcm[d].pc # "finish"
  BY Apart
<1> QED
  BY <1>1 DEF IInv, RunInv, MarkInv, OneRun

\* generate_service looks at the service.
LEMMA GenReadKeeps ==
  ASSUME IInv, OneRun, NEW d \in Dcms, NEW byHand, NEW force, GenRead(d, byHand, force)
  PROVE  RunInv'
<1>1. /\ SameTables /\ SameFiles /\ SameWorld /\ UNCHANGED host
      /\ dcm[d].pc = "idle" /\ hist.last < now /\ ~srv.inprogress
      /\ Becomes(d, "genmark", now, dcm[d].todo, dcm[d].said, dcm[d].res)
      /\ hist'.last = now /\ hist'.gen = hist.gen /\ hist'.crashes = hist.crashes
  BY GenReadIs DEF IInv, At
<1>2. /\ now \in Nat /\ srv.dfgen \in Nat /\ hist.last \in Nat
      /\ \A h \in Hosts : shost[h].lts \in Nat
  BY Numbers DEF IInv
<1>3. /\ hist.last <= now /\ srv.dfgen <= hist.last
      /\ \A h \in Hosts : shost[h].lts <= hist.last
  BY DEF IInv, RunInv, TimeInv
<1>4. \A c \in Dcms : c = d
  BY DEF OneRun
<1>5. \A c \in Dcms : dcm'[c].pc = "genmark" /\ dcm'[c].t = now
  BY <1>1, <1>4 DEF Becomes
<1>6. TimeInv'
  BY <1>1, <1>2, <1>3, <1>5, Apart DEF TimeInv, SameTables, SameWorld
<1>7. OutInv' /\ SentInv'
  BY <1>5, Apart DEF OutInv, SentInv
<1>8. MarkInv'
  BY <1>1, UnmarkedWhile DEF MarkInv, SameTables
<1>9. RecordedIsInstalled'
  BY <1>1 DEF IInv, RunInv, RecordedIsInstalled, SameTables
<1> QED
  BY <1>6, <1>7, <1>8, <1>9 DEF RunInv

\* It marks it, and the generator begins.
LEMMA GenGoesOn ==
  ASSUME IInv, OneRun, NEW d \in Dcms, GenMark(d) \/ GenWrite(d)
  PROVE  RunInv'
<1>1. /\ UNCHANGED <<shost, host>> /\ SameWorld /\ SameHist /\ srv'.dfgen = srv.dfgen
      /\ dcm[d].pc \in {"genmark", "gen"}
      /\ dcm'[d].pc \in {"gen", "genwait"} /\ dcm'[d].t = dcm[d].t
  BY GenMarkIs, GenWriteIs DEF IInv, At, Becomes, SameTables
<1>2. \A c \in Dcms : c = d
  BY DEF OneRun
<1>3. dcm'[d].pc \in {"genmark", "gen", "genwait"}
  BY <1>1
<1>4. TimeInv'
  BY <1>1, <1>2, <1>3, Apart DEF TimeInv, IInv, RunInv, SameWorld, SameHist
<1>5. OutInv' /\ SentInv'
  BY <1>1, <1>2, <1>3, Apart DEF OutInv, SentInv
<1>6. MarkInv'
  BY <1>1, UnmarkedWhile DEF MarkInv, SameHist
<1>7. RecordedIsInstalled'
  BY <1>1 DEF IInv, RunInv, RecordedIsInstalled, SameHist
<1> QED
  BY <1>4, <1>5, <1>6, <1>7 DEF RunInv

\* It is over for this time.
LEMMA GenEndsKeeps ==
  ASSUME IInv, OneRun, NEW d \in Dcms,
         GenNoChange(d) \/ \E hard \in BOOLEAN : GenFails(d, hard)
  PROVE  RunInv'
<1>1. /\ UNCHANGED <<shost, host>> /\ SameWorld /\ SameHist /\ srv'.dfgen = srv.dfgen
      /\ srv'.inprogress = FALSE /\ Becomes(d, "idle", 0, {}, 0, "ok")
  BY GenNoChangeIs, GenFailsIs DEF IInv
<1>2. dcm[d].pc \in {"gen", "genwait"}
  BY DEF GenNoChange, GenFails, At
<1>3. hist'.crashes = 0 => ~srv'.inprogress /\ \A h \in Hosts : ~shost'[h].inprogress
  BY <1>1, <1>2, UnmarkedWhile DEF SameHist
<1> QED
  BY <1>1, <1>3, EndKeeps DEF SameHist, SameWorld

\* The new data is due everywhere.
LEMMA GenDoneKeeps ==
  ASSUME IInv, OneRun, NEW d \in Dcms, GenDone(d)
  PROVE  RunInv'
<1>1. /\ UNCHANGED <<shost, host>> /\ SameWorld
      /\ dcm[d].pc = "genwait" /\ srv'.dfgen = dcm[d].t /\ srv'.inprogress = FALSE
      /\ hist'.last = hist.last /\ hist'.crashes = hist.crashes /\ out' = hist'.gen
      /\ dcm'[d].pc = "hosts" /\ dcm'[d].t = dcm[d].t
  BY GenDoneIs DEF IInv, At, Becomes
<1>2. \A c \in Dcms : c = d
  BY DEF OneRun
<1>3. /\ now \in Nat /\ dcm[d].t \in Nat /\ hist.last \in Nat
      /\ \A h \in Hosts : shost[h].lts \in Nat
  BY Numbers DEF IInv
<1>4. /\ hist.last <= now /\ dcm[d].t <= hist.last /\ 0 < dcm[d].t
      /\ \A h \in Hosts : shost[h].lts <= hist.last /\ shost[h].lts < dcm[d].t
  BY <1>1 DEF IInv, RunInv, TimeInv
<1>5. TimeInv'
  BY <1>1, <1>2, <1>3, <1>4, Apart DEF TimeInv, SameWorld
<1>6. OutInv' /\ SentInv'
  BY <1>1, <1>2, Apart DEF OutInv, SentInv
<1>7. MarkInv'
  BY <1>1, UnmarkedWhile DEF MarkInv
<1>8. RecordedIsInstalled'
  BY <1>1, <1>3, <1>4 DEF RecordedIsInstalled
<1> QED
  BY <1>5, <1>6, <1>7, <1>8 DEF RunInv

-----------------------------------------------------------------------------
(* do_hosts                                                                *)

\* The first loop begins.
LEMMA HostsStartKeeps ==
  ASSUME IInv, OneRun, NEW d \in Dcms, HostsStart(d)
  PROVE  RunInv'
<1>1. /\ SameTables /\ SameFiles /\ SameWorld /\ UNCHANGED host
      /\ dcm[d].pc = "hosts" /\ hist'.last = now /\ hist'.gen = hist.gen
      /\ hist'.crashes = hist.crashes
      /\ \/ Becomes(d, "idle", 0, {}, 0, "ok")
         \/ Becomes(d, "check", now, {h \in Hosts : Due(h)}, 0, "ok")
  BY HostsStartIs DEF IInv, At
<1>2. \A c \in Dcms : c = d
  BY DEF OneRun
<1>3. hist.crashes = 0 => ~srv.inprogress /\ \A h \in Hosts : ~shost[h].inprogress
  <2>1. \A c \in Dcms : ~(dcm[c].pc \in {"gen", "genwait"})
    BY <1>1, <1>2
  <2> QED
    BY <1>1, <2>1, UnmarkedWhile DEF IInv, RunInv, MarkInv
<1>4. CASE Becomes(d, "idle", 0, {}, 0, "ok")
  BY <1>1, <1>3, <1>4, EndKeeps DEF SameTables, SameWorld
<1>5. CASE Becomes(d, "check", now, {h \in Hosts : Due(h)}, 0, "ok")
  <2>1. dcm'[d].pc = "check" /\ dcm'[d].t = now /\ dcm'[d].todo = {h \in Hosts : Due(h)}
    BY <1>5 DEF Becomes
  <2>2. /\ now \in Nat /\ srv.dfgen \in Nat /\ hist.last \in Nat
        /\ \A h \in Hosts : shost[h].lts \in Nat
    BY Numbers DEF IInv
  <2>3. /\ hist.last <= now /\ srv.dfgen <= hist.last /\ 0 < srv.dfgen
        /\ \A h \in Hosts : shost[h].lts <= hist.last /\ shost[h].lts < srv.dfgen
    BY <1>1 DEF IInv, RunInv, TimeInv, Sending
  <2>4. TimeInv'
    BY <1>1, <1>2, <2>1, <2>2, <2>3 DEF TimeInv, SameTables, SameWorld, FirstLoop, SecondLoop
  <2>5. out = hist.gen
    BY <1>1 DEF IInv, RunInv, OutInv, Sending
  <2>6. OutInv'
    BY <1>1, <1>2, <2>1, <2>5 DEF OutInv, SameFiles
  <2>7. /\ \A h \in dcm'[d].todo : ~shost[h].hosterror
        /\ \A h \in Hosts \ dcm'[d].todo : shost[h].hosterror
    BY <2>1, <2>3 DEF Due
  <2>8. /\ \A h \in Hosts : ~Taken(h)' \/ ~shost[h].hosterror
        /\ \A h \in Hosts : ~Due(h)' \/ ~shost[h].hosterror
    BY <1>1 DEF Taken, Due, SameTables
  <2>9. SentInv'
    BY <1>1, <1>2, <2>1, <2>7, <2>8 DEF SentInv, SameTables, FirstLoop, SecondLoop
  <2>10. MarkInv'
    BY <1>1, <1>3 DEF MarkInv, SameTables
  <2>11. RecordedIsInstalled'
    BY <1>1 DEF IInv, RunInv, RecordedIsInstalled, SameTables
  <2> QED
    BY <2>4, <2>6, <2>9, <2>10, <2>11 DEF RunInv
<1> QED
  BY <1>1, <1>4, <1>5

Working == FirstLoop \cup SecondLoop \cup {"finish"}

\* What a step of a run at work leaves as it was.
StillWorking(d) ==
    /\ dcm[d].pc \in Working /\ dcm'[d].pc \in Working /\ dcm'[d].t = dcm[d].t
    /\ dcm'[d].pc = "send" => dcm'[d].said = out
    /\ SameFiles /\ SameWorld /\ SameHist /\ srv' = srv

\* While it works, what it distributes is what was generated last.
LEMMA AtWork ==
  ASSUME IInv, OneRun, NEW d \in Dcms, StillWorking(d)
  PROVE  /\ OutInv' /\ \A c \in Dcms : c = d
         /\ hist.crashes = 0 => ~srv.inprogress
         /\ out = hist.gen /\ 0 < srv.dfgen /\ srv.dfgen <= dcm[d].t
<1>1. \A c \in Dcms : c = d
  BY DEF OneRun
<1>2. dcm[d].pc \in Sending /\ dcm'[d].pc \in Sending
  BY DEF Sending, StillWorking, Working
<1>3. OutInv' /\ out = hist.gen
  BY <1>1, <1>2 DEF IInv, RunInv, OutInv, SameFiles, SameHist, StillWorking
<1>4. hist.crashes = 0 => ~srv.inprogress
  <2>1. \A c \in Dcms : ~(dcm[c].pc \in {"gen", "genwait"})
    BY <1>1 DEF FirstLoop, SecondLoop, StillWorking, Working
  <2> QED
    BY <2>1 DEF IInv, RunInv, MarkInv
<1>5. 0 < srv.dfgen /\ srv.dfgen <= dcm[d].t
  BY <1>2 DEF IInv, RunInv, TimeInv
<1> QED
  BY <1>1, <1>3, <1>4, <1>5

\* The times stay in order as long as what it records is its own.
LEMMA TimesKept ==
  ASSUME IInv, OneRun, NEW d \in Dcms, StillWorking(d),
         \A h \in Hosts : shost'[h].lts \in {shost[h].lts, dcm[d].t},
         dcm'[d].pc \in FirstLoop => dcm[d].pc \in FirstLoop
                                     /\ \A h \in Hosts : shost'[h].lts = shost[h].lts,
         dcm'[d].pc \in SecondLoop => \A h \in dcm'[d].todo : shost'[h].lts < srv.dfgen
  PROVE  TimeInv'
<1>1. \A c \in Dcms : c = d
  BY DEF OneRun
<1>2. /\ hist'.last <= now' /\ srv'.dfgen <= hist'.last /\ dcm'[d].t <= hist'.last
      /\ hist.last <= now /\ dcm[d].t <= hist.last
      /\ dcm[d].pc \in FirstLoop => \A h \in Hosts : shost[h].lts < srv.dfgen
  BY DEF IInv, RunInv, TimeInv, SameHist, SameWorld, StillWorking
<1>3. \A h \in Hosts : shost'[h].lts <= hist'.last
  BY <1>2 DEF IInv, RunInv, TimeInv, SameHist, StillWorking
<1>4. 0 < srv'.dfgen /\ srv'.dfgen <= dcm'[d].t
  BY AtWork DEF StillWorking
<1>5. dcm'[d].pc \notin {"genmark", "gen", "genwait", "hosts"}
  BY DEF StillWorking, Working, FirstLoop, SecondLoop
<1>6. dcm'[d].pc \in FirstLoop => \A h \in Hosts : shost'[h].lts < srv'.dfgen
  BY <1>2 DEF StillWorking
<1>7. dcm'[d].pc \in SecondLoop => \A h \in dcm'[d].todo : shost'[h].lts < srv'.dfgen
  BY DEF StillWorking
<1> QED
  BY <1>1, <1>2, <1>3, <1>4, <1>5, <1>6, <1>7 DEF TimeInv

\* The next host is looked at: it is not marked yet, unless a run has died.
LEMMA HostCheckKeeps ==
  ASSUME IInv, OneRun, NEW d \in Dcms, HostCheck(d)
  PROVE  RunInv'
<1>1. /\ SameTables /\ SameFiles /\ SameWorld /\ UNCHANGED <<host, hist>>
      /\ dcm[d].pc = "check" /\ Cur(d) \in dcm[d].todo
      /\ \/ Becomes(d, "idle", 0, {}, 0, "ok") /\ shost[Cur(d)].inprogress
         \/ Becomes(d, "mark", dcm[d].t, dcm[d].todo, dcm[d].said, dcm[d].res)
  BY HostCheckIs DEF IInv, At
<1>2. \A c \in Dcms : c = d
  BY DEF OneRun
<1>3. Cur(d) \in Hosts /\ dcm[d].todo \in SUBSET Hosts
  BY <1>1, RunIs DEF IInv, Types
<1>4. CASE Becomes(d, "idle", 0, {}, 0, "ok") /\ shost[Cur(d)].inprogress
  <2>1. hist.crashes # 0
    <3>1. ~(dcm[d].pc \in SecondLoop) /\ dcm[d].pc # "finish"
      BY <1>1 DEF SecondLoop
    <3> QED
      BY <1>1, <1>2, <1>3, <1>4, <3>1 DEF IInv, RunInv, MarkInv
  <2> QED
    BY <1>1, <1>4, <2>1, EndKeeps DEF SameTables, SameWorld
<1>5. CASE Becomes(d, "mark", dcm[d].t, dcm[d].todo, dcm[d].said, dcm[d].res)
  <2>1. dcm'[d].pc = "mark" /\ dcm'[d].t = dcm[d].t /\ dcm'[d].todo = dcm[d].todo
    BY <1>5 DEF Becomes
  <2>2. /\ dcm[d].pc \in FirstLoop /\ dcm'[d].pc \in FirstLoop
        /\ dcm'[d].pc \notin SecondLoop /\ dcm'[d].pc # "finish"
    BY <1>1, <2>1 DEF FirstLoop, SecondLoop
  <2>3. StillWorking(d)
    BY <1>1, <2>1, <2>2 DEF StillWorking, Working, SameHist, SameTables
  <2>4. TimeInv' /\ OutInv'
    BY <1>1, <2>2, <2>3, AtWork, TimesKept DEF SameTables
  <2>5. /\ \A h \in Hosts : (Taken(h)' <=> Taken(h)) /\ (Due(h)' <=> Due(h))
        /\ \A h \in Hosts : Sent(h)' <=> Sent(h)
    BY <1>1 DEF Taken, Due, Sent, SameTables, SameFiles
  <2>6. SentInv'
    BY <1>1, <1>2, <2>1, <2>2, <2>5 DEF IInv, RunInv, SentInv, SameTables, SameWorld
  <2>7. MarkInv'
    <3> SUFFICES ASSUME hist.crashes = 0
                 PROVE  /\ ~srv'.inprogress
                        /\ \A h \in Hosts : shost'[h].inprogress =>
                              ~shost'[h].hosterror /\ h \notin dcm'[d].todo
      BY <1>1, <2>2 DEF MarkInv
    <3> QED
      BY <1>1, <1>2, <2>1, <2>2, <2>3, AtWork, Apart DEF IInv, RunInv, MarkInv, SameTables
  <2>8. RecordedIsInstalled'
    BY <1>1 DEF IInv, RunInv, RecordedIsInstalled, SameTables
  <2> QED
    BY <2>4, <2>6, <2>7, <2>8 DEF RunInv
<1> QED
  BY <1>1, <1>4, <1>5

\* It is marked.
LEMMA HostMarkKeeps ==
  ASSUME IInv, OneRun, NEW d \in Dcms, HostMark(d)
  PROVE  RunInv'
<1>1. /\ UNCHANGED <<srv, host>> /\ SameFiles /\ SameWorld /\ SameHist
      /\ dcm[d].pc = "mark" /\ Cur(d) \in dcm[d].todo /\ Cur(d) \in Hosts
      /\ dcm'[d].pc = "connect" /\ dcm'[d].t = dcm[d].t /\ dcm'[d].todo = dcm[d].todo
      /\ \A h \in Hosts : /\ shost'[h].lts = shost[h].lts
                          /\ shost'[h].hosterror = shost[h].hosterror
                          /\ h # Cur(d) => shost'[h] = shost[h]
  BY HostMarkIs DEF IInv, At, Becomes
<1>2. \A c \in Dcms : c = d
  BY DEF OneRun
<1>3. /\ dcm[d].pc \in FirstLoop /\ dcm'[d].pc \in FirstLoop
      /\ dcm[d].pc \notin SecondLoop /\ dcm'[d].pc \notin SecondLoop
  BY <1>1 DEF FirstLoop, SecondLoop
<1>4. StillWorking(d)
  BY <1>1, <1>3 DEF StillWorking, Working
<1>5. TimeInv' /\ OutInv'
  BY <1>1, <1>3, <1>4, AtWork, TimesKept
<1>6. \A h \in Hosts \ dcm[d].todo :
         (Taken(h)' => Taken(h)) /\ (Due(h)' => Due(h)) /\ (Sent(h) => Sent(h)')
  BY <1>1 DEF Taken, Due, Sent, SameFiles
<1>7. SentInv'
  <2>1. dcm[d].todo \subseteq Hosts
    BY RunIs DEF IInv, Types
  <2>2. /\ \A h \in dcm[d].todo : ~shost[h].hosterror
        /\ \A h \in Hosts \ dcm[d].todo :
              Taken(h) \/ (kind.replicated /\ Due(h)) => Sent(h)
    BY <1>3 DEF IInv, RunInv, SentInv
  <2> QED
    BY <1>1, <1>2, <1>3, <1>6, <2>1, <2>2 DEF SentInv, SameWorld
<1>8. MarkInv'
  <2>1. Cur(d)' = Cur(d)
    BY <1>1 DEF Cur
  <2>2. ASSUME hist.crashes = 0, NEW h \in Hosts, shost'[h].inprogress
        PROVE  /\ ~shost'[h].hosterror
               /\ h \notin dcm'[d].todo \/ h = Cur(d)'
    <3>1. CASE h = Cur(d)
      BY <1>1, <1>3, <2>1, <3>1 DEF IInv, RunInv, SentInv
    <3>2. CASE h # Cur(d)
      <4>1. shost[h].inprogress
        BY <1>1, <2>2, <3>2
      <4> QED
        BY <1>1, <1>2, <1>3, <2>2, <3>2, <4>1 DEF IInv, RunInv, MarkInv
    <3> QED
      BY <3>1, <3>2
  <2>3. hist.crashes = 0 => ~srv'.inprogress
    BY <1>1, <1>4, AtWork
  <2> QED
    BY <1>1, <1>3, <2>2, <2>3 DEF MarkInv, SameHist
<1>9. RecordedIsInstalled'
  BY <1>1 DEF IInv, RunInv, RecordedIsInstalled, SameHist
<1> QED
  BY <1>5, <1>7, <1>8, <1>9 DEF RunInv

\* Nothing is recorded, installed or sent whole while a run is at a host.
LEMMA AtHostKeeps ==
  ASSUME IInv, OneRun, NEW d \in Dcms, StillWorking(d), shost' = shost,
         dcm'[d].todo = dcm[d].todo, Cur(d) \in dcm[d].todo,
         \A h \in Hosts : h # Cur(d) => host'[h] = host[h],
         \/ /\ dcm[d].pc \in {"connect", "send"} /\ dcm'[d].pc \in {"send", "sent"}
            /\ host'[Cur(d)].inst = host[Cur(d)].inst
            /\ dcm'[d].pc = "sent" /\ dcm'[d].res = "ok" => Sent(Cur(d))'
         \/ /\ dcm[d].pc = "exec" /\ dcm'[d].pc = "execd"
            /\ dcm'[d].res = "ok" => host'[Cur(d)].inst = host[Cur(d)].path.data
  PROVE  RunInv'
<1>1. /\ \A c \in Dcms : c = d
      /\ OutInv' /\ out = hist.gen /\ 0 < srv.dfgen /\ srv.dfgen <= dcm[d].t
      /\ hist.crashes = 0 => ~srv.inprogress
  BY AtWork
<1>2. /\ SameFiles /\ SameWorld /\ SameHist /\ srv' = srv
  BY DEF StillWorking
<1>3. dcm[d].todo \subseteq Hosts /\ Cur(d)' = Cur(d) /\ Cur(d) \in Hosts
  BY RunIs DEF IInv, Types, Cur
<1>4. /\ \/ dcm[d].pc \in FirstLoop /\ dcm'[d].pc \in FirstLoop
         \/ dcm[d].pc \in SecondLoop /\ dcm'[d].pc \in SecondLoop
      /\ dcm'[d].pc # "finish"
  BY DEF FirstLoop, SecondLoop
<1>5. TimeInv'
  <2>1. dcm'[d].pc \in FirstLoop => dcm[d].pc \in FirstLoop
    BY <1>4, Apart
  <2>2. dcm'[d].pc \in SecondLoop => dcm[d].pc \in SecondLoop
    BY <1>4, Apart
  <2>3. dcm'[d].pc \in SecondLoop => \A h \in dcm'[d].todo : shost'[h].lts < srv.dfgen
    BY <2>2 DEF IInv, RunInv, TimeInv
  <2> QED
    BY <2>1, <2>3, TimesKept
<1>6. \A h \in Hosts : /\ (Taken(h)' <=> Taken(h)) /\ (Due(h)' <=> Due(h))
                       /\ h # Cur(d) => (Sent(h)' <=> Sent(h))
  BY <1>2 DEF Taken, Due, Sent, SameFiles
<1>7. ASSUME dcm[d].pc \in FirstLoop, dcm'[d].pc \in FirstLoop PROVE SentInv'
  <2>1. /\ \A h \in dcm[d].todo : ~shost[h].hosterror
        /\ \A h \in Hosts \ dcm[d].todo :
              Taken(h) \/ (kind.replicated /\ Due(h)) => Sent(h)
    BY <1>7 DEF IInv, RunInv, SentInv
  <2>2. dcm'[d].pc \notin SecondLoop /\ dcm'[d].pc # "execd"
    BY <1>7 DEF FirstLoop, SecondLoop
  <2>3. dcm'[d].pc = "sent" /\ dcm'[d].res = "ok" => Sent(Cur(d))'
    BY <1>7 DEF FirstLoop
  <2> QED
    BY <1>1, <1>2, <1>3, <1>4, <1>6, <2>1, <2>2, <2>3 DEF SentInv, SameWorld
<1>8. ASSUME dcm[d].pc = "exec", dcm'[d].pc = "execd",
             dcm'[d].res = "ok" => host'[Cur(d)].inst = host[Cur(d)].path.data
      PROVE  SentInv'
  <2>1. \A h \in Hosts : h \in dcm[d].todo \/ (kind.replicated /\ Due(h)) => Sent(h)
    BY <1>8 DEF IInv, RunInv, SentInv, SecondLoop
  <2>2. dcm'[d].pc \notin FirstLoop /\ dcm'[d].pc # "sent"
    BY <1>8 DEF FirstLoop
  <2>3. dcm'[d].res = "ok" => host'[Cur(d)].inst = hist'.gen
    BY <1>1, <1>2, <1>3, <1>8, <2>1 DEF Sent, SameHist
  <2> QED
    BY <1>1, <1>2, <1>3, <1>4, <1>6, <1>8, <2>1, <2>2, <2>3 DEF SentInv, SameWorld
<1>9. SentInv'
  BY <1>4, <1>7, <1>8 DEF FirstLoop, SecondLoop
<1>10. MarkInv'
  <2> SUFFICES ASSUME hist.crashes = 0, NEW h \in Hosts, shost[h].inprogress
               PROVE  LET r == dcm'[d]
                      IN  \/ /\ r.pc \in FirstLoop /\ ~shost'[h].hosterror
                             /\ \/ h \notin r.todo
                                \/ h = Cur(d)' /\ r.pc \in {"connect", "send", "sent"}
                          \/ r.pc \in SecondLoop /\ h \in r.todo
                          \/ r.pc = "finish"
    BY <1>1, <1>2 DEF MarkInv, SameHist
  <2> QED
    BY <1>1, <1>3, <1>4, Apart DEF IInv, RunInv, MarkInv
<1>11. RecordedIsInstalled'
  <2>1. shost[Cur(d)].lts < srv.dfgen
    BY <1>3, <1>4 DEF IInv, RunInv, TimeInv
  <2>2. shost[Cur(d)].lts \in Nat /\ srv.dfgen \in Nat
    BY <1>3, Numbers DEF IInv
  <2>3. ASSUME NEW h \in Hosts, 0 < srv.dfgen, srv.dfgen <= shost[h].lts
        PROVE  host'[h].inst = hist.gen
    <3>1. h # Cur(d)
      BY <2>1, <2>2, <2>3
    <3> QED
      BY <2>3, <3>1 DEF IInv, RunInv, RecordedIsInstalled
  <2> QED
    BY <1>2, <2>3 DEF RecordedIsInstalled, SameHist
<1> QED
  BY <1>1, <1>5, <1>9, <1>10, <1>11 DEF RunInv

\* There is no connection, or it is refused.
LEMMA ConnectKeeps ==
  ASSUME IInv, OneRun, NEW d \in Dcms, NEW res \in {"soft", "hard"}, Connect(d, res)
  PROVE  RunInv'
<1>1. /\ SameTables /\ SameFiles /\ SameWorld /\ UNCHANGED host /\ SameHist
      /\ Cur(d) \in dcm[d].todo
      /\ dcm'[d].todo = dcm[d].todo /\ dcm'[d].t = dcm[d].t /\ dcm'[d].res = res
      /\ \/ dcm[d].pc = "connect" /\ dcm'[d].pc = "sent"
         \/ dcm[d].pc = "exec" /\ dcm'[d].pc = "execd"
  BY ConnectIs DEF IInv, At, Becomes
<1>2. StillWorking(d)
  BY <1>1 DEF StillWorking, Working, FirstLoop, SecondLoop, SameTables
<1> QED
  BY <1>1, <1>2, AtHostKeeps DEF SameTables

\* A file is announced.
LEMMA SendStartKeeps ==
  ASSUME IInv, OneRun, NEW d \in Dcms, SendStart(d)
  PROVE  RunInv'
<1>1. /\ SameTables /\ SameFiles /\ SameWorld /\ SameHist
      /\ host'[Cur(d)].inst = host[Cur(d)].inst
      /\ \A k \in Hosts : k # Cur(d) => host'[k] = host[k]
      /\ dcm'[d].todo = dcm[d].todo /\ dcm'[d].t = dcm[d].t /\ dcm'[d].said = out
      /\ dcm[d].pc = "connect"
      /\ dcm'[d].pc = "send" \/ (dcm'[d].pc = "sent" /\ dcm'[d].res = "hard")
  BY SendStartIs DEF IInv, At, Becomes
<1>2. StillWorking(d)
  BY <1>1 DEF StillWorking, Working, FirstLoop, SecondLoop, SameTables
<1>3. Cur(d) \in dcm[d].todo
  BY <1>1, AtHost DEF IInv, HasHost
<1> QED
  BY <1>1, <1>2, <1>3, AtHostKeeps DEF SameTables

\* It is sent.
LEMMA SendDataKeeps ==
  ASSUME IInv, OneRun, NEW d \in Dcms, SendData(d)
  PROVE  RunInv'
<1>1. /\ SameTables /\ SameFiles /\ SameWorld /\ SameHist
      /\ host'[Cur(d)].inst = host[Cur(d)].inst
      /\ \A k \in Hosts : k # Cur(d) => host'[k] = host[k]
      /\ dcm'[d].todo = dcm[d].todo /\ dcm'[d].t = dcm[d].t
      /\ dcm[d].pc = "send" /\ dcm'[d].pc = "sent"
      /\ dcm'[d].res = "ok" => host'[Cur(d)].path.data = dcm[d].said
  BY SendDataIs DEF IInv, At, Becomes
<1>2. StillWorking(d)
  BY <1>1 DEF StillWorking, Working, FirstLoop, SecondLoop, SameTables
<1>3. Cur(d) \in dcm[d].todo
  BY <1>1, AtHost DEF IInv, HasHost
<1>4. dcm'[d].res = "ok" => Sent(Cur(d))'
  <2>1. dcm[d].said = out /\ out' = out /\ Cur(d)' = Cur(d)
    BY <1>1 DEF IInv, RunInv, OutInv, SameFiles, Cur
  <2> QED
    BY <1>1, <2>1 DEF Sent
<1> QED
  BY <1>1, <1>2, <1>3, <1>4, AtHostKeeps DEF SameTables

\* The script is run.
LEMMA ExecKeeps ==
  ASSUME IInv, OneRun, NEW d \in Dcms, Exec(d)
  PROVE  RunInv'
<1>1. /\ SameTables /\ SameFiles /\ SameWorld /\ SameHist
      /\ Cur(d) \in dcm[d].todo
      /\ \A k \in Hosts : k # Cur(d) => host'[k] = host[k]
      /\ dcm'[d].todo = dcm[d].todo /\ dcm'[d].t = dcm[d].t
      /\ dcm[d].pc = "exec" /\ dcm'[d].pc = "execd"
      /\ dcm'[d].res = "ok" => host'[Cur(d)].inst = host[Cur(d)].path.data
  BY ExecIs DEF IInv, At, Becomes
<1>2. StillWorking(d)
  BY <1>1 DEF StillWorking, Working, FirstLoop, SecondLoop, SameTables
<1> QED
  BY <1>1, <1>2, AtHostKeeps DEF SameTables

\* The first loop goes on, or ends for a failure.
LEMMA SendRecordKeeps ==
  ASSUME IInv, OneRun, NEW d \in Dcms, SendRecord(d)
  PROVE  RunInv'
<1>1. /\ UNCHANGED <<srv, host>> /\ SameFiles /\ SameWorld /\ SameHist
      /\ dcm[d].pc = "sent" /\ Cur(d) \in dcm[d].todo /\ Cur(d) \in Hosts
      /\ \A k \in Hosts : k # Cur(d) => shost'[k] = shost[k]
      /\ shost'[Cur(d)].lts = shost[Cur(d)].lts
      /\ dcm[d].res = "ok" => shost' = shost
      /\ dcm[d].res # "ok" => ~shost'[Cur(d)].inprogress
      /\ dcm'[d].t = dcm[d].t
      /\ \/ /\ kind.replicated /\ dcm[d].res # "ok" /\ dcm'[d].pc = "finish"
         \/ /\ ~(kind.replicated /\ dcm[d].res # "ok")
            /\ dcm'[d].pc = "check" /\ dcm'[d].todo = dcm[d].todo \ {Cur(d)}
  BY SendRecordIs DEF IInv, At, Becomes
<1>2. /\ dcm[d].pc \in FirstLoop /\ dcm[d].pc \notin SecondLoop
      /\ dcm'[d].pc \notin SecondLoop /\ dcm'[d].pc # "sent" /\ dcm'[d].pc # "execd"
      /\ dcm'[d].pc = "finish" => dcm'[d].pc \notin FirstLoop
      /\ dcm'[d].pc = "check" => dcm'[d].pc \in FirstLoop
  BY <1>1 DEF FirstLoop, SecondLoop
<1>3. StillWorking(d)
  BY <1>1 DEF StillWorking, Working, FirstLoop, SecondLoop
<1>4. /\ \A c \in Dcms : c = d
      /\ OutInv'
      /\ hist.crashes = 0 => ~srv.inprogress
  BY <1>3, AtWork
<1>5. \A h \in Hosts : shost'[h].lts = shost[h].lts
  BY <1>1
<1>6. TimeInv'
  BY <1>2, <1>3, <1>5, TimesKept
<1>7. dcm[d].todo \subseteq Hosts
  BY RunIs DEF IInv, Types
<1>8. SentInv'
  <2>1. CASE dcm'[d].pc = "finish"
    BY <1>1, <1>2, <1>4, <2>1 DEF SentInv, SameWorld
  <2>2. CASE dcm'[d].pc = "check"
    <3>1. /\ \A h \in dcm[d].todo : ~shost[h].hosterror
          /\ \A h \in Hosts \ dcm[d].todo :
                Taken(h) \/ (kind.replicated /\ Due(h)) => Sent(h)
          /\ dcm[d].res = "ok" => Sent(Cur(d))
      BY <1>1, <1>2 DEF IInv, RunInv, SentInv
    <3>2. \A h \in Hosts : h # Cur(d) => (Taken(h)' <=> Taken(h)) /\ (Due(h)' <=> Due(h))
      BY <1>1 DEF Taken, Due
    <3>3. \A h \in Hosts : Sent(h)' <=> Sent(h)
      BY <1>1 DEF Sent, SameFiles
    <3> QED
      BY <1>1, <1>2, <1>4, <1>7, <2>2, <3>1, <3>2, <3>3 DEF SentInv, SameWorld, Taken
  <2> QED
    BY <1>1, <2>1, <2>2
<1>9. MarkInv'
  <2>1. ASSUME hist.crashes = 0, NEW h \in Hosts, shost'[h].inprogress
        PROVE  \/ dcm'[d].pc \in FirstLoop /\ ~shost'[h].hosterror /\ h \notin dcm'[d].todo
               \/ dcm'[d].pc = "finish"
    <3>1. CASE h = Cur(d)
      <4>1. dcm[d].res = "ok" /\ shost' = shost
        BY <1>1, <2>1, <3>1
      <4>2. ~shost[h].hosterror
        BY <1>1, <1>2, <3>1 DEF IInv, RunInv, SentInv
      <4> QED
        BY <1>1, <1>2, <3>1, <4>1, <4>2
    <3>2. CASE h # Cur(d)
      <4>1. shost[h].inprogress /\ shost'[h] = shost[h]
        BY <1>1, <2>1, <3>2
      <4>2. ~shost[h].hosterror /\ h \notin dcm[d].todo
        BY <1>1, <1>2, <1>4, <2>1, <3>2, <4>1 DEF IInv, RunInv, MarkInv
      <4> QED
        BY <1>1, <1>2, <4>1, <4>2
    <3> QED
      BY <3>1, <3>2
  <2> QED
    BY <1>1, <1>4, <2>1 DEF MarkInv, SameHist
<1>10. RecordedIsInstalled'
  BY <1>1, <1>5 DEF IInv, RunInv, RecordedIsInstalled, SameHist
<1> QED
  BY <1>4, <1>6, <1>8, <1>9, <1>10 DEF RunInv

\* The second loop begins.
LEMMA ExecStartKeeps ==
  ASSUME IInv, OneRun, NEW d \in Dcms, ExecStart(d)
  PROVE  RunInv'
<1>1. /\ SameTables /\ SameFiles /\ SameWorld /\ UNCHANGED host /\ SameHist
      /\ dcm[d].pc = "check" /\ dcm[d].todo = {}
      /\ dcm'[d].pc = "exec" /\ dcm'[d].t = dcm[d].t
      /\ dcm'[d].todo = {h \in Hosts : Taken(h)}
  BY ExecStartIs DEF IInv, At, Becomes
<1>2. /\ dcm[d].pc \in FirstLoop /\ dcm[d].pc \notin SecondLoop
      /\ dcm'[d].pc \in SecondLoop /\ dcm'[d].pc \notin FirstLoop
  BY <1>1 DEF FirstLoop, SecondLoop
<1>3. StillWorking(d)
  BY <1>1, <1>2 DEF StillWorking, Working, SameTables
<1>4. /\ \A c \in Dcms : c = d
      /\ OutInv'
      /\ hist.crashes = 0 => ~srv.inprogress
  BY <1>3, AtWork
<1>5. TimeInv'
  <2>1. \A h \in Hosts : shost[h].lts < srv.dfgen
    BY <1>2 DEF IInv, RunInv, TimeInv
  <2> QED
    BY <1>1, <1>2, <1>3, <2>1, TimesKept DEF SameTables
<1>6. SentInv'
  <2>1. \A h \in Hosts : Taken(h) \/ (kind.replicated /\ Due(h)) => Sent(h)
    BY <1>1, <1>2 DEF IInv, RunInv, SentInv
  <2>2. \A h \in Hosts : (Due(h)' <=> Due(h)) /\ (Sent(h)' <=> Sent(h))
    BY <1>1 DEF Due, Sent, SameTables, SameFiles
  <2> QED
    BY <1>1, <1>2, <1>4, <2>1, <2>2 DEF SentInv, SameWorld
<1>7. MarkInv'
  <2>1. ASSUME hist.crashes = 0, NEW h \in Hosts, shost[h].inprogress
        PROVE  Taken(h)
    BY <1>1, <1>2, <1>4, <2>1 DEF IInv, RunInv, MarkInv, Taken
  <2> QED
    BY <1>1, <1>2, <1>4, <2>1 DEF MarkInv, SameHist, SameTables
<1>8. RecordedIsInstalled'
  BY <1>1 DEF IInv, RunInv, RecordedIsInstalled, SameHist, SameTables
<1> QED
  BY <1>4, <1>5, <1>6, <1>7, <1>8 DEF RunInv

\* The second loop goes on, or ends for a failure.
LEMMA ExecRecordKeeps ==
  ASSUME IInv, OneRun, NEW d \in Dcms, ExecRecord(d)
  PROVE  RunInv'
<1>1. /\ UNCHANGED <<srv, host>> /\ SameFiles /\ SameWorld /\ SameHist
      /\ dcm[d].pc = "execd" /\ Cur(d) \in dcm[d].todo /\ Cur(d) \in Hosts
      /\ \A k \in Hosts : k # Cur(d) => shost'[k] = shost[k]
      /\ shost'[Cur(d)].lts = IF dcm[d].res = "ok" THEN dcm[d].t ELSE shost[Cur(d)].lts
      /\ ~shost'[Cur(d)].inprogress
      /\ dcm'[d].t = dcm[d].t
      /\ \/ /\ kind.replicated /\ dcm[d].res # "ok" /\ dcm'[d].pc = "finish"
         \/ /\ ~(kind.replicated /\ dcm[d].res # "ok")
            /\ dcm'[d].pc = "exec" /\ dcm'[d].todo = dcm[d].todo \ {Cur(d)}
  BY ExecRecordIs DEF IInv, At, Becomes
<1>2. /\ dcm[d].pc \in SecondLoop /\ dcm[d].pc \notin FirstLoop
      /\ dcm'[d].pc \notin FirstLoop /\ dcm'[d].pc # "sent" /\ dcm'[d].pc # "execd"
      /\ dcm'[d].pc = "finish" => dcm'[d].pc \notin SecondLoop
      /\ dcm'[d].pc = "exec" => dcm'[d].pc \in SecondLoop
  BY <1>1 DEF FirstLoop, SecondLoop
<1>3. StillWorking(d)
  BY <1>1 DEF StillWorking, Working, FirstLoop, SecondLoop
<1>4. /\ \A c \in Dcms : c = d
      /\ OutInv'
      /\ hist.crashes = 0 => ~srv.inprogress
      /\ 0 < srv.dfgen /\ srv.dfgen <= dcm[d].t
  BY <1>3, AtWork
<1>5. dcm[d].todo \subseteq Hosts
  BY RunIs DEF IInv, Types
<1>6. /\ srv.dfgen \in Nat /\ dcm[d].t \in Nat
      /\ \A h \in Hosts : shost[h].lts \in Nat
  BY Numbers DEF IInv
<1>7. TimeInv'
  <2>1. \A h \in Hosts : shost'[h].lts \in {shost[h].lts, dcm[d].t}
    BY <1>1
  <2>2. \A h \in dcm[d].todo : shost[h].lts < srv.dfgen
    BY <1>2 DEF IInv, RunInv, TimeInv
  <2>3. dcm'[d].pc \in SecondLoop => \A h \in dcm'[d].todo : shost'[h].lts < srv.dfgen
    BY <1>1, <1>2, <1>5, <2>2
  <2> QED
    BY <1>2, <1>3, <2>1, <2>3, TimesKept
<1>8. SentInv'
  <2>1. CASE dcm'[d].pc = "finish"
    BY <1>1, <1>2, <1>4, <2>1 DEF SentInv, SameWorld
  <2>2. CASE dcm'[d].pc = "exec"
    <3>1. \A h \in Hosts : h \in dcm[d].todo \/ (kind.replicated /\ Due(h)) =>
                              Sent(h) \/ h = Cur(d)
      BY <1>1, <1>2 DEF IInv, RunInv, SentInv
    <3>2. \A h \in Hosts : (h # Cur(d) => (Due(h)' <=> Due(h))) /\ (Sent(h)' <=> Sent(h))
      BY <1>1 DEF Due, Sent, SameFiles
    <3>3. ASSUME NEW h \in Hosts, h = Cur(d), kind.replicated PROVE ~Due(h)'
      <4>1. shost'[h].lts = dcm[d].t /\ srv' = srv
        BY <1>1, <2>2, <3>3
      <4>2. ~(shost'[h].lts < srv'.dfgen)
        BY <1>4, <1>6, <4>1
      <4> QED
        BY <4>2 DEF Due
    <3>4. \A h \in Hosts : h \in dcm'[d].todo \/ (kind.replicated /\ Due(h)') => Sent(h)'
      BY <1>1, <2>2, <3>1, <3>2, <3>3
    <3> QED
      BY <1>1, <1>2, <1>4, <2>2, <3>4 DEF SentInv, SameWorld
  <2> QED
    BY <1>1, <2>1, <2>2
<1>9. MarkInv'
  <2>1. ASSUME hist.crashes = 0, NEW h \in Hosts, shost'[h].inprogress
        PROVE  \/ dcm'[d].pc \in SecondLoop /\ h \in dcm'[d].todo
               \/ dcm'[d].pc = "finish"
    <3>1. h # Cur(d) /\ shost[h].inprogress
      BY <1>1, <2>1
    <3>2. h \in dcm[d].todo
      BY <1>1, <1>2, <1>4, <2>1, <3>1 DEF IInv, RunInv, MarkInv
    <3> QED
      BY <1>1, <1>2, <3>1, <3>2
  <2> QED
    BY <1>1, <1>4, <2>1 DEF MarkInv, SameHist
<1>10. RecordedIsInstalled'
  <2>1. ASSUME NEW h \in Hosts, 0 < srv.dfgen, srv.dfgen <= shost'[h].lts
        PROVE  host[h].inst = hist.gen
    <3>1. CASE h = Cur(d) /\ dcm[d].res = "ok"
      BY <1>1, <3>1 DEF IInv, RunInv, SentInv
    <3>2. CASE ~(h = Cur(d) /\ dcm[d].res = "ok")
      <4>1. shost'[h].lts = shost[h].lts
        BY <1>1, <3>2
      <4> QED
        BY <2>1, <4>1 DEF IInv, RunInv, RecordedIsInstalled
    <3> QED
      BY <3>1, <3>2
  <2> QED
    BY <1>1, <2>1 DEF RecordedIsInstalled, SameHist
<1> QED
  BY <1>4, <1>7, <1>8, <1>9, <1>10 DEF RunInv

\* The run is over, and leaves no host marked.
LEMMA FinishKeeps ==
  ASSUME IInv, OneRun, NEW d \in Dcms, Finish(d)
  PROVE  RunInv'
<1>1. /\ SameWorld /\ UNCHANGED <<host, hist>>
      /\ dcm[d].pc = "finish" \/ (dcm[d].pc = "exec" /\ dcm[d].todo = {})
      /\ srv'.dfgen = srv.dfgen /\ srv'.inprogress = srv.inprogress
      /\ \A h \in Hosts : shost'[h].lts = shost[h].lts
      /\ IF kind.replicated THEN \A h \in Hosts : ~shost'[h].inprogress ELSE shost' = shost
      /\ Becomes(d, "idle", 0, {}, 0, "ok")
  BY FinishIs DEF IInv, At
<1>2. \A c \in Dcms : c = d
  BY DEF OneRun
<1>3. ~(dcm[d].pc \in FirstLoop) /\ ~(dcm[d].pc \in {"gen", "genwait"})
  BY <1>1 DEF FirstLoop
<1>4. ASSUME hist.crashes = 0
      PROVE  ~srv'.inprogress /\ \A h \in Hosts : ~shost'[h].inprogress
  <2>1. ~srv.inprogress
    BY <1>2, <1>3, <1>4 DEF IInv, RunInv, MarkInv
  <2>2. ~kind.replicated => \A h \in Hosts : ~shost[h].inprogress
    BY <1>1, <1>2, <1>3, <1>4 DEF IInv, RunInv, MarkInv, SentInv
  <2> QED
    BY <1>1, <2>1, <2>2
<1> QED
  BY <1>1, <1>4, EndKeeps DEF SameWorld

\* A run that dies may leave marks.
LEMMA CrashKeeps ==
  ASSUME IInv, OneRun, NEW d \in Dcms, Dies(d) \/ SqlError(d)
  PROVE  RunInv'
<1>1. /\ SameWorld /\ UNCHANGED host
      /\ hist'.crashes > 0 /\ hist'.last = hist.last /\ hist'.gen = hist.gen
      /\ srv'.dfgen = srv.dfgen /\ \A h \in Hosts : shost'[h].lts = shost[h].lts
      /\ Becomes(d, "idle", 0, {}, 0, "ok")
  BY DiesIs, SqlErrorIs DEF IInv, SameTables
<1>2. hist'.crashes # 0
  BY <1>1
<1> QED
  BY <1>1, <1>2, EndKeeps DEF SameWorld

\* An operator resets a row.
LEMMA OperatorKeeps ==
  ASSUME IInv, Operator
  PROVE  RunInv'
<1>1. /\ SameFiles /\ SameWorld /\ UNCHANGED <<host, dcm, hist>>
      /\ \A d \in Dcms : dcm[d].pc = "idle"
      /\ srv'.dfgen \in {srv.dfgen, 0}
      /\ srv'.inprogress => srv.inprogress
      /\ \A h \in Hosts : /\ shost'[h].lts \in {shost[h].lts, 0}
                          /\ shost'[h].inprogress => shost[h].inprogress
  BY OperatorIs DEF IInv, AllIdle, At
<1>2. /\ hist.last \in Nat /\ srv.dfgen \in Nat /\ \A h \in Hosts : shost[h].lts \in Nat
  BY Numbers DEF IInv
<1>3. TimeInv'
  BY <1>1, <1>2, Apart DEF IInv, RunInv, TimeInv, SameWorld
<1>4. OutInv' /\ SentInv'
  BY <1>1, Apart DEF OutInv, SentInv
<1>5. MarkInv'
  <2>1. hist.crashes = 0 => ~srv.inprogress /\ \A h \in Hosts : ~shost[h].inprogress
    BY <1>1, Apart DEF IInv, RunInv, MarkInv
  <2> QED
    BY <1>1, <2>1 DEF MarkInv
<1>6. RecordedIsInstalled'
  BY <1>1, <1>2 DEF IInv, RunInv, RecordedIsInstalled
<1> QED
  BY <1>3, <1>4, <1>5, <1>6 DEF RunInv

\* The data changes, time passes, or nothing does.
LEMMA OtherwiseKeeps ==
  ASSUME IInv, Change \/ Tick \/ UNCHANGED vars
  PROVE  RunInv'
<1>1. /\ SameTables /\ SameFiles /\ UNCHANGED <<host, dcm, hist, kind>>
      /\ now' \in {now, now + 1}
  <2>1. CASE Change \/ Tick
    BY <2>1, OtherwiseIs DEF IInv
  <2>2. CASE UNCHANGED vars
    <3>1. now \in Nat
      BY Numbers DEF IInv
    <3> QED
      BY <2>2, <3>1 DEF vars, tables, files, world, SameTables, SameFiles
  <2> QED
    BY <2>1, <2>2
<1>2. /\ hist.last \in Nat /\ now \in Nat
  BY Numbers DEF IInv
<1>3. hist'.last <= now'
  BY <1>1, <1>2 DEF IInv, RunInv, TimeInv
<1>4. TimeInv'
  BY <1>1, <1>3 DEF IInv, RunInv, TimeInv, SameTables
<1>5. OutInv'
  BY <1>1 DEF IInv, RunInv, OutInv, SameFiles
<1>6. SentInv'
  <2>1. \A h \in Hosts : (Taken(h)' <=> Taken(h)) /\ (Due(h)' <=> Due(h)) /\ (Sent(h)' <=> Sent(h))
    BY <1>1 DEF Taken, Due, Sent, SameTables, SameFiles
  <2>2. \A d \in Dcms : Cur(d)' = Cur(d) /\ (Sent(Cur(d))' <=> Sent(Cur(d)))
    BY <1>1 DEF Cur, Sent, SameFiles
  <2> QED
    BY <1>1, <2>1, <2>2 DEF IInv, RunInv, SentInv, SameTables
<1>7. MarkInv'
  <2>1. \A d \in Dcms : Cur(d)' = Cur(d)
    BY <1>1 DEF Cur
  <2> QED
    BY <1>1, <2>1 DEF IInv, RunInv, MarkInv, SameTables
<1>8. RecordedIsInstalled'
  BY <1>1 DEF IInv, RunInv, RecordedIsInstalled, SameTables
<1> QED
  BY <1>4, <1>5, <1>6, <1>7, <1>8 DEF RunInv

-----------------------------------------------------------------------------
(* All steps                                                               *)

\* Nothing has been generated, sent or marked yet.
LEMMA Initially == Init => IInv
<1> SUFFICES ASSUME Init PROVE IInv
  OBVIOUS
<1>1. /\ now = Interval + 1 /\ ver = 1 /\ made = 0 /\ out = Partial
      /\ srv = [dfgen |-> 0, dfcheck |-> 0, inprogress |-> FALSE, harderror |-> FALSE]
      /\ shost = [h \in Hosts |-> [inprogress |-> FALSE, success |-> FALSE,
                                   hosterror |-> FALSE, lts |-> 0]]
      /\ host = [h \in Hosts |-> NewHost]
      /\ dcm = [d \in Dcms |-> Idle]
      /\ kind \in [replicated : BOOLEAN, noticesNoChange : BOOLEAN]
      /\ hist = [runs |-> 0, faults |-> 0, crashes |-> 0, last |-> 0, gen |-> 0,
                 raced |-> FALSE]
  BY DEF Init
<1>2. SrvType /\ srv.dfgen = 0 /\ srv.inprogress = FALSE
  BY <1>1 DEF SrvType
<1>3. /\ ShostType
      /\ \A h \in Hosts : shost[h].lts = 0 /\ shost[h].inprogress = FALSE
  BY <1>1 DEF ShostType, Row
<1>4. HostsType
  BY <1>1 DEF HostsType, HostType, NewHost, Data
<1>5. HistType /\ hist.last = 0
  BY <1>1 DEF HistType
<1>6. WorldType /\ now \in Nat /\ now > 0
  BY <1>1, IntervalAssumption DEF WorldType
<1>7. /\ RunsType
      /\ \A d \in Dcms : dcm[d].pc = "idle" /\ dcm[d].t = 0
  <2>1. Idle \in RunType /\ Idle.pc = "idle" /\ Idle.t = 0 /\ ~(Idle.pc \in HasHost)
    BY DEF Idle, RunType, Pcs, HasHost
  <2> QED
    BY <1>1, <2>1 DEF RunsType
<1>8. TimeInv
  BY <1>2, <1>3, <1>5, <1>6, <1>7, Apart DEF TimeInv
<1>9. OutInv /\ SentInv
  BY <1>7, Apart DEF OutInv, SentInv
<1>10. MarkInv
  BY <1>2, <1>3 DEF MarkInv
<1>11. RecordedIsInstalled
  BY <1>2 DEF RecordedIsInstalled
<1> QED
  BY <1>2, <1>3, <1>4, <1>5, <1>6, <1>7, <1>8, <1>9, <1>10, <1>11 DEF IInv, RunInv, Types

\* While one run at a time is on the way, no step disturbs the invariant.
LEMMA StepKeeps ==
  ASSUME OneRun, IInv, [Next]_vars
  PROVE  IInv'
<1>1. Types'
  BY TypesKeep DEF IInv
<1>2. ASSUME NEW d \in Dcms, NEW byHand \in BOOLEAN, NEW force \in BOOLEAN,
             GenRead(d, byHand, force)
      PROVE  RunInv'
  BY <1>2, GenReadKeeps
<1>3. ASSUME NEW d \in Dcms, Generating(d) PROVE RunInv'
  BY <1>3, GenGoesOn, GenEndsKeeps, GenDoneKeeps DEF Generating
<1>4. ASSUME NEW d \in Dcms, Distributing(d) PROVE RunInv'
  BY <1>4, HostsStartKeeps, HostCheckKeeps, HostMarkKeeps, ConnectKeeps, SendStartKeeps,
     SendDataKeeps, SendRecordKeeps, ExecStartKeeps, ExecKeeps, ExecRecordKeeps, FinishKeeps
     DEF Distributing
<1>5. ASSUME NEW d \in Dcms, Dies(d) \/ SqlError(d) PROVE RunInv'
  BY <1>5, CrashKeeps
<1>6. RunInv'
  BY <1>2, <1>3, <1>4, <1>5, OperatorKeeps, OtherwiseKeeps DEF Next
<1> QED
  BY <1>1, <1>6 DEF IInv

-----------------------------------------------------------------------------
(* The theorems                                                            *)

\* Whatever runs are on the way, the tables, the files, the hosts and the runs are of
\* their types, and a run has a host wherever it uses one.
THEOREM TypeCorrect == Spec => []TypeOK
<1>1. Init => Types
  BY Initially DEF IInv
<1>2. Types => TypeOK
  <2> SUFFICES ASSUME Types PROVE TypeOK
    OBVIOUS
  <2>1. /\ now \in Nat /\ ver \in Nat /\ made \in Nat /\ out \in Nat \cup {Partial}
        /\ SrvType /\ ShostType
    BY DEF Types, WorldType
  <2>2. \A h \in Hosts : /\ host[h].path.by \in Dcms \cup {Nobody}
                         /\ host[h].path.data \in Nat \cup {NoFile, Partial}
                         /\ host[h].inst \in Nat \cup {Partial}
    BY HostIs DEF Types, HostsType, Data
  <2>3. \A d \in Dcms : /\ dcm[d].pc \in Pcs /\ dcm[d].t \in Nat
                        /\ dcm[d].res \in {"ok", "soft", "hard"}
                        /\ dcm[d].pc \in HasHost => dcm[d].todo # {}
    BY RunIs DEF Types
  <2> QED
    BY <2>1, <2>2, <2>3 DEF TypeOK, SrvType, ShostType, Row, HasHost
<1> QED
  BY <1>1, <1>2, TypesKeep, PTL DEF Spec

\* The inductive invariant, while one run at a time is on the way: the times in the tables
\* are in order, a run distributes what was generated last and knows who has it, and
\* marks no host that it will not come back to.
THEOREM Invariance == ASSUME OneRun PROVE Spec => []IInv
<1>1. IInv /\ [Next]_vars => IInv'
  BY StepKeeps
<1> QED
  BY <1>1, Initially, PTL DEF Spec

\* Then a host that the tables say is up to date has what was generated last, whatever
\* failed or died before.
THEOREM RecordedAlwaysInstalled == ASSUME OneRun PROVE Spec => []RecordedIsInstalled
<1>1. IInv => RecordedIsInstalled
  BY DEF IInv, RunInv
<1> QED
  BY <1>1, Invariance, PTL

\* Then only a run that died leaves marks in the tables.
THEOREM MarksAlwaysCleared == ASSUME OneRun PROVE Spec => []MarksCleared
<1>1. IInv => MarksCleared
  <2> SUFFICES ASSUME IInv, AllIdle, hist.crashes = 0
               PROVE  ~srv.inprogress /\ \A h \in Hosts : ~shost[h].inprogress
    BY DEF MarksCleared
  <2>1. \A d \in Dcms : dcm[d].pc = "idle"
    BY DEF AllIdle, At
  <2> QED
    BY <2>1, Apart DEF IInv, RunInv, MarkInv
<1> QED
  BY <1>1, Invariance, PTL

\* Then a replicated service is installed on no host before every host that is due has it.
THEOREM SentAlwaysFirst == ASSUME OneRun PROVE Spec => SentBeforeInstalled
<1> DEFINE P == \A h \in Hosts : kind.replicated /\ host'[h].inst # host[h].inst =>
                  \A k \in Hosts : Due(k) => host[k].path.data = out
<1>1. ASSUME IInv, [Next]_vars PROVE P \/ UNCHANGED vars
  <2>1. Types
    BY <1>1 DEF IInv
  <2> DEFINE Still == \A h \in Hosts : host'[h].inst = host[h].inst
  <2>2. ASSUME NEW d \in Dcms, Exec(d) PROVE P
    <3>1. dcm[d].pc = "exec"
      BY <2>2 DEF Exec, At
    <3>2. \A k \in Hosts : kind.replicated /\ Due(k) => Sent(k)
      BY <1>1, <3>1 DEF IInv, RunInv, SentInv, SecondLoop
    <3> QED
      BY <3>2 DEF Sent
  <2>3. ASSUME NEW d \in Dcms, SendStart(d) \/ SendData(d) PROVE Still
    <3>1. /\ host'[Cur(d)].inst = host[Cur(d)].inst
          /\ \A k \in Hosts : k # Cur(d) => host'[k] = host[k]
      BY <2>1, <2>3, SendStartIs, SendDataIs
    <3> QED
      BY <3>1
  <2>4. ASSUME NEW d \in Dcms, Distributing(d) PROVE P \/ Still
    BY <2>1, <2>2, <2>3, <2>4, HostsStartIs, HostCheckIs, HostMarkIs, ConnectIs, SendRecordIs,
       ExecStartIs, ExecRecordIs, FinishIs DEF Distributing
  <2>5. ASSUME NEW d \in Dcms, Generating(d) PROVE Still
    BY <2>1, <2>5, GenMarkIs, GenWriteIs, GenNoChangeIs, GenDoneIs, GenFailsIs DEF Generating
  <2>6. ASSUME NEW d \in Dcms, NEW byHand \in BOOLEAN, NEW force \in BOOLEAN,
               GenRead(d, byHand, force)
        PROVE  Still
    BY <2>1, <2>6, GenReadIs
  <2>7. ASSUME NEW d \in Dcms, Dies(d) \/ SqlError(d) PROVE Still
    BY <2>1, <2>7, DiesIs, SqlErrorIs
  <2>8. ASSUME Operator \/ Change \/ Tick PROVE Still
    BY <2>1, <2>8, OperatorIs, OtherwiseIs
  <2>9. P \/ Still \/ UNCHANGED vars
    BY <1>1, <2>4, <2>5, <2>6, <2>7, <2>8 DEF Next
  <2> QED
    BY <2>9
<1>2. IInv /\ [Next]_vars => [P]_vars
  BY <1>1
<1> QED
  BY <1>2, Invariance, PTL DEF SentBeforeInstalled, Spec

------------------------------------------------------------------------------
(* Induction and sums *)

\* Induction over the natural numbers, for a set of them.
LEMMA Counting ==
  ASSUME NEW T, 0 \in T, \A n \in Nat : n \in T => n + 1 \in T
  PROVE  Nat \subseteq T
<1> SUFFICES ASSUME NEW z \in Nat, z \notin T PROVE FALSE
  OBVIOUS
<1> DEFINE U == {n \in Nat : n \notin T}
<1> DEFINE R == OpToRel(<, Nat)
<1>1. \A x, y \in Nat : x < y => <<x, y>> \in R
  BY DEF OpToRel
<1>2. PICK n \in U : \A y \in U : <<y, n>> \notin R
  <2>1. IsWellFoundedOn(R, Nat)
    BY NatLessThanWellFounded
  <2>2. U \subseteq Nat /\ U # {}
    OBVIOUS
  <2> QED BY <2>1, <2>2, WFMin
<1>3. n \in Nat /\ n # 0 /\ n - 1 \in Nat /\ n - 1 < n /\ (n - 1) + 1 = n
  OBVIOUS
<1>4. n - 1 \in T
  BY <1>1, <1>2, <1>3
<1> QED BY <1>3, <1>4

\* What a sum adds up, step by step.
IsSum(it, f, S) ==
    it = [s \in SUBSET S |-> IF s = {} THEN 0
                             ELSE LET x == CHOOSE x \in s : TRUE IN f[x] + it[s \ {x}]]

\* The sum of the library is the last of what adds up.
LEMMA SumIs ==
  ASSUME NEW f, NEW S
  PROVE  SumFunctionOnSet(f, S) = (CHOOSE it : IsSum(it, f, S))[S]
BY DEF SumFunctionOnSet, FoldFunctionOnSet, MapThenFoldSet, IsSum

\* Something adds up the values of any finite set.
LEMMA SumExists ==
  ASSUME NEW f, NEW S, IsFiniteSet(S)
  PROVE  \E it : IsSum(it, f, S)
<1> DEFINE Pick(s) == CHOOSE x \in s : TRUE
           Step(it, s) == IF s = {} THEN 0 ELSE f[Pick(s)] + it[s \ {Pick(s)}]
           Upto(it, n) == \A s \in SUBSET S : Cardinality(s) < n => it[s] = Step(it, s)
           T == {n \in Nat : \E it : Upto(it, n)}
<1>1. \A s \in SUBSET S : /\ IsFiniteSet(s) /\ Cardinality(s) \in Nat
                          /\ s # {} => Pick(s) \in s /\ s \ {Pick(s)} \in SUBSET S
                                       /\ Cardinality(s \ {Pick(s)}) = Cardinality(s) - 1
  <2> SUFFICES ASSUME NEW s \in SUBSET S
               PROVE  /\ IsFiniteSet(s) /\ Cardinality(s) \in Nat
                      /\ s # {} => Pick(s) \in s /\ s \ {Pick(s)} \in SUBSET S
                                   /\ Cardinality(s \ {Pick(s)}) = Cardinality(s) - 1
    OBVIOUS
  <2>1. IsFiniteSet(s) /\ Cardinality(s) \in Nat
    BY FS_Subset, FS_CardinalityType
  <2>2. s # {} => Pick(s) \in s
    OBVIOUS
  <2> QED BY <2>1, <2>2, FS_RemoveElement
<1>2. 0 \in T
  BY <1>1
<1>3. ASSUME NEW n \in Nat, n \in T PROVE n + 1 \in T
  <2>1. PICK it : Upto(it, n)
    BY <1>3
  <2> DEFINE more == [s \in SUBSET S |-> IF Cardinality(s) < n THEN it[s] ELSE Step(it, s)]
  <2>2. ASSUME NEW s \in SUBSET S, Cardinality(s) < n + 1 PROVE more[s] = Step(more, s)
    <3>1. more[s] = Step(it, s)
      BY <2>1
    <3>2. s # {} => more[s \ {Pick(s)}] = it[s \ {Pick(s)}]
      <4> SUFFICES ASSUME s # {} PROVE more[s \ {Pick(s)}] = it[s \ {Pick(s)}]
        OBVIOUS
      <4>1. s \ {Pick(s)} \in SUBSET S /\ Cardinality(s \ {Pick(s)}) < n
        BY <1>1, <2>2
      <4> QED BY <4>1
    <3> QED BY <3>1, <3>2
  <2>3. Upto(more, n + 1)
    BY <2>2
  <2> HIDE DEF more, Upto
  <2> QED BY <2>3
<1>4. Cardinality(S) + 1 \in T
  <2> HIDE DEF T
  <2> QED BY <1>1, <1>2, <1>3, Counting
<1>5. PICK it : Upto(it, Cardinality(S) + 1)
  BY <1>4
<1> DEFINE all == [s \in SUBSET S |-> it[s]]
<1>6. ASSUME NEW s \in SUBSET S PROVE it[s] = Step(all, s)
  <2>1. Cardinality(s) < Cardinality(S) + 1
    BY <1>1, FS_Subset, FS_CardinalityType
  <2>2. it[s] = Step(it, s)
    BY <1>5, <2>1
  <2> QED BY <1>1, <2>2
<1>7. IsSum(all, f, S)
  BY <1>6, Zenon DEF IsSum
<1> QED BY <1>7

\* Two of them add up the same.
LEMMA SumUnique ==
  ASSUME NEW f, NEW S, NEW S2, NEW a, NEW b,
         IsFiniteSet(S), S2 \subseteq S, IsSum(a, f, S), IsSum(b, f, S2)
  PROVE  \A s \in SUBSET S2 : a[s] = b[s]
<1> DEFINE Pick(s) == CHOOSE x \in s : TRUE
           T == {n \in Nat : \A s \in SUBSET S2 : Cardinality(s) < n => a[s] = b[s]}
<1>1. \A s \in SUBSET S2 : /\ IsFiniteSet(s) /\ Cardinality(s) \in Nat
  BY FS_Subset, FS_CardinalityType
<1>2. \A s \in SUBSET S2 : s = {} => a[s] = 0 /\ b[s] = 0
  BY DEF IsSum
<1>3. \A s \in SUBSET S2 : s # {} => /\ a[s] = f[Pick(s)] + a[s \ {Pick(s)}]
                                     /\ b[s] = f[Pick(s)] + b[s \ {Pick(s)}]
  BY DEF IsSum
<1>4. 0 \in T
  BY <1>1
<1>5. ASSUME NEW n \in Nat, n \in T PROVE n + 1 \in T
  <2> SUFFICES ASSUME NEW s \in SUBSET S2, Cardinality(s) < n + 1, s # {}
               PROVE  a[s] = b[s]
    BY <1>2
  <2>1. PICK x \in s : x = Pick(s)
    OBVIOUS
  <2>2. s \ {x} \in SUBSET S2 /\ Cardinality(s \ {x}) = Cardinality(s) - 1
    BY <1>1, FS_RemoveElement
  <2>3. a[s \ {x}] = b[s \ {x}]
    BY <1>1, <1>5, <2>2
  <2> QED BY <1>3, <2>1, <2>3
<1>6. ASSUME NEW s \in SUBSET S2 PROVE a[s] = b[s]
  <2>1. Cardinality(s) + 1 \in T
    <3> HIDE DEF T
    <3> QED BY <1>1, <1>4, <1>5, Counting
  <2> QED BY <1>1, <2>1
<1> QED BY <1>6

\* A sum is that of no elements, or of one of them and the others.
LEMMA SumStep ==
  ASSUME NEW f, NEW S, IsFiniteSet(S)
  PROVE  /\ SumFunctionOnSet(f, {}) = 0
         /\ S # {} => \E x \in S : /\ x = CHOOSE y \in S : TRUE
                                   /\ SumFunctionOnSet(f, S) = f[x] + SumFunctionOnSet(f, S \ {x})
<1> DEFINE It(U) == CHOOSE it : IsSum(it, f, U)
<1>1. \A U : IsFiniteSet(U) => IsSum(It(U), f, U) /\ SumFunctionOnSet(f, U) = It(U)[U]
  BY SumExists, SumIs
<1> HIDE DEF It
<1>2. SumFunctionOnSet(f, {}) = 0
  <2>1. IsFiniteSet({})
    BY FS_EmptySet
  <2>2. IsSum(It({}), f, {}) /\ SumFunctionOnSet(f, {}) = It({})[{}]
    BY <1>1, <2>1
  <2>3. It({})[{}] = 0
    BY <2>2 DEF IsSum
  <2> QED BY <2>2, <2>3
<1>3. ASSUME S # {} PROVE \E x \in S : /\ x = CHOOSE y \in S : TRUE
                                /\ SumFunctionOnSet(f, S) = f[x] + SumFunctionOnSet(f, S \ {x})
  <2> DEFINE x == CHOOSE y \in S : TRUE
  <2>1. x \in S
    BY <1>3
  <2>2. IsSum(It(S), f, S)
    BY <1>1
  <2>3. It(S)[S] = f[x] + It(S)[S \ {x}]
    BY <2>2, <1>3 DEF IsSum
  <2>4. IsFiniteSet(S \ {x}) /\ S \ {x} \in SUBSET S
    BY FS_Subset
  <2>5. It(S)[S \ {x}] = It(S \ {x})[S \ {x}]
    <3> DEFINE R == S \ {x}
               a == It(S)
               b == It(R)
    <3>1. IsSum(b, f, R)
      BY <1>1, <2>4
    <3>2. IsSum(a, f, S) /\ R \in SUBSET S
      BY <2>2
    <3> HIDE DEF x, R, a, b
    <3>3. ASSUME NEW c, NEW d, NEW Q \in SUBSET S, IsSum(c, f, S), IsSum(d, f, Q)
          PROVE  \A s \in SUBSET Q : c[s] = d[s]
      BY <3>3, SumUnique, SMTT(30)
    <3>4. \A s \in SUBSET R : a[s] = b[s]
      BY <3>1, <3>2, <3>3
    <3> QED BY <3>4 DEF R, a, b
  <2> QED BY <1>1, <2>1, <2>3, <2>4, <2>5
<1> QED BY <1>2, <1>3

\* Induction over the subsets of a finite set.
LEMMA Building ==
  ASSUME NEW S, NEW T, IsFiniteSet(S), {} \in T,
         \A s \in SUBSET S : \A x \in S \ s : s \in T => s \cup {x} \in T
  PROVE  S \in T
<1> DEFINE U == {n \in Nat : \A s \in SUBSET S : Cardinality(s) = n => s \in T}
<1>1. \A s \in SUBSET S : IsFiniteSet(s) /\ Cardinality(s) \in Nat
                          /\ (Cardinality(s) = 0 <=> s = {})
  BY FS_Subset, FS_CardinalityType, FS_EmptySet
<1>2. 0 \in U
  BY <1>1
<1>3. ASSUME NEW n \in Nat, n \in U PROVE n + 1 \in U
  <2> SUFFICES ASSUME NEW s \in SUBSET S, Cardinality(s) = n + 1 PROVE s \in T
    OBVIOUS
  <2>1. PICK x \in s : TRUE
    BY <1>1
  <2>2. Cardinality(s \ {x}) = n
    <3>1. IsFiniteSet(s)
      BY <1>1
    <3>2. Cardinality(s \ {x}) = Cardinality(s) - 1
      BY <3>1, FS_RemoveElement
    <3> QED BY <3>2
  <2>3. s \ {x} \in T
    BY <1>3, <2>2
  <2>4. s = (s \ {x}) \cup {x} /\ x \in S \ (s \ {x}) /\ s \ {x} \in SUBSET S
    OBVIOUS
  <2> QED BY <2>3, <2>4
<1>4. Cardinality(S) \in U
  <2> HIDE DEF U
  <2> QED BY <1>1, <1>2, <1>3, Counting
<1> QED BY <1>4

\* A sum of integers is one, and it does not matter which of them is added first.
LEMMA SumSplit ==
  ASSUME NEW f, NEW S, IsFiniteSet(S), \A x \in S : f[x] \in Int
  PROVE  /\ SumFunctionOnSet(f, S) \in Int
         /\ \A x \in S : SumFunctionOnSet(f, S) = f[x] + SumFunctionOnSet(f, S \ {x})
<1> DEFINE Sum(s) == SumFunctionOnSet(f, s)
           Right(s) == Sum(s) \in Int /\ \A x \in s : Sum(s) = f[x] + Sum(s \ {x})
           T == {n \in Nat : \A s \in SUBSET S : Cardinality(s) < n => Right(s)}
<1>1. \A s \in SUBSET S : IsFiniteSet(s) /\ Cardinality(s) \in Nat
  BY FS_Subset, FS_CardinalityType
<1>2. 0 \in T
  BY <1>1
<1>3. ASSUME NEW n \in Nat, n \in T PROVE n + 1 \in T
  <2> SUFFICES ASSUME NEW s \in SUBSET S, Cardinality(s) < n + 1 PROVE Right(s)
    OBVIOUS
  <2> HIDE DEF Sum
  <2>1. s = {} => Sum(s) = 0
    BY <1>1, SumStep DEF Sum
  <2>2. s # {} => \E y \in s : Sum(s) = f[y] + Sum(s \ {y})
    BY <1>1, SumStep DEF Sum
  <2>3. \A z \in s : /\ s \ {z} \in SUBSET S /\ Cardinality(s \ {z}) = Cardinality(s) - 1
                     /\ f[z] \in Int
    BY <1>1, FS_RemoveElement
  <2>4. \A z \in s : Right(s \ {z})
    BY <1>1, <1>3, <2>3
  <2>5. CASE s = {}
    BY <2>1, <2>5
  <2>6. ASSUME NEW x \in s PROVE Sum(s) \in Int /\ Sum(s) = f[x] + Sum(s \ {x})
    <3>1. PICK y \in s : Sum(s) = f[y] + Sum(s \ {y})
      BY <2>2
    <3>2. Sum(s) \in Int
      BY <2>3, <2>4, <3>1
    <3>3. CASE x # y
      <4>1. (s \ {x}) \ {y} = (s \ {y}) \ {x} /\ y \in s \ {x} /\ x \in s \ {y}
        BY <3>3
      <4>2. Sum(s \ {y}) = f[x] + Sum((s \ {y}) \ {x})
        BY <2>4, <4>1
      <4>3. Sum(s \ {x}) = f[y] + Sum((s \ {y}) \ {x})
        BY <2>4, <4>1
      <4>4. (s \ {y}) \ {x} \in SUBSET S /\ Cardinality((s \ {y}) \ {x}) < n
        <5>1. IsFiniteSet(s \ {y}) /\ x \in s \ {y}
          BY <1>1, <2>3, <4>1
        <5>2. Cardinality((s \ {y}) \ {x}) = Cardinality(s \ {y}) - 1
          BY <5>1, FS_RemoveElement
        <5> QED BY <1>1, <2>3, <5>2
      <4>5. Sum((s \ {y}) \ {x}) \in Int
        BY <1>3, <4>4
      <4>6. f[x] \in Int /\ f[y] \in Int
        BY <2>3
      <4> HIDE DEF Right
      <4> QED BY <3>1, <3>2, <4>2, <4>3, <4>5, <4>6
    <3> QED BY <3>1, <3>2, <3>3
  <2> QED BY <2>5, <2>6
<1>4. Cardinality(S) + 1 \in T
  <2> HIDE DEF T
  <2> QED BY <1>1, <1>2, <1>3, Counting
<1>5. Right(S)
  BY <1>1, <1>4
<1> QED BY <1>5

\* One element more.
LEMMA SumMore ==
  ASSUME NEW f, NEW S, NEW e, IsFiniteSet(S), e \notin S, f[e] \in Int, \A x \in S : f[x] \in Int
  PROVE  SumFunctionOnSet(f, S \cup {e}) = f[e] + SumFunctionOnSet(f, S)
<1>1. IsFiniteSet(S \cup {e}) /\ \A x \in S \cup {e} : f[x] \in Int
  BY FS_AddElement
<1>2. (S \cup {e}) \ {e} = S
  OBVIOUS
<1> QED BY <1>1, <1>2, SumSplit

\* A sum of one function and a multiple of another.
LEMMA SumLinear ==
  ASSUME NEW f, NEW g, NEW h, NEW k \in Int, NEW S, IsFiniteSet(S),
         \A x \in S : f[x] \in Int /\ g[x] \in Int /\ h[x] = f[x] + k * g[x]
  PROVE  SumFunctionOnSet(h, S) = SumFunctionOnSet(f, S) + k * SumFunctionOnSet(g, S)
<1> DEFINE Sum(e, s) == SumFunctionOnSet(e, s)
           T == {s \in SUBSET S : Sum(h, s) = Sum(f, s) + k * Sum(g, s)}
<1>1. \A x \in S : h[x] \in Int
  OBVIOUS
<1>2. {} \in T
  <2>1. IsFiniteSet({}) /\ k * 0 = 0
    BY FS_EmptySet
  <2>2. Sum(f, {}) = 0 /\ Sum(g, {}) = 0 /\ Sum(h, {}) = 0
    BY <2>1, SumStep
  <2> QED BY <2>1, <2>2
<1>3. ASSUME NEW s \in SUBSET S, NEW x \in S \ s, s \in T PROVE s \cup {x} \in T
  <2>1. IsFiniteSet(s)
    BY FS_Subset
  <2>2. /\ \A y \in s : f[y] \in Int /\ g[y] \in Int /\ h[y] \in Int
        /\ f[x] \in Int /\ g[x] \in Int /\ h[x] \in Int
    BY <1>1
  <2>3. Sum(f, s) \in Int /\ Sum(g, s) \in Int /\ Sum(h, s) \in Int
    BY <2>1, <2>2, SumSplit
  <2>4. /\ Sum(f, s \cup {x}) = f[x] + Sum(f, s)
        /\ Sum(g, s \cup {x}) = g[x] + Sum(g, s)
        /\ Sum(h, s \cup {x}) = h[x] + Sum(h, s)
    BY <2>1, <2>2, SumMore
  <2>5. Sum(h, s) = Sum(f, s) + k * Sum(g, s)
    BY <1>3
  <2>6. s \cup {x} \in SUBSET S /\ h[x] = f[x] + k * g[x]
    OBVIOUS
  <2> HIDE DEF Sum
  <2>7. k * (g[x] + Sum(g, s)) = k * g[x] + k * Sum(g, s)
    BY <2>2, <2>3
  <2>8. k * g[x] \in Int /\ k * Sum(g, s) \in Int
    BY <2>2, <2>3
  <2>9. Sum(h, s \cup {x}) = Sum(f, s \cup {x}) + k * Sum(g, s \cup {x})
    BY <2>2, <2>3, <2>4, <2>5, <2>6, <2>7, <2>8
  <2> QED BY <2>6, <2>9
<1>4. S \in T
  <2> HIDE DEF T
  <2> QED BY <1>2, <1>3, Building
<1> QED BY <1>4

\* Two functions that are the same there.
LEMMA SumSame ==
  ASSUME NEW f, NEW h, NEW S, IsFiniteSet(S), \A x \in S : f[x] \in Int /\ h[x] = f[x]
  PROVE  SumFunctionOnSet(h, S) = SumFunctionOnSet(f, S)
<1>1. \A x \in S : h[x] = f[x] + 0 * f[x]
  OBVIOUS
<1>2. SumFunctionOnSet(f, S) \in Int
  BY SumSplit
<1>3. SumFunctionOnSet(h, S) = SumFunctionOnSet(f, S) + 0 * SumFunctionOnSet(f, S)
  BY <1>1, SumLinear
<1> QED BY <1>2, <1>3

\* A sum of natural numbers is at least each of them.
LEMMA SumAtLeast ==
  ASSUME NEW f, NEW S, IsFiniteSet(S), \A x \in S : f[x] \in Nat
  PROVE  SumFunctionOnSet(f, S) \in Nat /\ \A x \in S : f[x] <= SumFunctionOnSet(f, S)
<1> DEFINE T == {s \in SUBSET S : SumFunctionOnSet(f, s) \in Nat}
<1>1. {} \in T
  <2>1. IsFiniteSet({})
    BY FS_EmptySet
  <2> QED BY <2>1, SumStep
<1>2. ASSUME NEW s \in SUBSET S, NEW x \in S \ s, s \in T PROVE s \cup {x} \in T
  <2>1. IsFiniteSet(s)
    BY FS_Subset
  <2>2. f[x] \in Int /\ \A y \in s : f[y] \in Int
    OBVIOUS
  <2>3. SumFunctionOnSet(f, s \cup {x}) = f[x] + SumFunctionOnSet(f, s)
    BY <2>1, <2>2, SumMore
  <2> QED BY <1>2, <2>3
<1>3. \A s \in SUBSET S : SumFunctionOnSet(f, s) \in Nat
  <2> SUFFICES ASSUME NEW s \in SUBSET S PROVE s \in T
    OBVIOUS
  <2>1. IsFiniteSet(s)
    BY FS_Subset
  <2>2. \A r \in SUBSET s : \A x \in s \ r : r \in T => r \cup {x} \in T
    BY <1>2
  <2> HIDE DEF T
  <2> QED BY <1>1, <2>1, <2>2, Building
<1>4. \A x \in S : SumFunctionOnSet(f, S) = f[x] + SumFunctionOnSet(f, S \ {x})
  <2>1. \A x \in S : f[x] \in Int
    OBVIOUS
  <2> QED BY <2>1, SumSplit
<1>5. ASSUME NEW x \in S PROVE f[x] <= SumFunctionOnSet(f, S)
  <2>1. SumFunctionOnSet(f, S \ {x}) \in Nat
    BY <1>3
  <2> QED BY <1>4, <2>1
<1> QED BY <1>3, <1>5

------------------------------------------------------------------------------
(* Imembers: the ways from a list to a member *)

\* Of a table's counts and direct rows: what is directly in a list, the ways from there,
\* and that each count is the number of ways over the first direct row.
Within(direct, a) == {c \in Lists : <<a, c>> \in direct}
Via(ref, d) == [c \in Lists |-> ref[<<c, d>>]]
Itself(direct, a, d) == IF <<a, d>> \in direct THEN 1 ELSE 0
CountsWays(ref, direct) ==
    \A a \in Lists, d \in Members :
       ref[<<a, d>>] = Itself(direct, a, d) + SumFunctionOnSet(Via(ref, d), Within(direct, a))
InNoLoop(ref) == \A l \in Lists : ref[<<l, l>>] = 0

\* A table that is right.
RightTable(ref, direct) ==
    /\ ref \in [Rows -> Nat] /\ direct \subseteq Rows
    /\ CountsWays(ref, direct) /\ InNoLoop(ref)

\* The ways to l and those from m, with the list and the member themselves.
UpTo(ref, l, a) == IF a = l THEN 1 ELSE ref[<<a, l>>]
DownFrom(ref, m, d) == IF d = m THEN 1 ELSE IF m \in Lists THEN ref[<<m, d>>] ELSE 0

\* What is in a list is a finite set of lists.
LEMMA WithinFinite ==
  ASSUME NEW direct, NEW a
  PROVE  IsFiniteSet(Within(direct, a)) /\ Within(direct, a) \subseteq Lists
<1>1. Within(direct, a) \subseteq Lists
  BY DEF Within
<1> QED BY <1>1, ListsAssumption, FS_Subset

\* A list and a member are a row.
LEMMA RowIn ==
  ASSUME NEW a \in Lists, NEW d \in Members
  PROVE  <<a, d>> \in Rows
BY DEF Rows

\* What a query changes is the product of the two.
LEMMA ChangedBy ==
  ASSUME NEW tab, tab.ref \in [Rows -> Nat], NEW l \in Lists, NEW m \in Members,
         NEW a \in Lists, NEW d \in Members
  PROVE  LET u == UpTo(tab.ref, l, a)
             v == DownFrom(tab.ref, m, d)
             r == <<a, d>>
         IN  /\ u \in Nat /\ v \in Nat
             /\ r \in Touched(tab, l, m, Descendants(tab, m)) =>
                   Ways(tab, l, m, r) = u * v /\ 0 < u /\ 0 < v
             /\ r \notin Touched(tab, l, m, Descendants(tab, m)) => u * v = 0
<1> DEFINE u == UpTo(tab.ref, l, a)
           v == DownFrom(tab.ref, m, d)
           r == <<a, d>>
<1>1. l \in Members /\ r[1] = a /\ r[2] = d
  BY DEF Members
<1>2. <<a, l>> \in Rows /\ tab.ref[<<a, l>>] \in Nat
  BY <1>1, RowIn
<1>3. m \in Lists => <<m, d>> \in Rows /\ tab.ref[<<m, d>>] \in Nat
  BY RowIn
<1>4. u \in Nat /\ v \in Nat
  BY <1>2, <1>3 DEF UpTo, DownFrom
<1>5. a \in {l} \cup Ancestors(tab, l) <=> 0 < u
  BY <1>2 DEF UpTo, Ancestors
<1>6. d \in {m} \cup Descendants(tab, m) <=> 0 < v
  BY <1>3 DEF DownFrom, Descendants
<1>7. r \in Touched(tab, l, m, Descendants(tab, m)) <=> 0 < u /\ 0 < v
  BY <1>5, <1>6 DEF Touched
<1>8. 0 < v => (IF d = m THEN 1 ELSE tab.ref[<<m, d>>]) = v
  BY DEF DownFrom
<1>9. 0 < v => Ways(tab, l, m, r) = u * v
  BY <1>1, <1>8 DEF Ways, UpTo
<1>10. ~(0 < u /\ 0 < v) => u * v = 0
  <2> HIDE DEF u, v
  <2>1. CASE u = 0
    BY <1>4, <2>1
  <2>2. CASE v = 0
    BY <1>4, <2>2
  <2> QED BY <1>4, <2>1, <2>2
<1> QED BY <1>4, <1>7, <1>9, <1>10

\* The ways to l are those over what is directly in the list.
LEMMA WaysTo ==
  ASSUME NEW ref, NEW direct, RightTable(ref, direct), NEW l \in Lists, NEW a \in Lists
  PROVE  SumFunctionOnSet([c \in Lists |-> UpTo(ref, l, c)], Within(direct, a)) = ref[<<a, l>>]
<1> DEFINE u == [c \in Lists |-> UpTo(ref, l, c)]
           f == Via(ref, l)
           S == Within(direct, a)
<1>1. l \in Members /\ \A c \in Lists : f[c] = ref[<<c, l>>] /\ f[c] \in Nat
                                        /\ u[c] = (IF c = l THEN 1 ELSE f[c])
  BY RowIn DEF Members, Via, UpTo, RightTable
<1>10. \A c \in Lists : f[c] \in Int /\ u[c] \in Int
  <2> SUFFICES ASSUME NEW c \in Lists PROVE f[c] \in Int /\ u[c] \in Int
    OBVIOUS
  <2>1. f[c] \in Nat /\ u[c] = (IF c = l THEN 1 ELSE f[c])
    BY <1>1
  <2> HIDE DEF u, f
  <2> QED BY <2>1
<1>2. f[l] = 0 /\ u[l] = 1
  BY <1>1 DEF RightTable, InNoLoop
<1>3. ref[<<a, l>>] = Itself(direct, a, l) + SumFunctionOnSet(f, S)
  BY <1>1 DEF RightTable, CountsWays
<1>4. IsFiniteSet(S) /\ S \subseteq Lists
  BY WithinFinite
<1>5. Itself(direct, a, l) = IF l \in S THEN 1 ELSE 0
  BY DEF Itself, Within
<1> HIDE DEF u, f, S
<1>6. \A x \in S : f[x] \in Int /\ u[x] \in Int
  BY <1>4, <1>10
<1>7. SumFunctionOnSet(f, S) \in Int
  BY <1>4, <1>6, SumSplit
<1>8. CASE l \notin S
  <2>1. \A x \in S : u[x] = f[x]
    BY <1>1, <1>4, <1>8
  <2>2. SumFunctionOnSet(u, S) = SumFunctionOnSet(f, S)
    BY <1>4, <1>6, <2>1, SumSame
  <2> QED BY <1>3, <1>5, <1>7, <1>8, <2>2 DEF u, f, S
<1>9. CASE l \in S
  <2> DEFINE R == S \ {l}
  <2>1. IsFiniteSet(R) /\ \A x \in R : f[x] \in Int /\ u[x] = f[x]
    BY <1>1, <1>4, <1>6, FS_Subset
  <2>2. SumFunctionOnSet(u, R) = SumFunctionOnSet(f, R)
    BY <2>1, SumSame
  <2>3. SumFunctionOnSet(u, S) = u[l] + SumFunctionOnSet(u, R)
    BY <1>4, <1>6, <1>9, SumSplit
  <2>4. SumFunctionOnSet(f, S) = f[l] + SumFunctionOnSet(f, R)
    BY <1>4, <1>6, <1>9, SumSplit
  <2>5. SumFunctionOnSet(f, R) \in Int
    BY <2>1, SumSplit
  <2>6. SumFunctionOnSet(u, S) = 1 + SumFunctionOnSet(f, S)
    BY <1>2, <2>2, <2>3, <2>4, <2>5
  <2> QED BY <1>3, <1>5, <1>7, <1>9, <2>6 DEF u, f, S
<1> QED BY <1>8, <1>9

\* What is counted when a row l, m comes (s = 1) or goes (s = -1).
LEMMA ChangeCounts ==
  ASSUME NEW ref, NEW direct, NEW l \in Lists, NEW m \in Members,
         NEW s \in {1, -1}, NEW new \in [Rows -> Int], NEW direct2,
         RightTable(ref, direct), m # l, m \in Lists => ref[<<m, l>>] = 0,
         \A a \in Lists, d \in Members :
            new[<<a, d>>] = ref[<<a, d>>] + s * (UpTo(ref, l, a) * DownFrom(ref, m, d)),
         \/ s = 1 /\ <<l, m>> \notin direct /\ direct2 = direct \cup {<<l, m>>}
         \/ s = -1 /\ <<l, m>> \in direct /\ direct2 = direct \ {<<l, m>>}
  PROVE  CountsWays(new, direct2)
<1> SUFFICES ASSUME NEW a \in Lists, NEW d \in Members
             PROVE  new[<<a, d>>] = Itself(direct2, a, d)
                                    + SumFunctionOnSet(Via(new, d), Within(direct2, a))
  BY DEF CountsWays
<1> DEFINE v == DownFrom(ref, m, d)
           u == [c \in Lists |-> UpTo(ref, l, c)]
           f == Via(ref, d)
           h == Via(new, d)
           S == Within(direct, a)
           Sum(e, W) == SumFunctionOnSet(e, W)
<1>1. \A c \in Lists, e \in Members : <<c, e>> \in Rows /\ ref[<<c, e>>] \in Nat
                                      /\ new[<<c, e>>] \in Int
  BY RowIn DEF RightTable
<1>2. l \in Members
  BY DEF Members
<1>3. v \in Nat
  BY <1>1 DEF DownFrom
<1>4. \A c \in Lists : f[c] \in Int /\ h[c] \in Int /\ u[c] \in Int
  BY <1>1, <1>2 DEF Via, UpTo
<1>5. \A c \in Lists : h[c] = f[c] + (s * v) * u[c]
  <2> SUFFICES ASSUME NEW c \in Lists PROVE h[c] = f[c] + (s * v) * u[c]
    OBVIOUS
  <2>1. h[c] = f[c] + s * (u[c] * v)
    BY DEF Via
  <2>2. s * (u[c] * v) = (s * v) * u[c]
    <3> HIDE DEF u, v
    <3>1. CASE s = 1
      BY <1>3, <1>4, <3>1
    <3>2. CASE s = -1
      BY <1>3, <1>4, <3>2
    <3> QED BY <3>1, <3>2
  <2> QED BY <2>1, <2>2
<1>6. IsFiniteSet(S) /\ S \subseteq Lists
  BY WithinFinite
<1>7. Sum(u, S) = ref[<<a, l>>]
  BY WaysTo
<1>8. ref[<<a, d>>] = Itself(direct, a, d) + Sum(f, S)
  BY DEF RightTable, CountsWays
<1>9. Sum(h, S) = Sum(f, S) + (s * v) * ref[<<a, l>>]
  <2>1. \A x \in S : f[x] \in Int /\ u[x] \in Int /\ h[x] = f[x] + (s * v) * u[x]
    BY <1>4, <1>5, <1>6
  <2>2. s * v \in Int
    BY <1>3
  <2> HIDE DEF u, f, h, S, v
  <2>3. Sum(h, S) = Sum(f, S) + (s * v) * Sum(u, S)
    BY <1>6, <2>1, <2>2, SumLinear
  <2> QED BY <1>7, <2>3
<1>10. Sum(f, S) \in Int /\ Sum(h, S) \in Int
  <2>1. \A x \in S : f[x] \in Int /\ h[x] \in Int
    BY <1>4, <1>6
  <2> HIDE DEF f, h, S
  <2> QED BY <1>6, <2>1, SumSplit
<1>11. CASE a # l
  <2>1. Within(direct2, a) = S /\ Itself(direct2, a, d) = Itself(direct, a, d)
    BY <1>11 DEF Within, Itself
  <2>2. new[<<a, d>>] = ref[<<a, d>>] + s * (ref[<<a, l>>] * v)
    BY <1>11 DEF UpTo
  <2>3. s * (ref[<<a, l>>] * v) = (s * v) * ref[<<a, l>>]
    <3>1. ref[<<a, l>>] \in Nat
      BY <1>1, <1>2
    <3> HIDE DEF v
    <3>2. CASE s = 1
      BY <1>3, <3>1, <3>2
    <3>3. CASE s = -1
      BY <1>3, <3>1, <3>3
    <3> QED BY <3>2, <3>3
  <2>4. Itself(direct, a, d) \in Int /\ (s * v) * ref[<<a, l>>] \in Int
    BY <1>1, <1>2, <1>3 DEF Itself
  <2> HIDE DEF v, f, h, S
  <2> QED BY <1>8, <1>9, <1>10, <2>1, <2>2, <2>3, <2>4 DEF h
<1>12. CASE a = l
  <2>1. new[<<a, d>>] = ref[<<a, d>>] + s * v
    <3>1. new[<<a, d>>] = ref[<<a, d>>] + s * (UpTo(ref, l, a) * v)
      OBVIOUS
    <3>2. UpTo(ref, l, a) = 1
      BY <1>12 DEF UpTo
    <3> HIDE DEF v
    <3>3. 1 * v = v
      BY <1>3
    <3> QED BY <3>1, <3>2, <3>3
  <2>2. ref[<<a, l>>] = 0 /\ Sum(h, S) = Sum(f, S)
    <3>1. ref[<<a, l>>] = 0
      BY <1>12 DEF RightTable, InNoLoop
    <3>2. (s * v) * 0 = 0
      BY <1>3
    <3> QED BY <1>9, <1>10, <3>1, <3>2
  <2>3. m \in Lists => h[m] = ref[<<m, d>>]
    <3> SUFFICES ASSUME m \in Lists PROVE h[m] = ref[<<m, d>>]
      OBVIOUS
    <3>1. UpTo(ref, l, m) = 0
      BY DEF UpTo
    <3>2. new[<<m, d>>] = ref[<<m, d>>] + s * (0 * v)
      BY <3>1
    <3>3. s * (0 * v) = 0
      BY <1>3
    <3> QED BY <1>1, <3>2, <3>3 DEF Via
  <2> DEFINE x == IF m \in Lists THEN ref[<<m, d>>] ELSE 0
             y == IF d = m THEN 1 ELSE 0
  <2>4. x \in Int /\ y \in Int
    BY <1>1
  <2>5. v = x + y
    BY <1>1 DEF DownFrom, RightTable, InNoLoop
  <2>6. Itself(direct2, a, d) = Itself(direct, a, d) + s * y
    BY <1>12 DEF Itself
  <2>7. Sum(h, Within(direct2, a)) = Sum(h, S) + s * x
    <3> DEFINE S2 == Within(direct2, a)
    <3>1. IsFiniteSet(S2) /\ S2 \subseteq Lists
      BY WithinFinite
    <3>2. (\A z \in S : h[z] \in Int) /\ (\A z \in S2 : h[z] \in Int)
      BY <1>4, <1>6, <3>1
    <3>3. CASE m \notin Lists
      <4>1. S2 = S
        BY <1>12, <3>3 DEF Within
      <4>2. x = 0
        BY <3>3
      <4> HIDE DEF S, S2, h, x
      <4> QED BY <1>10, <4>1, <4>2 DEF S2
    <3>4. CASE m \in Lists /\ s = 1
      <4>1. S2 = S \cup {m} /\ m \notin S
        BY <1>12, <3>4 DEF Within
      <4>2. h[m] = x /\ h[m] \in Int
        BY <1>4, <2>3, <3>4
      <4> HIDE DEF S, S2, h, x
      <4>3. Sum(h, S \cup {m}) = h[m] + Sum(h, S)
        BY <1>6, <3>2, <4>1, <4>2, SumMore
      <4> QED BY <1>10, <2>4, <3>4, <4>1, <4>2, <4>3 DEF S2
    <3>5. CASE m \in Lists /\ s = -1
      <4>1. S2 = S \ {m} /\ m \in S
        BY <1>12, <3>5 DEF Within
      <4>2. h[m] = x /\ h[m] \in Int
        BY <1>4, <2>3, <3>5
      <4> HIDE DEF S, S2, h, x
      <4>3. Sum(h, S) = h[m] + Sum(h, S \ {m})
        BY <1>6, <3>2, <4>1, SumSplit
      <4>4. Sum(h, S \ {m}) \in Int
        BY <3>1, <3>2, <4>1, SumSplit
      <4> QED BY <1>10, <2>4, <3>5, <4>1, <4>2, <4>3, <4>4 DEF S2
    <3> QED BY <3>3, <3>4, <3>5
  <2>8. Itself(direct, a, d) \in Int
    BY DEF Itself
  <2> HIDE DEF v, f, h, S, x, y
  <2>9. s * v = s * x + s * y
    <3>1. CASE s = 1
      BY <1>3, <2>4, <2>5, <3>1
    <3>2. CASE s = -1
      BY <1>3, <2>4, <2>5, <3>2
    <3> QED BY <3>1, <3>2
  <2>10. s * x \in Int /\ s * y \in Int
    BY <2>4
  <2> QED BY <1>8, <1>10, <2>1, <2>2, <2>6, <2>7, <2>8, <2>9, <2>10 DEF h
<1> QED BY <1>11, <1>12

\* The lists in a list, of which each of them has less.
Below(ref, a) == {c \in Lists : ref[<<a, c>>] > 0}

\* A list in a list has fewer lists in it: nothing leads round in a circle.
LEMMA BelowLess ==
  ASSUME NEW ref, NEW direct, RightTable(ref, direct), NEW a \in Lists
  PROVE  /\ IsFiniteSet(Below(ref, a)) /\ Cardinality(Below(ref, a)) \in Nat
         /\ Cardinality(Below(ref, a)) < Cardinality(Lists)
         /\ \A c \in Within(direct, a) :
               Cardinality(Below(ref, c)) < Cardinality(Below(ref, a))
<1>1. \A x \in Lists, d \in Members : <<x, d>> \in Rows /\ ref[<<x, d>>] \in Nat
  BY RowIn DEF RightTable
<1>2. Lists \subseteq Members
  BY DEF Members
<1>3. \A x \in Lists : /\ IsFiniteSet(Below(ref, x)) /\ Cardinality(Below(ref, x)) \in Nat
                       /\ Below(ref, x) \subseteq Lists /\ x \notin Below(ref, x)
  <2> SUFFICES ASSUME NEW x \in Lists
               PROVE  /\ IsFiniteSet(Below(ref, x)) /\ Cardinality(Below(ref, x)) \in Nat
                      /\ Below(ref, x) \subseteq Lists /\ x \notin Below(ref, x)
    OBVIOUS
  <2>1. Below(ref, x) \subseteq Lists /\ x \notin Below(ref, x)
    BY DEF Below, RightTable, InNoLoop
  <2> QED BY <2>1, ListsAssumption, FS_Subset, FS_CardinalityType
<1>4. Cardinality(Below(ref, a)) < Cardinality(Lists)
  <2>1. Below(ref, a) \subseteq Lists \ {a} /\ IsFiniteSet(Lists \ {a})
    BY <1>3, ListsAssumption, FS_Subset
  <2>2. Cardinality(Below(ref, a)) <= Cardinality(Lists \ {a})
    BY <2>1, FS_Subset
  <2>3. Cardinality(Lists \ {a}) = Cardinality(Lists) - 1 /\ Cardinality(Lists) \in Nat
    BY ListsAssumption, FS_RemoveElement, FS_CardinalityType
  <2> QED BY <1>3, <2>2, <2>3
<1>5. ASSUME NEW c \in Within(direct, a)
      PROVE  Cardinality(Below(ref, c)) < Cardinality(Below(ref, a))
  <2>1. c \in Lists /\ <<a, c>> \in direct
    BY DEF Within
  <2>2. ASSUME NEW d \in Lists PROVE ref[<<a, d>>] >= Itself(direct, a, d) + ref[<<c, d>>]
    <3> DEFINE f == Via(ref, d)
               S == Within(direct, a)
    <3>1. d \in Members /\ \A x \in Lists : f[x] = ref[<<x, d>>] /\ f[x] \in Nat
      BY <1>1, <1>2 DEF Via
    <3>2. ref[<<a, d>>] = Itself(direct, a, d) + SumFunctionOnSet(f, S)
      BY <3>1 DEF RightTable, CountsWays
    <3>3. IsFiniteSet(S) /\ S \subseteq Lists
      BY WithinFinite
    <3>4. Itself(direct, a, d) \in Nat
      BY DEF Itself
    <3> HIDE DEF f, S
    <3>5. \A x \in S : f[x] \in Nat
      BY <3>1, <3>3
    <3>6. SumFunctionOnSet(f, S) \in Nat /\ f[c] <= SumFunctionOnSet(f, S)
      BY <3>3, <3>5, SumAtLeast DEF S
    <3> QED BY <2>1, <3>1, <3>2, <3>4, <3>6
  <2>3. c \in Below(ref, a)
    <3>1. ref[<<a, c>>] >= Itself(direct, a, c) + ref[<<c, c>>]
      BY <2>1, <2>2
    <3>2. Itself(direct, a, c) = 1 /\ ref[<<c, c>>] = 0
      BY <2>1 DEF Itself, RightTable, InNoLoop
    <3> QED BY <1>1, <1>2, <2>1, <3>1, <3>2 DEF Below
  <2>4. \A d \in Lists : ref[<<c, d>>] > 0 => ref[<<a, d>>] > 0
    <3> SUFFICES ASSUME NEW d \in Lists, ref[<<c, d>>] > 0 PROVE ref[<<a, d>>] > 0
      OBVIOUS
    <3>1. Itself(direct, a, d) \in Nat
      BY DEF Itself
    <3> QED BY <1>1, <1>2, <2>1, <2>2, <3>1
  <2>5. Below(ref, c) \subseteq Below(ref, a) \ {c}
    BY <1>3, <2>1, <2>4 DEF Below
  <2>6. IsFiniteSet(Below(ref, a) \ {c})
        /\ Cardinality(Below(ref, a) \ {c}) = Cardinality(Below(ref, a)) - 1
    BY <1>3, <2>3, FS_RemoveElement
  <2>7. Cardinality(Below(ref, c)) <= Cardinality(Below(ref, a) \ {c})
    BY <2>5, <2>6, FS_Subset
  <2> QED BY <1>3, <2>1, <2>6, <2>7
<1> QED BY <1>3, <1>4, <1>5

\* What counts the ways over some of the direct rows is not below the rows themselves.
LEMMA CountsAreNat ==
  ASSUME NEW ref, NEW direct, RightTable(ref, direct),
         NEW new \in [Rows -> Int], NEW direct2 \in SUBSET direct, CountsWays(new, direct2)
  PROVE  \A a \in Lists, d \in Members : new[<<a, d>>] \in Nat
                                         /\ Itself(direct2, a, d) <= new[<<a, d>>]
<1> DEFINE Good(a) == \A d \in Members : new[<<a, d>>] \in Nat
                                         /\ Itself(direct2, a, d) <= new[<<a, d>>]
           T == {n \in Nat : \A a \in Lists : Cardinality(Below(ref, a)) < n => Good(a)}
<1>1. \A a \in Lists : Cardinality(Below(ref, a)) \in Nat
  BY BelowLess
<1>2. 0 \in T
  BY <1>1
<1>3. ASSUME NEW n \in Nat, n \in T PROVE n + 1 \in T
  <2> SUFFICES ASSUME NEW a \in Lists, Cardinality(Below(ref, a)) < n + 1 PROVE Good(a)
    OBVIOUS
  <2>1. \A c \in Within(direct, a) : c \in Lists /\ Cardinality(Below(ref, c)) < n
    BY <1>1, BelowLess DEF Within
  <2>2. \A c \in Within(direct2, a) : c \in Lists /\ Good(c)
    <3>1. Within(direct2, a) \subseteq Within(direct, a)
      BY DEF Within
    <3> QED BY <1>3, <2>1, <3>1
  <2> SUFFICES ASSUME NEW d \in Members
               PROVE  new[<<a, d>>] \in Nat /\ Itself(direct2, a, d) <= new[<<a, d>>]
    OBVIOUS
  <2> DEFINE f == Via(new, d)
             S == Within(direct2, a)
  <2>3. \A c \in S : f[c] \in Nat
    BY <2>2 DEF Via
  <2>4. IsFiniteSet(S)
    BY WithinFinite
  <2>5. new[<<a, d>>] = Itself(direct2, a, d) + SumFunctionOnSet(f, S)
    BY DEF CountsWays
  <2>6. Itself(direct2, a, d) \in Nat
    BY DEF Itself
  <2> HIDE DEF f, S
  <2>7. SumFunctionOnSet(f, S) \in Nat
    BY <2>3, <2>4, SumAtLeast
  <2> QED BY <2>5, <2>6, <2>7
<1>4. ASSUME NEW a \in Lists PROVE Good(a)
  <2>1. Cardinality(Below(ref, a)) + 1 \in T
    <3> HIDE DEF T
    <3> QED BY <1>1, <1>2, <1>3, Counting
  <2> QED BY <1>1, <2>1
<1> QED BY <1>4

-----------------------------------------------------------------------------
\* The walks of up to n direct rows, from those of one row less.
WalksStep(direct, w, k) ==
    IF k = 0 THEN [r \in Rows |-> 0]
    ELSE [r \in Rows |-> (IF r \in direct THEN 1 ELSE 0)
                         + SumFunctionOnSet([c \in Lists |-> w[k - 1][<<c, r[2]>>]],
                                            {c \in Lists : <<r[1], c>> \in direct})]
IsWalks(w, direct, n) == w = [k \in 0 .. n |-> WalksStep(direct, w, k)]

\* The walks of Imembers are the last of those that count up.
LEMMA WalksIs ==
  ASSUME NEW direct, NEW n
  PROVE  Walks(direct, n) = (CHOOSE w : IsWalks(w, direct, n))[n]
BY DEF Walks, IsWalks, WalksStep

\* Walks can be counted for any number of steps.
LEMMA WalksExist ==
  ASSUME NEW direct, NEW n \in Nat
  PROVE  \E w : IsWalks(w, direct, n)
<1> DEFINE Upto(w, k) == \A j \in 0 .. n : j < k => w[j] = WalksStep(direct, w, j)
           T == {k \in Nat : \E w : Upto(w, k)}
<1>1. ASSUME NEW w, NEW z, NEW j \in Nat, j # 0 => w[j - 1] = z[j - 1]
      PROVE  WalksStep(direct, w, j) = WalksStep(direct, z, j)
  BY <1>1 DEF WalksStep
<1>2. 0 \in T
  OBVIOUS
<1>3. ASSUME NEW k \in Nat, k \in T PROVE k + 1 \in T
  <2>1. PICK w : Upto(w, k)
    BY <1>3
  <2> DEFINE more == [j \in 0 .. n |-> IF j < k THEN w[j] ELSE WalksStep(direct, w, j)]
  <2>2. ASSUME NEW j \in 0 .. n, j < k + 1 PROVE more[j] = WalksStep(direct, more, j)
    <3>1. more[j] = WalksStep(direct, w, j)
      BY <2>1
    <3>2. j # 0 => more[j - 1] = w[j - 1]
      BY <2>2
    <3> HIDE DEF more
    <3> QED BY <1>1, <3>1, <3>2
  <2>3. Upto(more, k + 1)
    BY <2>2
  <2> HIDE DEF more, Upto
  <2> QED BY <2>3
<1>4. n + 1 \in T
  <2> HIDE DEF T
  <2> QED BY <1>2, <1>3, Counting
<1>5. PICK w : Upto(w, n + 1)
  BY <1>4
<1> DEFINE all == [j \in 0 .. n |-> w[j]]
<1>6. ASSUME NEW j \in 0 .. n PROVE w[j] = WalksStep(direct, all, j)
  <2>1. w[j] = WalksStep(direct, w, j)
    BY <1>5
  <2>2. j # 0 => all[j - 1] = w[j - 1]
    OBVIOUS
  <2> HIDE DEF all
  <2> QED BY <1>1, <2>1, <2>2
<1>7. IsWalks(all, direct, n)
  BY <1>6, Zenon DEF IsWalks
<1> QED BY <1>7

\* A table that is right has the numbers of walks.
LEMMA RightIsFlattened ==
  ASSUME NEW tab, RightTable(tab.ref, tab.direct)
  PROVE  IsFlattened(tab)
<1> DEFINE ref == tab.ref
           direct == tab.direct
           n == Cardinality(Lists)
<1>1. n \in Nat
  BY ListsAssumption, FS_CardinalityType
<1>2. PICK w : IsWalks(w, direct, n) /\ Walks(direct, n) = w[n]
  BY <1>1, WalksExist, WalksIs
<1>3. \A k \in 0 .. n : w[k] = WalksStep(direct, w, k)
  BY <1>2 DEF IsWalks
<1>4. \A a \in Lists : Cardinality(Below(ref, a)) \in Nat /\ Cardinality(Below(ref, a)) < n
  BY BelowLess
<1> DEFINE Same(k, a) == \A d \in Members : w[k][<<a, d>>] = ref[<<a, d>>]
           T == {k \in Nat : k <= n =>
                     \A a \in Lists : Cardinality(Below(ref, a)) < k => Same(k, a)}
<1>5. 0 \in T
  BY <1>4
<1>6. ASSUME NEW k \in Nat, k \in T PROVE k + 1 \in T
  <2> SUFFICES ASSUME k + 1 <= n, NEW a \in Lists, Cardinality(Below(ref, a)) < k + 1,
                      NEW d \in Members
               PROVE  w[k + 1][<<a, d>>] = ref[<<a, d>>]
    OBVIOUS
  <2> DEFINE f == Via(ref, d)
             h == [c \in Lists |-> w[k][<<c, d>>]]
             S == Within(direct, a)
  <2>1. \A c \in S : c \in Lists /\ Cardinality(Below(ref, c)) < k
    BY <1>4, BelowLess DEF Within
  <2>2. \A c \in S : h[c] = f[c] /\ f[c] \in Int
    <3> SUFFICES ASSUME NEW c \in S PROVE h[c] = f[c] /\ f[c] \in Int
      OBVIOUS
    <3>1. Same(k, c)
      BY <1>1, <1>6, <2>1
    <3>2. c \in Lists /\ ref[<<c, d>>] \in Int
      BY <2>1, RowIn DEF RightTable
    <3> QED BY <3>1, <3>2 DEF Via
  <2>3. IsFiniteSet(S)
    BY WithinFinite
  <2>4. w[k + 1][<<a, d>>] = Itself(direct, a, d) + SumFunctionOnSet(h, S)
    <3>1. k + 1 \in 0 .. n /\ k + 1 # 0 /\ (k + 1) - 1 = k
      BY <1>1
    <3>2. w[k + 1] = WalksStep(direct, w, k + 1)
      BY <1>3, <3>1
    <3>3. <<a, d>> \in Rows
      BY RowIn
    <3> QED BY <3>1, <3>2, <3>3 DEF WalksStep, Itself, Within
  <2>5. ref[<<a, d>>] = Itself(direct, a, d) + SumFunctionOnSet(f, S)
    BY DEF RightTable, CountsWays
  <2> HIDE DEF f, h, S
  <2>6. SumFunctionOnSet(h, S) = SumFunctionOnSet(f, S)
    BY <2>2, <2>3, SumSame
  <2> QED BY <2>4, <2>5, <2>6
<1>7. n \in T
  <2> HIDE DEF T
  <2> QED BY <1>1, <1>5, <1>6, Counting
<1>8. \A a \in Lists, d \in Members : w[n][<<a, d>>] = ref[<<a, d>>]
  <2>1. \A a \in Lists : Same(n, a)
    <3> HIDE DEF Same, n
    <3> QED BY <1>1, <1>4, <1>7
  <2> QED BY <2>1
<1>9. w[n] = ref
  <2>1. n \in 0 .. n
    BY <1>1
  <2>2. w[n] = WalksStep(direct, w, n)
    BY <1>3, <2>1
  <2>3. w[n] = [r \in Rows |-> w[n][r]]
    BY <2>2 DEF WalksStep
  <2>4. ref = [r \in Rows |-> ref[r]]
    BY DEF RightTable
  <2>5. \A r \in Rows : w[n][r] = ref[r]
    BY <1>8 DEF Rows
  <2> QED BY <2>3, <2>4, <2>5
<1> QED BY <1>2, <1>9 DEF IsFlattened, RightTable, InNoLoop

-----------------------------------------------------------------------------
TableType(tab) == tab.ref \in [Rows -> Nat] /\ tab.direct \subseteq Present(tab)

\* A count that would fall below 0.
LEMMA MaxWithZero ==
  ASSUME NEW i \in Int
  PROVE  Max({0, i}) = IF i < 0 THEN 0 ELSE i
BY DEF Max

\* The ways a query counts for a row are a number of them, and one for the row itself.
LEMMA WaysType ==
  ASSUME NEW tab, tab.ref \in [Rows -> Nat], NEW l \in Lists, NEW m \in Members,
         NEW D \in SUBSET Descendants(tab, m), NEW r \in Touched(tab, l, m, D)
  PROVE  r \in Rows /\ Ways(tab, l, m, r) \in Nat /\ (r = <<l, m>> => Ways(tab, l, m, r) = 1)
<1>1. PICK a \in {l} \cup Ancestors(tab, l), d \in {m} \cup D : r = <<a, d>>
  BY DEF Touched
<1>2. a \in Lists /\ d \in Members /\ (d # m => m \in Lists) /\ l \in Members
  BY DEF Ancestors, Descendants, Members
<1>3. r \in Rows
  BY <1>1, <1>2, RowIn
<1>4. tab.ref[<<a, l>>] \in Nat
  BY <1>2, RowIn
<1>5. d # m => tab.ref[<<m, d>>] \in Nat
  BY <1>2, RowIn
<1>6. r[1] = a /\ r[2] = d
  BY <1>1
<1> DEFINE u == IF a = l THEN 1 ELSE tab.ref[<<a, l>>]
           v == IF d = m THEN 1 ELSE tab.ref[<<m, d>>]
<1>7. u \in Nat /\ v \in Nat /\ (r = <<l, m>> => u = 1 /\ v = 1)
  BY <1>1, <1>4, <1>5
<1>8. Ways(tab, l, m, r) = u * v
  BY <1>6 DEF Ways
<1> HIDE DEF u, v
<1> QED BY <1>3, <1>7, <1>8

\* add_member_to_list leaves a table.
LEMMA AddType ==
  ASSUME NEW tab, TableType(tab), NEW l \in Lists, NEW m \in Members
  PROVE  TableType(AddMember(tab, l, m))
<1> DEFINE D == Descendants(tab, m)
           new == AddMember(tab, l, m)
           more(r) == IF r \in Touched(tab, l, m, D) THEN Ways(tab, l, m, r) ELSE 0
<1>1. \A r \in Rows : more(r) \in Nat /\ tab.ref[r] \in Nat
  BY WaysType DEF TableType
<1>2. new.ref = [r \in Rows |-> tab.ref[r] + more(r)] /\ new.direct = tab.direct \cup {<<l, m>>}
  BY DEF AddMember
<1>3. more(<<l, m>>) = 1 /\ <<l, m>> \in Rows
  <2>1. <<l, m>> \in Touched(tab, l, m, D)
    BY DEF Touched
  <2> QED BY <2>1, WaysType DEF TableType
<1> HIDE DEF more, new
<1>4. new.ref \in [Rows -> Nat]
  BY <1>1, <1>2
<1>5. \A r \in new.direct : r \in Rows /\ new.ref[r] > 0
  BY <1>1, <1>2, <1>3 DEF TableType, Present
<1> QED BY <1>4, <1>5 DEF TableType, Present, new

\* So does delete_member_from_list, whatever rows it has fetched.
LEMMA DeleteType ==
  ASSUME NEW tab, TableType(tab), NEW l \in Lists, NEW m \in Members,
         NEW D \in SUBSET Descendants(tab, m)
  PROVE  TableType(DeleteMember(tab, l, m, D))
<1> DEFINE new == DeleteMember(tab, l, m, D)
           less(r) == Max({0, tab.ref[r] - Ways(tab, l, m, r)})
           ref == [r \in Rows |-> IF r \in Touched(tab, l, m, D) THEN less(r) ELSE tab.ref[r]]
<1>1. \A r \in Rows : tab.ref[r] \in Nat
  BY DEF TableType
<1>2. \A r \in Touched(tab, l, m, D) : less(r) \in Nat
  <2> SUFFICES ASSUME NEW r \in Touched(tab, l, m, D) PROVE less(r) \in Nat
    OBVIOUS
  <2>1. r \in Rows /\ Ways(tab, l, m, r) \in Nat
    BY WaysType DEF TableType
  <2> DEFINE i == tab.ref[r] - Ways(tab, l, m, r)
  <2>2. i \in Int
    BY <1>1, <2>1
  <2> HIDE DEF i
  <2>3. Max({0, i}) \in Nat
    BY <2>2, MaxWithZero
  <2> QED BY <2>3 DEF i
<1>3. new = [ref |-> ref, direct |-> {r \in tab.direct \ {<<l, m>>} : ref[r] > 0}]
  BY DEF DeleteMember
<1> HIDE DEF less
<1>4. ref \in [Rows -> Nat]
  BY <1>1, <1>2
<1>5. tab.direct \subseteq Rows
  BY DEF TableType, Present
<1> HIDE DEF ref, new
<1> QED BY <1>3, <1>4, <1>5 DEF TableType, Present, new

\* An add keeps a table right.
LEMMA AddRight ==
  ASSUME NEW tab, RightTable(tab.ref, tab.direct), NEW l \in Lists, NEW m \in Members,
         CanAdd(tab, l, m)
  PROVE  LET new == AddMember(tab, l, m) IN RightTable(new.ref, new.direct)
<1> DEFINE D == Descendants(tab, m)
           touched == Touched(tab, l, m, D)
           new == AddMember(tab, l, m)
           by(a, d) == UpTo(tab.ref, l, a) * DownFrom(tab.ref, m, d)
<1>1. tab.ref \in [Rows -> Nat] /\ tab.direct \subseteq Rows
  BY DEF RightTable
<1>2. \A a \in Lists : <<a, a>> \notin touched
  BY DEF CanAdd, Loops
<1>3. new.ref = [r \in Rows |-> tab.ref[r] + IF r \in touched THEN Ways(tab, l, m, r) ELSE 0]
      /\ new.direct = tab.direct \cup {<<l, m>>}
  BY DEF AddMember
<1>4. ASSUME NEW a \in Lists, NEW d \in Members
      PROVE  /\ by(a, d) \in Nat /\ new.ref[<<a, d>>] = tab.ref[<<a, d>>] + by(a, d)
             /\ <<a, d>> \notin touched => by(a, d) = 0
  <2>1. /\ UpTo(tab.ref, l, a) \in Nat /\ DownFrom(tab.ref, m, d) \in Nat
        /\ <<a, d>> \in touched => Ways(tab, l, m, <<a, d>>) = by(a, d)
        /\ <<a, d>> \notin touched => by(a, d) = 0
    BY <1>1, ChangedBy
  <2>2. <<a, d>> \in Rows
    BY RowIn
  <2>3. by(a, d) \in Nat
    BY <2>1
  <2> HIDE DEF touched, by, new
  <2> QED BY <1>3, <2>1, <2>2, <2>3
<1>5. m # l
  BY <1>2 DEF Touched
<1>6. m \in Lists => tab.ref[<<m, l>>] = 0
  <2> SUFFICES ASSUME m \in Lists, tab.ref[<<m, l>>] # 0 PROVE FALSE
    OBVIOUS
  <2>1. l \in Members
    BY DEF Members
  <2>2. tab.ref[<<m, l>>] \in Nat
    BY <1>1, <2>1, RowIn
  <2>3. l \in D
    BY <2>1, <2>2 DEF Descendants
  <2> QED BY <1>2, <2>3 DEF Touched
<1>7. <<l, m>> \notin tab.direct
  BY DEF CanAdd
<1>8. new.ref \in [Rows -> Nat]
  <2>1. \A r \in Rows : new.ref[r] \in Nat
    <3> SUFFICES ASSUME NEW a \in Lists, NEW d \in Members PROVE new.ref[<<a, d>>] \in Nat
      BY DEF Rows
    <3>1. <<a, d>> \in Rows /\ tab.ref[<<a, d>>] \in Nat
      BY <1>1, RowIn
    <3> HIDE DEF by, new
    <3> QED BY <1>4, <3>1
  <2>2. new.ref = [r \in Rows |-> new.ref[r]]
    BY <1>3
  <2> HIDE DEF new
  <2> QED BY <2>1, <2>2
<1>9. CountsWays(new.ref, new.direct)
  <2>1. \A a \in Lists, d \in Members :
           new.ref[<<a, d>>] =
              tab.ref[<<a, d>>] + 1 * (UpTo(tab.ref, l, a) * DownFrom(tab.ref, m, d))
    <3> SUFFICES ASSUME NEW a \in Lists, NEW d \in Members
                 PROVE  new.ref[<<a, d>>] = tab.ref[<<a, d>>] + 1 * by(a, d)
      OBVIOUS
    <3>1. by(a, d) \in Nat /\ new.ref[<<a, d>>] = tab.ref[<<a, d>>] + by(a, d)
      BY <1>4
    <3> HIDE DEF by, new
    <3> QED BY <3>1
  <2>2. new.ref \in [Rows -> Int] /\ new.direct = tab.direct \cup {<<l, m>>}
    BY <1>3, <1>8
  <2> DEFINE nref == new.ref
             ndirect == new.direct
             ref == tab.ref
             direct == tab.direct
  <2>3. \A a \in Lists, d \in Members :
           nref[<<a, d>>] = ref[<<a, d>>] + 1 * (UpTo(ref, l, a) * DownFrom(ref, m, d))
    BY <2>1
  <2>4. nref \in [Rows -> Int] /\ ndirect = direct \cup {<<l, m>>} /\ RightTable(ref, direct)
        /\ <<l, m>> \notin direct /\ (m \in Lists => ref[<<m, l>>] = 0)
    BY <2>2, <1>7, <1>6
  <2> HIDE DEF nref, ndirect, ref, direct
  <2>5. CountsWays(nref, ndirect)
    BY <1>5, <2>3, <2>4, ChangeCounts
  <2> QED BY <2>5 DEF nref, ndirect
<1>10. ASSUME NEW a \in Lists PROVE new.ref[<<a, a>>] = 0
  <2>1. a \in Members
    BY DEF Members
  <2>2. tab.ref[<<a, a>>] = 0
    BY DEF RightTable, InNoLoop
  <2>3. by(a, a) = 0
    BY <1>2, <1>4, <2>1
  <2> HIDE DEF by, new
  <2> QED BY <1>4, <2>1, <2>2, <2>3
<1>11. new.direct \subseteq Rows
  BY <1>1, <1>3, RowIn
<1> QED BY <1>8, <1>9, <1>10, <1>11 DEF RightTable, InNoLoop

\* So does a delete that has all the rows.
LEMMA DeleteRight ==
  ASSUME NEW tab, RightTable(tab.ref, tab.direct), NEW l \in Lists, NEW m \in Members,
         <<l, m>> \in tab.direct
  PROVE  LET new == DeleteMember(tab, l, m, Descendants(tab, m))
         IN  RightTable(new.ref, new.direct)
<1> DEFINE D == Descendants(tab, m)
           touched == Touched(tab, l, m, D)
           new == DeleteMember(tab, l, m, D)
           by(a, d) == UpTo(tab.ref, l, a) * DownFrom(tab.ref, m, d)
           ref == tab.ref
           direct == tab.direct
           nref == [r \in Rows |-> ref[r] + (-1) * by(r[1], r[2])]
           ndirect == direct \ {<<l, m>>}
<1>1. ref \in [Rows -> Nat] /\ direct \subseteq Rows /\ RightTable(ref, direct)
  BY DEF RightTable
<1>2. \A a \in Lists, d \in Members : <<a, d>> \in Rows /\ ref[<<a, d>>] \in Nat
  BY <1>1, RowIn
<1>3. l \in Members
  BY DEF Members
<1>4. ASSUME NEW d \in Members
      PROVE  /\ Itself(direct, l, d) <= ref[<<l, d>>]
             /\ m \in Lists => ref[<<m, d>>] <= ref[<<l, d>>]
  <2> DEFINE f == Via(ref, d)
             S == Within(direct, l)
  <2>1. \A c \in Lists : f[c] = ref[<<c, d>>] /\ f[c] \in Nat
    BY <1>2 DEF Via
  <2>2. ref[<<l, d>>] = Itself(direct, l, d) + SumFunctionOnSet(f, S)
    BY DEF RightTable, CountsWays
  <2>3. IsFiniteSet(S) /\ S \subseteq Lists /\ (m \in Lists => m \in S)
    BY WithinFinite DEF Within
  <2>4. Itself(direct, l, d) \in Nat
    BY DEF Itself
  <2> HIDE DEF f, S, ref, direct
  <2>5. \A x \in S : f[x] \in Nat
    BY <2>1, <2>3
  <2>6. SumFunctionOnSet(f, S) \in Nat /\ \A x \in S : f[x] <= SumFunctionOnSet(f, S)
    BY <2>3, <2>5, SumAtLeast
  <2> QED BY <1>2, <2>1, <2>2, <2>3, <2>4, <2>6
<1>5. m # l
  <2>1. Itself(direct, l, m) = 1 /\ ref[<<l, l>>] = 0
    BY DEF Itself, RightTable, InNoLoop
  <2>2. 1 <= ref[<<l, m>>]
    BY <1>4, <2>1
  <2> QED BY <2>1, <2>2
<1>6. m \in Lists => ref[<<m, l>>] = 0
  <2>1. ref[<<l, l>>] = 0
    BY DEF RightTable, InNoLoop
  <2>2. m \in Lists => ref[<<m, l>>] <= ref[<<l, l>>]
    BY <1>3, <1>4
  <2> HIDE DEF ref
  <2> QED BY <1>2, <1>3, <2>1, <2>2
<1>7. ASSUME NEW a \in Lists, NEW d \in Members
      PROVE  /\ by(a, d) \in Nat /\ nref[<<a, d>>] = ref[<<a, d>>] + (-1) * by(a, d)
             /\ nref[<<a, d>>] = ref[<<a, d>>] - by(a, d)
             /\ <<a, d>> \in touched => Ways(tab, l, m, <<a, d>>) = by(a, d)
             /\ <<a, d>> \notin touched => by(a, d) = 0
  <2>1. /\ UpTo(tab.ref, l, a) \in Nat /\ DownFrom(tab.ref, m, d) \in Nat
        /\ <<a, d>> \in touched => Ways(tab, l, m, <<a, d>>) = by(a, d)
        /\ <<a, d>> \notin touched => by(a, d) = 0
    BY <1>1, ChangedBy
  <2>2. by(a, d) \in Nat
    BY <2>1
  <2>3. nref[<<a, d>>] = ref[<<a, d>>] + (-1) * by(a, d)
    BY <1>2
  <2> HIDE DEF touched, by, nref, ref
  <2> QED BY <1>2, <2>1, <2>2, <2>3
<1>8. nref \in [Rows -> Int]
  <2> SUFFICES ASSUME NEW a \in Lists, NEW d \in Members
               PROVE  ref[<<a, d>>] + (-1) * by(a, d) \in Int
    BY DEF Rows
  <2>1. by(a, d) \in Nat /\ ref[<<a, d>>] \in Nat
    BY <1>2, <1>7
  <2> HIDE DEF by, ref
  <2> QED BY <2>1
<1>9. CountsWays(nref, ndirect)
  <2>1. \A a \in Lists, d \in Members :
           nref[<<a, d>>] = ref[<<a, d>>] + (-1) * (UpTo(ref, l, a) * DownFrom(ref, m, d))
    BY <1>7
  <2> HIDE DEF nref, ref, direct, by
  <2>2. ndirect = direct \ {<<l, m>>} /\ <<l, m>> \in direct
    BY DEF direct
  <2> HIDE DEF ndirect
  <2> QED BY <1>1, <1>5, <1>6, <1>8, <2>1, <2>2, ChangeCounts
<1>10. \A a \in Lists, d \in Members : nref[<<a, d>>] \in Nat
                                      /\ Itself(ndirect, a, d) <= nref[<<a, d>>]
  <2>1. ndirect \in SUBSET direct
    OBVIOUS
  <2> HIDE DEF nref, ref, direct, by, ndirect
  <2> QED BY <1>1, <1>8, <1>9, <2>1, CountsAreNat
<1>11. new.ref = nref
  <2> DEFINE less(r) == Max({0, tab.ref[r] - Ways(tab, l, m, r)})
             h(r) == IF r \in touched THEN less(r) ELSE tab.ref[r]
  <2>1. new.ref = [r \in Rows |-> h(r)]
    BY DEF DeleteMember
  <2>2. ASSUME NEW a \in Lists, NEW d \in Members PROVE h(<<a, d>>) = nref[<<a, d>>]
    <3>1. nref[<<a, d>>] = ref[<<a, d>>] - by(a, d) /\ nref[<<a, d>>] \in Nat
          /\ ref[<<a, d>>] \in Nat /\ by(a, d) \in Nat
      BY <1>2, <1>7, <1>10
    <3>2. CASE <<a, d>> \in touched
      <4>1. Ways(tab, l, m, <<a, d>>) = by(a, d)
        BY <1>7, <3>2
      <4>2. less(<<a, d>>) = Max({0, nref[<<a, d>>]})
        BY <3>1, <4>1
      <4>3. Max({0, nref[<<a, d>>]}) = nref[<<a, d>>]
        <5> HIDE DEF nref
        <5> QED BY <3>1, MaxWithZero
      <4> QED BY <3>2, <4>2, <4>3
    <3>3. CASE <<a, d>> \notin touched
      <4>1. by(a, d) = 0
        BY <1>7, <3>3
      <4>2. h(<<a, d>>) = ref[<<a, d>>]
        BY <3>3
      <4> HIDE DEF h, nref, ref, by
      <4> QED BY <3>1, <4>1, <4>2
    <3> QED BY <3>2, <3>3
  <2>3. \A r \in Rows : h(r) = nref[r]
    <3> HIDE DEF h, nref
    <3> QED BY <2>2 DEF Rows
  <2>4. nref = [r \in Rows |-> nref[r]]
    OBVIOUS
  <2> HIDE DEF h, nref, new
  <2> QED BY <2>1, <2>3, <2>4
<1>12. new.direct = ndirect
  <2>1. new.direct = {r \in ndirect : new.ref[r] > 0}
    BY DEF DeleteMember
  <2>2. ASSUME NEW a \in Lists, NEW d \in Members, <<a, d>> \in ndirect PROVE nref[<<a, d>>] > 0
    <3>1. Itself(ndirect, a, d) = 1
      BY <2>2 DEF Itself
    <3> HIDE DEF nref, ndirect
    <3> QED BY <1>10, <3>1
  <2>3. ndirect \subseteq Rows
    BY <1>1
  <2> HIDE DEF new, nref, ndirect
  <2> QED BY <1>11, <2>1, <2>2, <2>3 DEF Rows
<1>13. ASSUME NEW a \in Lists PROVE nref[<<a, a>>] = 0
  <2>1. a \in Members
    BY DEF Members
  <2>2. ref[<<a, a>>] = 0
    BY DEF RightTable, InNoLoop
  <2>3. nref[<<a, a>>] \in Nat /\ by(a, a) \in Nat /\ nref[<<a, a>>] = ref[<<a, a>>] - by(a, a)
    BY <1>7, <1>10, <2>1
  <2> HIDE DEF nref, ref, by
  <2> QED BY <2>2, <2>3
<1>14. nref \in [Rows -> Nat]
  <2>1. \A r \in Rows : nref[r] \in Nat
    <3> HIDE DEF nref
    <3> QED BY <1>10 DEF Rows
  <2>2. nref = [r \in Rows |-> nref[r]]
    OBVIOUS
  <2> HIDE DEF nref
  <2> QED BY <2>1, <2>2
<1>15. RightTable(nref, ndirect)
  <2>1. ndirect \subseteq Rows
    BY <1>1
  <2> HIDE DEF nref, ndirect
  <2> QED BY <1>9, <1>13, <1>14, <2>1 DEF RightTable, InNoLoop
<1> HIDE DEF nref, ndirect
<1> QED BY <1>11, <1>12, <1>15

------------------------------------------------------------------------------
(* Moirad: the updates that wait *)

Update == [row : Rows, on : BOOLEAN]

MoiradTypes ==
    /\ TableType(im) /\ cut \in BOOLEAN /\ sq = << >>
    /\ exec \in Seq(SUBSET Update)
    /\ inc \in [running : BOOLEAN, overdue : BOOLEAN, upd : Update \cup {NoUpdate}]
    /\ inc.upd # NoUpdate => inc.running
    /\ old \subseteq Update /\ ext \subseteq Rows /\ lost \subseteq Rows

\* A query has one update for a row.
OneEach(queue) == \A i \in DOMAIN queue : \A u, v \in queue[i] : u.row = v.row => u = v

RowsIn(updates) == {u.row : u \in updates}
Queued(queue, r) == \E i \in DOMAIN queue : r \in RowsIn(queue[i])

\* The last update in the queue for row r says b of it.
LastSays(queue, r, b) ==
    \E i \in DOMAIN queue : /\ [row |-> r, on |-> b] \in queue[i]
                            /\ \A j \in DOMAIN queue : i < j => r \notin RowsIn(queue[j])

\* The other system is, or will be, as the table is.
FollowsInv ==
    \A r \in Rows : \A b \in BOOLEAN : (b <=> r \in Present(im)) =>
       /\ Queued(exec, r) => LastSays(exec, r, b)
       /\ ~Queued(exec, r) /\ inc.upd.row = r => inc.upd.on = b
       /\ ~Queued(exec, r) /\ inc.upd.row # r =>
             r \in lost \/ (\E u \in old : u.row = r) \/ (r \in ext <=> b)

MoiradIInv == /\ MoiradTypes /\ OneEach(exec) /\ FollowsInv
              /\ ~cut => RightTable(im.ref, im.direct)

-----------------------------------------------------------------------------
\* Queues

\* No update is for no row.
LEMMA RowNotNone ==
  ASSUME NEW r \in Rows
  PROVE  r # << >>
BY DEF Rows

\* Updates are put behind those that wait.
LEMMA PutBehind ==
  ASSUME NEW q \in Seq(SUBSET Update), NEW S \in SUBSET Update
  PROVE  LET q2 == q \o <<S>>
         IN  /\ q2 \in Seq(SUBSET Update)
             /\ OneEach(q) /\ OneEach(<<S>>) => OneEach(q2)
             /\ \A r : Queued(q2, r) <=> Queued(q, r) \/ r \in RowsIn(S)
             /\ \A r, b : [row |-> r, on |-> b] \in S => LastSays(q2, r, b)
             /\ \A r, b : r \notin RowsIn(S) /\ LastSays(q, r, b) => LastSays(q2, r, b)
<1> DEFINE q2 == q \o <<S>>
           n == Len(q)
<1>1. n \in Nat /\ DOMAIN q = 1 .. n
  OBVIOUS
<1>2. /\ q2 \in Seq(SUBSET Update) /\ DOMAIN q2 = 1 .. n + 1 /\ q2[n + 1] = S
      /\ \A i \in 1 .. n : q2[i] = q[i]
  OBVIOUS
<1> HIDE DEF q2, n
<1>3. OneEach(q) /\ OneEach(<<S>>) => OneEach(q2)
  <2> SUFFICES ASSUME OneEach(q), OneEach(<<S>>), NEW i \in DOMAIN q2
               PROVE  \A u, v \in q2[i] : u.row = v.row => u = v
    BY DEF OneEach
  <2>1. CASE i = n + 1
    BY <1>2, <2>1 DEF OneEach
  <2>2. CASE i \in 1 .. n
    BY <1>1, <1>2, <2>2 DEF OneEach
  <2> QED BY <1>1, <1>2, <2>1, <2>2
<1>4. \A r : Queued(q2, r) <=> Queued(q, r) \/ r \in RowsIn(S)
  <2> SUFFICES ASSUME NEW r PROVE Queued(q2, r) <=> Queued(q, r) \/ r \in RowsIn(S)
    OBVIOUS
  <2>1. ASSUME Queued(q2, r) PROVE Queued(q, r) \/ r \in RowsIn(S)
    <3>1. PICK i \in DOMAIN q2 : r \in RowsIn(q2[i])
      BY <2>1 DEF Queued
    <3>2. i = n + 1 \/ i \in DOMAIN q
      BY <1>1, <1>2
    <3> QED BY <1>1, <1>2, <3>1, <3>2 DEF Queued
  <2>2. ASSUME Queued(q, r) PROVE Queued(q2, r)
    <3>1. PICK i \in DOMAIN q : r \in RowsIn(q[i])
      BY <2>2 DEF Queued
    <3>2. i \in DOMAIN q2 /\ q2[i] = q[i]
      BY <1>1, <1>2
    <3> QED BY <3>1, <3>2 DEF Queued
  <2>3. n + 1 \in DOMAIN q2
    BY <1>1, <1>2
  <2>4. r \in RowsIn(S) => Queued(q2, r)
    BY <1>2, <2>3 DEF Queued
  <2> QED BY <2>1, <2>2, <2>4
<1>5. \A r, b : [row |-> r, on |-> b] \in S => LastSays(q2, r, b)
  <2> SUFFICES ASSUME NEW r, NEW b, [row |-> r, on |-> b] \in S PROVE LastSays(q2, r, b)
    OBVIOUS
  <2>1. n + 1 \in DOMAIN q2 /\ [row |-> r, on |-> b] \in q2[n + 1]
    BY <1>1, <1>2
  <2>2. \A j \in DOMAIN q2 : ~(n + 1 < j)
    BY <1>1, <1>2
  <2> QED BY <2>1, <2>2 DEF LastSays
<1>6. \A r, b : r \notin RowsIn(S) /\ LastSays(q, r, b) => LastSays(q2, r, b)
  <2> SUFFICES ASSUME NEW r, NEW b, r \notin RowsIn(S), LastSays(q, r, b)
               PROVE  LastSays(q2, r, b)
    OBVIOUS
  <2>1. PICK i \in DOMAIN q : /\ [row |-> r, on |-> b] \in q[i]
                              /\ \A j \in DOMAIN q : i < j => r \notin RowsIn(q[j])
    BY DEF LastSays
  <2>2. i \in DOMAIN q2 /\ [row |-> r, on |-> b] \in q2[i]
    BY <1>1, <1>2, <2>1
  <2>3. ASSUME NEW j \in DOMAIN q2, i < j PROVE r \notin RowsIn(q2[j])
    <3>1. j = n + 1 \/ j \in DOMAIN q
      BY <1>1, <1>2
    <3> QED BY <1>1, <1>2, <2>1, <2>3, <3>1
  <2> QED BY <2>2, <2>3 DEF LastSays
<1> QED BY <1>2, <1>3, <1>4, <1>5, <1>6 DEF q2

\* What is left of the queue when one of the next updates is taken.
Rest(q, u) == IF Head(q) = {u} THEN Tail(q) ELSE [q EXCEPT ![1] = @ \ {u}]

\* The queue without one of the next updates: what is behind stays in its place, or is the
\* first now (k = 1).
LEMMA RestIs ==
  ASSUME NEW q \in Seq(SUBSET Update), q # << >>, NEW u \in Head(q)
  PROVE  \E k \in {0, 1} :
            /\ Rest(q, u) \in Seq(SUBSET Update)
            /\ DOMAIN Rest(q, u) = 1 .. Len(q) - k
            /\ \A i \in 1 .. Len(q) : i > 1 => i - k \in DOMAIN Rest(q, u)
                                               /\ Rest(q, u)[i - k] = q[i]
            /\ \A i \in DOMAIN Rest(q, u) : i + k > 1 => i + k \in DOMAIN q
                                                         /\ Rest(q, u)[i] = q[i + k]
            /\ k = 0 => Rest(q, u)[1] = q[1] \ {u}
            /\ k = 1 => q[1] = {u}
<1> DEFINE n == Len(q)
           P(k) == /\ Rest(q, u) \in Seq(SUBSET Update)
                   /\ DOMAIN Rest(q, u) = 1 .. n - k
                   /\ \A i \in 1 .. n : i > 1 => i - k \in DOMAIN Rest(q, u)
                                                 /\ Rest(q, u)[i - k] = q[i]
                   /\ \A i \in DOMAIN Rest(q, u) : i + k > 1 => i + k \in DOMAIN q
                                                               /\ Rest(q, u)[i] = q[i + k]
                   /\ k = 0 => Rest(q, u)[1] = q[1] \ {u}
                   /\ k = 1 => q[1] = {u}
<1> SUFFICES P(0) \/ P(1)
  OBVIOUS
<1>1. n \in Nat /\ n # 0 /\ DOMAIN q = 1 .. n /\ Head(q) = q[1] /\ q[1] \in SUBSET Update
  OBVIOUS
<1>2. CASE Head(q) = {u}
  <2>1. Rest(q, u) = Tail(q)
    BY <1>2 DEF Rest
  <2>2. /\ Tail(q) \in Seq(SUBSET Update) /\ Len(Tail(q)) = n - 1
        /\ \A i \in 1 .. n - 1 : Tail(q)[i] = q[i + 1]
    OBVIOUS
  <2> DEFINE t == Tail(q)
  <2>3. DOMAIN t = 1 .. n - 1
    BY <1>1, <2>2
  <2> HIDE DEF t, n
  <2>4. \A i \in 1 .. n : i > 1 => i - 1 \in DOMAIN t /\ t[i - 1] = q[i]
    BY <1>1, <2>2, <2>3 DEF t
  <2>5. \A i \in DOMAIN t : i + 1 \in DOMAIN q /\ t[i] = q[i + 1]
    BY <1>1, <2>2, <2>3 DEF t
  <2>6. P(1)
    BY <1>1, <1>2, <2>1, <2>2, <2>3, <2>4, <2>5 DEF t
  <2> QED BY <2>6
<1>3. CASE Head(q) # {u}
  <2> DEFINE t == [q EXCEPT ![1] = @ \ {u}]
  <2>1. Rest(q, u) = t
    BY <1>3 DEF Rest
  <2>2. /\ t \in Seq(SUBSET Update) /\ DOMAIN t = 1 .. n /\ t[1] = q[1] \ {u}
        /\ \A i \in 1 .. n : i > 1 => t[i] = q[i]
    BY <1>1
  <2> HIDE DEF t, n
  <2>3. \A i \in 1 .. n : i - 0 = i /\ i + 0 = i
    OBVIOUS
  <2>4. 1 .. n - 0 = 1 .. n
    BY <1>1
  <2>5. P(0)
    BY <1>1, <2>1, <2>2, <2>3, <2>4
  <2> QED BY <2>5
<1> QED BY <1>2, <1>3

\* When u is taken, the queue says of each row what it said, or u did.
LEMMA TakenFrom ==
  ASSUME NEW q \in Seq(SUBSET Update), q # << >>, NEW u \in Head(q), OneEach(q)
  PROVE  LET q2 == Rest(q, u)
         IN  /\ q2 \in Seq(SUBSET Update) /\ OneEach(q2)
             /\ u \in Update /\ Queued(q, u.row)
             /\ \A r : Queued(q2, r) => Queued(q, r)
             /\ \A r : r # u.row /\ Queued(q, r) => Queued(q2, r)
             /\ \A r, b : LastSays(q, r, b) /\ Queued(q2, r) => LastSays(q2, r, b)
             /\ \A b : LastSays(q, u.row, b) /\ ~Queued(q2, u.row) => u.on = b
<1> DEFINE q2 == Rest(q, u)
           n == Len(q)
<1>1. n \in Nat /\ n # 0 /\ DOMAIN q = 1 .. n /\ Head(q) = q[1] /\ u \in q[1] /\ u \in Update
  OBVIOUS
<1>2. PICK k \in {0, 1} :
            /\ q2 \in Seq(SUBSET Update)
            /\ DOMAIN q2 = 1 .. n - k
            /\ \A i \in 1 .. n : i > 1 => i - k \in DOMAIN q2 /\ q2[i - k] = q[i]
            /\ \A i \in DOMAIN q2 : i + k > 1 => i + k \in DOMAIN q /\ q2[i] = q[i + k]
            /\ k = 0 => q2[1] = q[1] \ {u}
            /\ k = 1 => q[1] = {u}
  BY RestIs
<1> HIDE DEF q2, n
<1>3. \A i \in DOMAIN q2 : i + k \in DOMAIN q /\ q2[i] \subseteq q[i + k]
  <2> SUFFICES ASSUME NEW i \in DOMAIN q2 PROVE i + k \in DOMAIN q /\ q2[i] \subseteq q[i + k]
    OBVIOUS
  <2>1. i \in Nat /\ i >= 1
    BY <1>1, <1>2
  <2>2. CASE i + k > 1
    BY <1>2, <2>2
  <2>3. CASE i = 1 /\ k = 0
    BY <1>1, <1>2, <2>3
  <2> QED BY <2>1, <2>2, <2>3
<1>4. OneEach(q2)
  BY <1>3 DEF OneEach
<1>5. Queued(q, u.row)
  <2>1. 1 \in DOMAIN q /\ u.row \in RowsIn(q[1])
    BY <1>1 DEF RowsIn
  <2> QED BY <2>1 DEF Queued
<1>6. \A r : Queued(q2, r) => Queued(q, r)
  <2> SUFFICES ASSUME NEW r, Queued(q2, r) PROVE Queued(q, r)
    OBVIOUS
  <2>1. PICK i \in DOMAIN q2 : r \in RowsIn(q2[i])
    BY DEF Queued
  <2>2. i + k \in DOMAIN q /\ r \in RowsIn(q[i + k])
    BY <1>3, <2>1 DEF RowsIn
  <2> QED BY <2>2 DEF Queued
\* Something other than u that is queued still is.
<1>7. ASSUME NEW i \in DOMAIN q, NEW w \in q[i], w # u \/ i > 1
      PROVE  i - k \in DOMAIN q2 /\ w \in q2[i - k]
  <2>1. i \in Nat /\ i >= 1
    BY <1>1
  <2>2. CASE i > 1
    BY <1>1, <1>2, <2>2
  <2>3. CASE i = 1
    <3>1. w # u
      BY <1>7, <2>3
    <3>2. k = 0
      BY <1>2, <2>3, <3>1
    <3>3. 1 - k = 1 /\ 1 \in DOMAIN q2
      BY <1>1, <1>2, <3>2
    <3> QED BY <1>2, <2>3, <3>1, <3>2, <3>3
  <2> QED BY <2>1, <2>2, <2>3
<1>8. \A r : r # u.row /\ Queued(q, r) => Queued(q2, r)
  <2> SUFFICES ASSUME NEW r, r # u.row, Queued(q, r) PROVE Queued(q2, r)
    OBVIOUS
  <2>1. PICK i \in DOMAIN q : r \in RowsIn(q[i])
    BY DEF Queued
  <2>2. PICK w \in q[i] : w.row = r
    BY <2>1 DEF RowsIn
  <2>3. i - k \in DOMAIN q2 /\ w \in q2[i - k]
    BY <1>7, <2>2
  <2> QED BY <2>2, <2>3 DEF Queued, RowsIn
<1>9. ASSUME NEW r, NEW b, LastSays(q, r, b)
      PROVE  /\ Queued(q2, r) => LastSays(q2, r, b)
             /\ ~Queued(q2, r) /\ r = u.row => u.on = b
  <2> DEFINE w == [row |-> r, on |-> b]
  <2>1. PICK i \in DOMAIN q : /\ w \in q[i]
                              /\ \A j \in DOMAIN q : i < j => r \notin RowsIn(q[j])
    BY <1>9 DEF LastSays
  <2>2. w.row = r /\ w.on = b
    OBVIOUS
  <2> HIDE DEF w
  <2>3. ASSUME w # u \/ i > 1 PROVE Queued(q2, r) /\ LastSays(q2, r, b)
    <3>1. i - k \in DOMAIN q2 /\ w \in q2[i - k]
      BY <1>7, <2>1, <2>3
    <3>2. ASSUME NEW j \in DOMAIN q2, i - k < j PROVE r \notin RowsIn(q2[j])
      <4>1. j + k \in DOMAIN q /\ q2[j] \subseteq q[j + k] /\ i < j + k
        BY <1>1, <1>2, <1>3, <3>2
      <4> QED BY <2>1, <4>1 DEF RowsIn
    <3>3. LastSays(q2, r, b)
      BY <3>1, <3>2 DEF LastSays, w
    <3> QED BY <2>2, <3>1, <3>3 DEF Queued, RowsIn
  <2>4. ASSUME w = u, ~(i > 1) PROVE ~Queued(q2, r)
    <3>1. i = 1
      BY <1>1, <2>4
    <3> SUFFICES ASSUME NEW j \in DOMAIN q2, NEW z \in q2[j], z.row = r PROVE FALSE
      BY DEF Queued, RowsIn
    <3>2. j + k \in DOMAIN q /\ z \in q[j + k]
      BY <1>3
    <3>3. r \in RowsIn(q[j + k])
      BY <3>2 DEF RowsIn
    <3>4. j \in Nat /\ j >= 1 /\ k \in Nat
      BY <1>1, <1>2
    <3>5. j = 1 /\ k = 0
      BY <2>1, <3>1, <3>2, <3>3, <3>4
    <3>6. z \in q[1] /\ z # u
      BY <1>2, <3>2, <3>5
    <3> QED BY <1>1, <2>2, <2>4, <3>1, <3>6 DEF OneEach
  <2> QED BY <2>2, <2>3, <2>4
<1> QED BY <1>1, <1>2, <1>4, <1>5, <1>6, <1>8, <1>9 DEF q2

-----------------------------------------------------------------------------
\* Steps

\* An update is its row and whether it comes or goes.
LEMMA UpdateIs ==
  ASSUME NEW u \in Update, NEW b \in BOOLEAN, u.on <=> b
  PROVE  u = [row |-> u.row, on |-> b]
<1>1. u = [row |-> u.row, on |-> u.on] /\ u.on \in BOOLEAN
  BY DEF Update
<1>2. u.on = b
  <2>1. CASE b = TRUE
    BY <1>1, <2>1
  <2>2. CASE b = FALSE
    BY <1>1, <2>2
  <2> QED BY <2>1, <2>2
<1> QED BY <1>1, <1>2

\* A query that tells the other system what it changes.
LEMMA CommitKeeps ==
  ASSUME MoiradIInv, NEW new, NEW updates \in SUBSET Update, Commit(new, updates),
         TableType(new), cut' \in BOOLEAN, ~cut' => RightTable(new.ref, new.direct),
         \A u \in updates : u.on <=> u.row \in Present(new),
         \A r \in Rows \ RowsIn(updates) : r \in Present(new) <=> r \in Present(im)
  PROVE  MoiradIInv'
<1>1. /\ im' = new /\ sq' = << >> /\ sq = << >> /\ exec \in Seq(SUBSET Update)
      /\ exec' = exec \o sq \o (IF updates = {} THEN << >> ELSE <<updates>>)
      /\ inc' = inc /\ old' = old /\ ext' = ext /\ lost' = lost
  BY DEF Commit, MoiradIInv, MoiradTypes
<1>2. \A u \in updates : \A b \in BOOLEAN : (b <=> u.row \in Present(new)) =>
         u = [row |-> u.row, on |-> b]
  BY UpdateIs
<1>3. OneEach(<<updates>>)
  <2> SUFFICES ASSUME NEW u \in updates, NEW v \in updates, u.row = v.row PROVE u = v
    BY DEF OneEach
  <2>1. PICK b \in BOOLEAN : b <=> u.row \in Present(new)
    <3>1. CASE u.row \in Present(new)
      BY <3>1
    <3>2. CASE u.row \notin Present(new)
      BY <3>2
    <3> QED BY <3>1, <3>2
  <2>2. u = [row |-> u.row, on |-> b] /\ v = [row |-> u.row, on |-> b]
    BY <1>2, <2>1
  <2> QED BY <2>2
<1>4. exec' = IF updates = {} THEN exec ELSE exec \o <<updates>>
  <2>1. exec \o << >> = exec
    BY <1>1
  <2> QED BY <1>1, <2>1
<1>5. /\ exec' \in Seq(SUBSET Update) /\ OneEach(exec')
      /\ \A r : Queued(exec', r) <=> Queued(exec, r) \/ r \in RowsIn(updates)
      /\ \A r, b : [row |-> r, on |-> b] \in updates => LastSays(exec', r, b)
      /\ \A r, b : r \notin RowsIn(updates) /\ LastSays(exec, r, b) => LastSays(exec', r, b)
  <2>1. OneEach(exec)
    BY DEF MoiradIInv
  <2>2. CASE updates = {}
    <3>1. exec' = exec /\ \A r : r \notin RowsIn(updates)
      BY <1>4, <2>2 DEF RowsIn
    <3> QED BY <1>1, <2>1, <2>2, <3>1
  <2>3. CASE updates # {}
    <3>1. exec' = exec \o <<updates>>
      BY <1>4, <2>3
    <3> QED BY <1>1, <1>3, <2>1, <3>1, PutBehind
  <2> QED BY <2>2, <2>3
<1>6. MoiradTypes'
  BY <1>1, <1>5 DEF MoiradIInv, MoiradTypes
<1>7. ASSUME NEW r \in Rows, NEW b \in BOOLEAN, b <=> r \in Present(new)
      PROVE  /\ Queued(exec', r) => LastSays(exec', r, b)
             /\ ~Queued(exec', r) /\ inc.upd.row = r => inc.upd.on = b
             /\ ~Queued(exec', r) /\ inc.upd.row # r =>
                   r \in lost \/ (\E u \in old : u.row = r) \/ (r \in ext <=> b)
  <2>1. CASE r \in RowsIn(updates)
    <3>1. PICK u \in updates : u.row = r
      BY <2>1 DEF RowsIn
    <3>2. [row |-> r, on |-> b] \in updates
      BY <1>2, <1>7, <3>1
    <3> QED BY <1>5, <2>1, <3>2
  <2>2. CASE r \notin RowsIn(updates)
    <3>1. b <=> r \in Present(im)
      BY <1>7, <2>2
    <3>2. /\ Queued(exec, r) => LastSays(exec, r, b)
          /\ ~Queued(exec, r) /\ inc.upd.row = r => inc.upd.on = b
          /\ ~Queued(exec, r) /\ inc.upd.row # r =>
                   r \in lost \/ (\E u \in old : u.row = r) \/ (r \in ext <=> b)
      BY <3>1 DEF MoiradIInv, FollowsInv
    <3>3. Queued(exec', r) <=> Queued(exec, r)
      BY <1>5, <2>2
    <3> QED BY <1>5, <2>2, <3>2, <3>3
  <2> QED BY <2>1, <2>2
<1>8. FollowsInv'
  BY <1>1, <1>7 DEF FollowsInv
<1>9. (~cut => RightTable(im.ref, im.direct))'
  BY <1>1
<1> QED BY <1>5, <1>6, <1>8, <1>9 DEF MoiradIInv

\* A query's updates are for rows that changed, and say how they are now.
LEMMA UpdatesAre ==
  ASSUME NEW new, NEW u \in Updates(new)
  PROVE  u \in Update /\ (u.on <=> u.row \in Present(new))
<1>1. CASE \E r \in Present(new) \ Present(im) : u = [row |-> r, on |-> TRUE]
  BY <1>1 DEF Update, Present
<1>2. CASE \E r \in Present(im) \ Present(new) : u = [row |-> r, on |-> FALSE]
  BY <1>2 DEF Update, Present
<1> QED BY <1>1, <1>2 DEF Updates

\* A row without an update has not come or gone.
LEMMA UpdatesDo ==
  ASSUME NEW new, NEW r \in Rows \ RowsIn(Updates(new))
  PROVE  r \in Present(new) <=> r \in Present(im)
<1>1. ASSUME r \in Present(new), r \notin Present(im) PROVE FALSE
  <2>1. [row |-> r, on |-> TRUE] \in Updates(new)
    BY <1>1 DEF Updates
  <2> QED BY <2>1 DEF RowsIn
<1>2. ASSUME r \in Present(im), r \notin Present(new) PROVE FALSE
  <2>1. [row |-> r, on |-> FALSE] \in Updates(new)
    BY <1>2 DEF Updates
  <2> QED BY <2>1 DEF RowsIn
<1> QED BY <1>1, <1>2

\* add_member_to_list, and what it tells the other system.
LEMMA AddMemberKeeps ==
  ASSUME MoiradIInv, NEW l \in Lists, NEW m \in Members, AddMemberToList(l, m)
  PROVE  MoiradIInv'
<1> DEFINE new == AddMember(im, l, m)
           updates == Updates(new)
<1>1. CanAdd(im, l, m) /\ Commit(new, updates) /\ cut' = cut
  BY DEF AddMemberToList
<1>2. TableType(im) /\ cut \in BOOLEAN
  BY DEF MoiradIInv, MoiradTypes
<1>3. TableType(new)
  BY <1>2, AddType
<1>4. ~cut' => RightTable(new.ref, new.direct)
  BY <1>1, AddRight DEF MoiradIInv
<1>5. /\ updates \in SUBSET Update /\ \A u \in updates : u.on <=> u.row \in Present(new)
      /\ \A r \in Rows \ RowsIn(updates) : r \in Present(new) <=> r \in Present(im)
  BY UpdatesAre, UpdatesDo
<1> HIDE DEF new, updates
<1> QED BY <1>1, <1>2, <1>3, <1>4, <1>5, CommitKeeps

\* delete_member_from_list, with all the rows or some of them.
LEMMA DeleteMemberKeeps ==
  ASSUME MoiradIInv, NEW l \in Lists, NEW m \in Members, DeleteMemberFromList(l, m)
  PROVE  MoiradIInv'
<1>1. PICK D \in Fetched(im, m) :
         /\ CanDelete(im, l, m, D)
         /\ Commit(DeleteMember(im, l, m, D), Updates(DeleteMember(im, l, m, D)))
         /\ cut' = (cut \/ D # Descendants(im, m))
  BY DEF DeleteMemberFromList
<1> DEFINE new == DeleteMember(im, l, m, D)
           updates == Updates(new)
<1>2. TableType(im) /\ cut \in BOOLEAN
  BY DEF MoiradIInv, MoiradTypes
<1>3. D \in SUBSET Descendants(im, m)
  BY DEF Fetched, kSubset
<1>4. TableType(new)
  BY <1>2, <1>3, DeleteType
<1>5. ~cut' => RightTable(new.ref, new.direct)
  <2> SUFFICES ASSUME ~cut' PROVE RightTable(new.ref, new.direct)
    OBVIOUS
  <2>1. ~cut /\ D = Descendants(im, m)
    BY <1>1
  <2>2. RightTable(im.ref, im.direct) /\ <<l, m>> \in im.direct
    BY <1>1, <2>1 DEF MoiradIInv, CanDelete
  <2> QED BY <2>1, <2>2, DeleteRight
<1>6. /\ updates \in SUBSET Update /\ \A u \in updates : u.on <=> u.row \in Present(new)
      /\ \A r \in Rows \ RowsIn(updates) : r \in Present(new) <=> r \in Present(im)
  BY UpdatesAre, UpdatesDo
<1>7. cut' \in BOOLEAN /\ Commit(new, updates)
  BY <1>1
<1> HIDE DEF new, updates
<1> QED BY <1>4, <1>5, <1>6, <1>7, CommitKeeps

\* A row that is there is told to the other system again.
LEMMA TagMemberKeeps ==
  ASSUME MoiradIInv, NEW l \in Lists, NEW m \in Members, TagMemberOfList(l, m)
  PROVE  MoiradIInv'
<1> DEFINE u == [row |-> <<l, m>>, on |-> TRUE]
<1>1. <<l, m>> \in Present(im) /\ Commit(im, {u}) /\ cut' = cut
  BY DEF TagMemberOfList
<1>2. TableType(im) /\ cut \in BOOLEAN /\ (~cut => RightTable(im.ref, im.direct))
  BY DEF MoiradIInv, MoiradTypes
<1>3. u \in Update /\ u.row = <<l, m>> /\ u.on = TRUE
  BY RowIn DEF Update
<1>4. {u} \in SUBSET Update /\ \A w \in {u} : w.on <=> w.row \in Present(im)
  BY <1>1, <1>3
<1> HIDE DEF u
<1> QED BY <1>1, <1>2, <1>4, CommitKeeps

\* The part of the invariant that is about one row.
FollowsAt(r, b) ==
    /\ Queued(exec, r) => LastSays(exec, r, b)
    /\ ~Queued(exec, r) /\ inc.upd.row = r => inc.upd.on = b
    /\ ~Queued(exec, r) /\ inc.upd.row # r =>
          r \in lost \/ (\E u \in old : u.row = r) \/ (r \in ext <=> b)

\* Steps of the programs do not change the table.
LEMMA TableKept ==
  ASSUME MoiradIInv, UNCHANGED <<im, cut, sq>>, MoiradTypes', OneEach(exec'),
         \A r \in Rows, b \in BOOLEAN : FollowsAt(r, b) => FollowsAt(r, b)'
  PROVE  MoiradIInv'
<1>1. FollowsInv'
  BY DEF MoiradIInv, FollowsInv, FollowsAt
<1>2. (~cut => RightTable(im.ref, im.direct))'
  BY DEF MoiradIInv
<1> QED BY <1>1, <1>2 DEF MoiradIInv

\* NoUpdate is no update, and for no row.
LEMMA NothingIsNone == NoUpdate \notin Update /\ \A r \in Rows : NoUpdate.row # r
BY RowNotNone DEF NoUpdate, Update

\* A program that is forgotten is one of the old ones.
LEMMA ForgottenIs ==
  ASSUME MoiradTypes
  PROVE  /\ Forgotten \subseteq Update /\ old \subseteq Forgotten
         /\ \A r \in Rows : inc.upd.row = r => \E u \in Forgotten : u.row = r
BY NothingIsNone DEF MoiradTypes, Forgotten

\* An update that is taken is carried out, or lost, instead of what the queue had of it.
LEMMA TakenKeeps ==
  ASSUME MoiradIInv, NEW u, Removed(u)
  PROVE  /\ u \in Update /\ exec' \in Seq(SUBSET Update) /\ OneEach(exec')
         /\ \A r \in Rows, b \in BOOLEAN : FollowsAt(r, b) =>
               /\ Queued(exec', r) => LastSays(exec', r, b)
               /\ r # u.row => (Queued(exec', r) <=> Queued(exec, r))
               /\ r = u.row /\ ~Queued(exec', r) => u.on = b
<1>1. exec \in Seq(SUBSET Update) /\ OneEach(exec) /\ exec # << >> /\ u \in Head(exec)
      /\ exec' = Rest(exec, u)
  BY DEF MoiradIInv, MoiradTypes, Removed, Rest
<1> DEFINE q == exec
           q2 == exec'
<1>2. /\ q2 \in Seq(SUBSET Update) /\ OneEach(q2)
      /\ u \in Update /\ Queued(q, u.row)
      /\ \A r : Queued(q2, r) => Queued(q, r)
      /\ \A r : r # u.row /\ Queued(q, r) => Queued(q2, r)
      /\ \A r, b : LastSays(q, r, b) /\ Queued(q2, r) => LastSays(q2, r, b)
      /\ \A b : LastSays(q, u.row, b) /\ ~Queued(q2, u.row) => u.on = b
  BY <1>1, TakenFrom
<1> QED BY <1>2 DEF FollowsAt

\* next_incremental starts a program for the next update.
LEMMA StartUpdateKeeps ==
  ASSUME MoiradIInv, NEW u, StartUpdate(u)
  PROVE  MoiradIInv'
<1>1. /\ Removed(u) /\ UNCHANGED <<im, cut, sq>> /\ ext' = ext /\ lost' = lost
      /\ inc' = [running |-> TRUE, overdue |-> FALSE, upd |-> u] /\ old' = Forgotten
  BY DEF StartUpdate
<1>2. MoiradTypes
  BY DEF MoiradIInv
<1>3. /\ u \in Update /\ exec' \in Seq(SUBSET Update) /\ OneEach(exec')
      /\ \A r \in Rows, b \in BOOLEAN : FollowsAt(r, b) =>
            /\ Queued(exec', r) => LastSays(exec', r, b)
            /\ r # u.row => (Queued(exec', r) <=> Queued(exec, r))
            /\ r = u.row /\ ~Queued(exec', r) => u.on = b
  BY <1>1, TakenKeeps
<1>4. inc'.upd = u
  BY <1>1
<1>5. MoiradTypes'
  BY <1>1, <1>2, <1>3, ForgottenIs DEF MoiradTypes
<1>6. ASSUME NEW r \in Rows, NEW b \in BOOLEAN, FollowsAt(r, b) PROVE FollowsAt(r, b)'
  <2>1. /\ Queued(exec', r) => LastSays(exec', r, b)
        /\ r # u.row => (Queued(exec', r) <=> Queued(exec, r))
        /\ r = u.row /\ ~Queued(exec', r) => u.on = b
    BY <1>3, <1>6
  <2>2. ~Queued(exec', r) /\ u.row # r =>
          r \in lost' \/ (\E w \in old' : w.row = r) \/ (r \in ext' <=> b)
    <3>1. CASE inc.upd.row = r
      <4>1. \E w \in old' : w.row = r
        BY <1>1, <1>2, <3>1, ForgottenIs
      <4> QED BY <4>1
    <3>2. CASE inc.upd.row # r
      BY <1>1, <1>2, <1>6, <2>1, <3>2, ForgottenIs DEF FollowsAt
    <3> QED BY <3>1, <3>2
  <2> QED BY <1>4, <2>1, <2>2 DEF FollowsAt
<1> QED BY <1>1, <1>3, <1>5, <1>6, TableKept

\* vfork fails, and the update is lost.
LEMMA StartFailsKeeps ==
  ASSUME MoiradIInv, NEW u, StartFails(u)
  PROVE  MoiradIInv'
<1>1. /\ Removed(u) /\ UNCHANGED <<im, cut, sq>> /\ ext' = ext /\ lost' = lost \cup {u.row}
      /\ inc' = [inc EXCEPT !.upd = NoUpdate] /\ old' = Forgotten
  BY DEF StartFails
<1>2. MoiradTypes
  BY DEF MoiradIInv
<1>3. /\ u \in Update /\ exec' \in Seq(SUBSET Update) /\ OneEach(exec')
      /\ \A r \in Rows, b \in BOOLEAN : FollowsAt(r, b) =>
            /\ Queued(exec', r) => LastSays(exec', r, b)
            /\ r # u.row => (Queued(exec', r) <=> Queued(exec, r))
            /\ r = u.row /\ ~Queued(exec', r) => u.on = b
  BY <1>1, TakenKeeps
<1>4. /\ inc'.upd = NoUpdate
      /\ inc' \in [running : BOOLEAN, overdue : BOOLEAN, upd : Update \cup {NoUpdate}]
  BY <1>1, <1>2 DEF MoiradTypes
<1>5. u.row \in Rows
  BY <1>3 DEF Update
<1>6. MoiradTypes'
  BY <1>1, <1>2, <1>3, <1>4, <1>5, ForgottenIs DEF MoiradTypes
<1>7. ASSUME NEW r \in Rows, NEW b \in BOOLEAN, FollowsAt(r, b) PROVE FollowsAt(r, b)'
  <2>1. /\ Queued(exec', r) => LastSays(exec', r, b)
        /\ r # u.row => (Queued(exec', r) <=> Queued(exec, r))
    BY <1>3, <1>7
  <2>2. inc'.upd.row # r
    BY <1>4, NothingIsNone
  <2>3. ~Queued(exec', r) => r \in lost' \/ (\E w \in old' : w.row = r) \/ (r \in ext' <=> b)
    <3>1. CASE r = u.row
      BY <1>1, <3>1
    <3>2. CASE inc.upd.row = r
      <4>1. \E w \in old' : w.row = r
        BY <1>1, <1>2, <3>2, ForgottenIs
      <4> QED BY <4>1
    <3>3. CASE inc.upd.row # r /\ r # u.row
      BY <1>1, <1>2, <1>7, <2>1, <3>3, ForgottenIs DEF FollowsAt
    <3> QED BY <3>1, <3>2, <3>3
  <2> QED BY <2>1, <2>2, <2>3 DEF FollowsAt
<1> QED BY <1>1, <1>3, <1>6, <1>7, TableKept

\* reapchild finds the update carried out.
LEMMA CarriedKeeps ==
  ASSUME MoiradIInv, UpdateCarried
  PROVE  MoiradIInv'
<1> DEFINE u == inc.upd
<1>1. /\ u # NoUpdate /\ UNCHANGED <<im, cut, sq, exec, old>> /\ inc' = NotRunning
      /\ ext' = SetTo(ext, u) /\ lost' = lost \ {u.row}
  BY DEF UpdateCarried
<1>2. MoiradTypes
  BY DEF MoiradIInv
<1>3. u \in Update /\ u.row \in Rows
  BY <1>1, <1>2 DEF MoiradTypes, Update
<1>4. /\ inc'.upd = NoUpdate
      /\ inc' \in [running : BOOLEAN, overdue : BOOLEAN, upd : Update \cup {NoUpdate}]
  BY <1>1 DEF NotRunning
<1> HIDE DEF u
<1>5. ext' = (IF u.on THEN ext \cup {u.row} ELSE ext \ {u.row})
  BY <1>1 DEF SetTo
<1>6. ext' \subseteq Rows
  BY <1>2, <1>3, <1>5 DEF MoiradTypes
<1>7. MoiradTypes'
  BY <1>1, <1>2, <1>4, <1>6 DEF MoiradTypes
<1>8. ASSUME NEW r \in Rows, NEW b \in BOOLEAN, FollowsAt(r, b) PROVE FollowsAt(r, b)'
  <2>1. inc'.upd.row # r
    BY <1>4, NothingIsNone
  <2>2. CASE r # u.row
    <3>1. (r \in ext' <=> r \in ext) /\ (r \in lost' <=> r \in lost)
      BY <1>1, <1>5, <2>2
    <3> QED BY <1>1, <1>8, <2>1, <2>2, <3>1 DEF FollowsAt, u
  <2>3. CASE r = u.row
    <3>1. ~Queued(exec, r) => (r \in ext' <=> b)
      <4> SUFFICES ASSUME ~Queued(exec, r) PROVE r \in ext' <=> b
        OBVIOUS
      <4>1. u.on = b
        BY <1>8, <2>3 DEF FollowsAt, u
      <4>2. CASE b = TRUE
        BY <1>5, <2>3, <4>1, <4>2
      <4>3. CASE b = FALSE
        BY <1>5, <2>3, <4>1, <4>3
      <4> QED BY <4>2, <4>3
    <3> QED BY <1>1, <1>8, <2>1, <3>1 DEF FollowsAt
  <2> QED BY <2>2, <2>3
<1>9. OneEach(exec')
  BY <1>1 DEF MoiradIInv
<1> QED BY <1>1, <1>7, <1>8, <1>9, TableKept

\* reapchild finds that it was not.
LEMMA FailedKeeps ==
  ASSUME MoiradIInv, UpdateFailed
  PROVE  MoiradIInv'
<1> DEFINE u == inc.upd
<1>1. /\ u # NoUpdate /\ UNCHANGED <<im, cut, sq, exec, old, ext>> /\ inc' = NotRunning
      /\ lost' = lost \cup {u.row}
  BY DEF UpdateFailed
<1>2. MoiradTypes
  BY DEF MoiradIInv
<1>3. u \in Update /\ u.row \in Rows
  BY <1>1, <1>2 DEF MoiradTypes, Update
<1>4. /\ inc'.upd = NoUpdate
      /\ inc' \in [running : BOOLEAN, overdue : BOOLEAN, upd : Update \cup {NoUpdate}]
  BY <1>1 DEF NotRunning
<1> HIDE DEF u
<1>5. MoiradTypes'
  BY <1>1, <1>2, <1>3, <1>4 DEF MoiradTypes
<1>6. ASSUME NEW r \in Rows, NEW b \in BOOLEAN, FollowsAt(r, b) PROVE FollowsAt(r, b)'
  <2>1. inc'.upd.row # r
    BY <1>4, NothingIsNone
  <2>2. CASE r # u.row
    BY <1>1, <1>6, <2>1, <2>2 DEF FollowsAt, u
  <2>3. CASE r = u.row
    BY <1>1, <1>6, <2>1, <2>3 DEF FollowsAt
  <2> QED BY <2>2, <2>3
<1>7. OneEach(exec')
  BY <1>1 DEF MoiradIInv
<1> QED BY <1>1, <1>5, <1>6, <1>7, TableKept

\* INC_TIMEOUT passes.
LEMMA OverdueKeeps ==
  ASSUME MoiradIInv, Overdue
  PROVE  MoiradIInv'
<1>1. /\ UNCHANGED <<im, cut, sq, exec, old, ext, lost>> /\ inc' = [inc EXCEPT !.overdue = TRUE]
  BY DEF Overdue
<1>2. MoiradTypes
  BY DEF MoiradIInv
<1>3. /\ inc'.upd = inc.upd /\ inc'.running = inc.running
      /\ inc' \in [running : BOOLEAN, overdue : BOOLEAN, upd : Update \cup {NoUpdate}]
  BY <1>1, <1>2 DEF MoiradTypes
<1>4. MoiradTypes'
  BY <1>1, <1>2, <1>3 DEF MoiradTypes
<1>5. \A r \in Rows, b \in BOOLEAN : FollowsAt(r, b) => FollowsAt(r, b)'
  BY <1>1, <1>3 DEF FollowsAt
<1>6. OneEach(exec')
  BY <1>1 DEF MoiradIInv
<1> QED BY <1>1, <1>4, <1>5, <1>6, TableKept

\* A forgotten program ends, early or late.
LEMMA LateKeeps ==
  ASSUME MoiradIInv, NEW u \in old, NEW done \in BOOLEAN, Late(u, done)
  PROVE  MoiradIInv'
<1>1. /\ UNCHANGED <<im, cut, sq, exec, inc>> /\ old' = old \ {u} /\ lost' = lost \cup {u.row}
      /\ ext' = IF done THEN SetTo(ext, u) ELSE ext
  BY DEF Late
<1>2. MoiradTypes
  BY DEF MoiradIInv
<1>3. u \in Update /\ u.row \in Rows
  BY <1>2 DEF MoiradTypes, Update
<1>4. ext' \subseteq Rows /\ \A r : r # u.row => (r \in ext' <=> r \in ext)
  BY <1>1, <1>2, <1>3 DEF MoiradTypes, SetTo
<1>5. MoiradTypes'
  BY <1>1, <1>2, <1>3, <1>4 DEF MoiradTypes
<1>6. ASSUME NEW r \in Rows, NEW b \in BOOLEAN, FollowsAt(r, b) PROVE FollowsAt(r, b)'
  <2>1. CASE r # u.row
    <3>1. (\E w \in old : w.row = r) => \E w \in old' : w.row = r
      BY <1>1, <2>1
    <3> QED BY <1>1, <1>4, <1>6, <2>1, <3>1 DEF FollowsAt
  <2>2. CASE r = u.row
    BY <1>1, <1>6, <2>2 DEF FollowsAt
  <2> QED BY <2>1, <2>2
<1>7. OneEach(exec')
  BY <1>1 DEF MoiradIInv
<1> QED BY <1>1, <1>5, <1>6, <1>7, TableKept

\* The server starts again, without the updates that waited.
LEMMA RestartKeeps ==
  ASSUME MoiradIInv, Restart
  PROVE  MoiradIInv'
<1>1. /\ im' = im /\ cut' = cut /\ ext' = ext /\ sq' = << >> /\ exec' = << >>
      /\ inc' = NotRunning /\ old' = Forgotten /\ lost' = lost \cup RowsOf(exec)
  BY DEF Restart
<1>2. MoiradTypes
  BY DEF MoiradIInv
<1>3. /\ inc'.upd = NoUpdate
      /\ inc' \in [running : BOOLEAN, overdue : BOOLEAN, upd : Update \cup {NoUpdate}]
  BY <1>1 DEF NotRunning
<1>4. /\ exec' \in Seq(SUBSET Update) /\ OneEach(exec') /\ \A r : ~Queued(exec', r)
  BY <1>1 DEF OneEach, Queued
<1>5. exec \in Seq(SUBSET Update) /\ sq = << >>
  BY <1>2 DEF MoiradTypes
<1>6. \A r : Queued(exec, r) => r \in RowsOf(exec)
  BY <1>5 DEF Queued, RowsIn, RowsOf, ToSet
<1>7. RowsOf(exec) \subseteq Rows
  <2>1. \A i \in DOMAIN exec : exec[i] \subseteq Update
    BY <1>5
  <2> QED BY <2>1 DEF RowsOf, ToSet, Update
<1>8. MoiradTypes'
  BY <1>1, <1>2, <1>3, <1>4, <1>7, ForgottenIs DEF MoiradTypes
<1>9. ASSUME NEW r \in Rows, NEW b \in BOOLEAN, FollowsAt(r, b) PROVE FollowsAt(r, b)'
  <2>1. inc'.upd.row # r
    BY <1>3, NothingIsNone
  <2>2. r \in lost' \/ (\E w \in old' : w.row = r) \/ (r \in ext' <=> b)
    <3>1. CASE Queued(exec, r)
      BY <1>1, <1>6, <3>1
    <3>2. CASE inc.upd.row = r
      <4>1. \E w \in old' : w.row = r
        BY <1>1, <1>2, <3>2, ForgottenIs
      <4> QED BY <4>1
    <3>3. CASE ~Queued(exec, r) /\ inc.upd.row # r
      BY <1>1, <1>2, <1>9, <3>3, ForgottenIs DEF FollowsAt
    <3> QED BY <3>1, <3>2, <3>3
  <2> QED BY <1>4, <2>1, <2>2 DEF FollowsAt
<1>10. UNCHANGED <<im, cut, sq>>
  BY <1>1, <1>5
<1> QED BY <1>4, <1>8, <1>9, <1>10, TableKept

\* Nothing changes but the budgets.
LEMMA MoiradStutters ==
  ASSUME MoiradIInv, UNCHANGED <<im, cut, sq, exec, inc, old, ext, lost>>
  PROVE  MoiradIInv'
BY DEF MoiradIInv, MoiradTypes, FollowsInv

\* The table starts out empty, and nothing waits.
LEMMA MoiradStarts == MoiradInit => MoiradIInv
<1> SUFFICES ASSUME MoiradInit PROVE MoiradIInv
  OBVIOUS
<1>1. /\ im = NoRows /\ cut = FALSE /\ sq = << >> /\ exec = << >> /\ inc = NotRunning
      /\ old = {} /\ ext = {} /\ lost = {}
  BY DEF MoiradInit
<1>2. im.ref = [r \in Rows |-> 0] /\ im.direct = {} /\ Present(im) = {}
  BY <1>1 DEF NoRows, Present
<1>3. MoiradTypes
  <2>1. TableType(im)
    BY <1>2 DEF TableType
  <2>2. inc \in [running : BOOLEAN, overdue : BOOLEAN, upd : Update \cup {NoUpdate}]
        /\ inc.upd = NoUpdate
    BY <1>1 DEF NotRunning
  <2>3. << >> \in Seq(SUBSET Update)
    OBVIOUS
  <2>4. /\ sq = << >> /\ exec \in Seq(SUBSET Update) /\ cut \in BOOLEAN
        /\ old = {} /\ ext = {} /\ lost = {}
    BY <1>1, <2>3
  <2> QED BY <2>1, <2>2, <2>4 DEF MoiradTypes
<1>4. OneEach(exec) /\ \A r : ~Queued(exec, r)
  BY <1>1 DEF OneEach, Queued
<1>5. inc.upd = NoUpdate
  BY <1>1 DEF NotRunning
<1>6. FollowsInv
  BY <1>1, <1>2, <1>4, <1>5, NothingIsNone DEF FollowsInv
<1>7. RightTable(im.ref, im.direct)
  <2> DEFINE ref == im.ref
             direct == im.direct
  <2>1. ASSUME NEW a \in Lists, NEW d \in Members
        PROVE  ref[<<a, d>>] = Itself(direct, a, d)
                               + SumFunctionOnSet(Via(ref, d), Within(direct, a))
    <3>1. Within(direct, a) = {} /\ Itself(direct, a, d) = 0 /\ ref[<<a, d>>] = 0
      BY <1>2, RowIn DEF Within, Itself
    <3>2. IsFiniteSet({})
      BY FS_EmptySet
    <3>3. SumFunctionOnSet(Via(ref, d), {}) = 0
      BY <3>2, SumStep
    <3> QED BY <3>1, <3>3
  <2>2. \A a \in Lists : ref[<<a, a>>] = 0
    BY <1>2, RowIn DEF Members
  <2> QED BY <1>2, <2>1, <2>2 DEF RightTable, CountsWays, InNoLoop
<1> QED BY <1>3, <1>4, <1>6, <1>7 DEF MoiradIInv

\* Every query and every step of the programs keeps the invariant.
LEMMA MoiradStep == MoiradIInv /\ [MoiradNext]_moiradVars => MoiradIInv'
<1> SUFFICES ASSUME MoiradIInv, [MoiradNext]_moiradVars PROVE MoiradIInv'
  OBVIOUS
<1>1. ASSUME NEW l \in Lists, NEW m \in Members, AddMemberToList(l, m) PROVE MoiradIInv'
  BY <1>1, AddMemberKeeps
<1>2. ASSUME NEW l \in Lists, NEW m \in Members, DeleteMemberFromList(l, m) PROVE MoiradIInv'
  BY <1>2, DeleteMemberKeeps
<1>3. ASSUME NEW l \in Lists, NEW m \in Members, TagMemberOfList(l, m) PROVE MoiradIInv'
  BY <1>3, TagMemberKeeps
<1>4. ASSUME NEW l \in Lists, NEW m \in Members, QueryFails(l, m) PROVE MoiradIInv'
  <2>1. sq = << >>
    BY DEF MoiradIInv, MoiradTypes
  <2> QED BY <1>4, <2>1, MoiradStutters DEF QueryFails
<1>5. CASE UpdateCarried
  BY <1>5, CarriedKeeps
<1>6. CASE UpdateFailed
  BY <1>6, FailedKeeps
<1>7. ASSUME NEW u \in old, NEW done \in BOOLEAN, Late(u, done) PROVE MoiradIInv'
  BY <1>7, LateKeeps
<1>8. ASSUME NEW u, StartUpdate(u) PROVE MoiradIInv'
  BY <1>8, StartUpdateKeeps
<1>9. ASSUME NEW u, StartFails(u) PROVE MoiradIInv'
  BY <1>9, StartFailsKeeps
<1>10. CASE Overdue
  BY <1>10, OverdueKeeps
<1>11. CASE Restart
  BY <1>11, RestartKeeps
<1>12. CASE UNCHANGED moiradVars
  BY <1>12, MoiradStutters DEF moiradVars
<1> QED
  BY <1>1, <1>2, <1>3, <1>4, <1>5, <1>6, <1>7, <1>8, <1>9, <1>10, <1>11, <1>12
     DEF MoiradNext, Queries, Programs, Starts

\* The inductive invariant holds whatever queries are made and whatever programs fail.
THEOREM MoiradInvariance == MoiradSpec => []MoiradIInv
<1> QED BY MoiradStarts, MoiradStep, PTL DEF MoiradSpec

\* What Moirad keeps has its type, and no query leaves an update in incremental_sq.
THEOREM MoiradTypeCorrect == MoiradSpec => []MoiradTypeOK
<1>1. MoiradIInv => MoiradTypeOK
  <2> SUFFICES ASSUME MoiradIInv PROVE MoiradTypeOK
    OBVIOUS
  <2>1. MoiradTypes
    BY DEF MoiradIInv
  <2>2. exec \in Seq(SUBSET Update) /\ sq \o exec = exec
    BY <2>1 DEF MoiradTypes
  <2>3. UNION ToSet(exec) \subseteq Update
    BY <2>2 DEF ToSet
  <2>4. \A u \in (UNION ToSet(sq \o exec)) \cup old : u.row \in Rows /\ u.on \in BOOLEAN
    <3>1. \A u \in Update : u.row \in Rows /\ u.on \in BOOLEAN
      BY DEF Update
    <3>2. (UNION ToSet(sq \o exec)) \cup old \subseteq Update
      <4>1. old \subseteq Update
        BY <2>1 DEF MoiradTypes
      <4>2. UNION ToSet(sq \o exec) = UNION ToSet(exec)
        BY <2>2, Zenon
      <4> QED BY <4>1, <4>2, <2>3, Zenon
    <3> QED BY <3>1, <3>2
  <2>5. inc.upd # NoUpdate => inc.running /\ inc.upd.row \in Rows
    BY <2>1 DEF MoiradTypes, Update
  <2> QED BY <2>1, <2>4, <2>5 DEF MoiradTypeOK, MoiradTypes, TableType
<1> QED BY <1>1, MoiradInvariance, PTL

\* The queries flatten lists as they go: the table counts the ways over its direct rows
\* after any adds and deletes, unless a delete has passed over rows.
THEOREM AlwaysFlattened == MoiradSpec => []Flattened
<1>1. MoiradIInv => Flattened
  BY RightIsFlattened DEF MoiradIInv, Flattened
<1> QED BY <1>1, MoiradInvariance, PTL

\* The other system is as the table is, or an update that waits or runs makes it so, or
\* it is known that one failed, was lost or came late.
THEOREM AlwaysFollowsTable == MoiradSpec => []FollowsTable
<1>1. ASSUME MoiradIInv, NEW r \in Rows
      PROVE  LET waiting == <<{inc.upd} \ {NoUpdate}>> \o exec
                 k == SelectLastInSeq(waiting, LAMBDA updates : r \in {u.row : u \in updates})
             IN  IF k # 0 THEN [row |-> r, on |-> r \in Present(im)] \in waiting[k]
                 ELSE r \in lost \/ (\E u \in old : u.row = r)
                      \/ (r \in ext <=> r \in Present(im))
  <2> DEFINE waiting == <<{inc.upd} \ {NoUpdate}>> \o exec
             I == {i \in 1 .. Len(waiting) : r \in RowsIn(waiting[i])}
             k == SelectLastInSeq(waiting, LAMBDA updates : r \in {u.row : u \in updates})
             n == Len(exec)
             b == r \in Present(im)
  <2>1. exec \in Seq(SUBSET Update) /\ inc.upd \in Update \cup {NoUpdate}
    BY <1>1 DEF MoiradIInv, MoiradTypes
  <2>2. b \in BOOLEAN
    OBVIOUS
  <2>3. /\ Queued(exec, r) => LastSays(exec, r, b)
        /\ ~Queued(exec, r) /\ inc.upd.row = r => inc.upd.on = b
        /\ ~Queued(exec, r) /\ inc.upd.row # r =>
              r \in lost \/ (\E u \in old : u.row = r) \/ (r \in ext <=> b)
    BY <1>1, <2>2 DEF MoiradIInv, FollowsInv
  <2>4. k = IF I # {} THEN Max(I) ELSE 0
    BY DEF SelectLastInSeq, RowsIn
  <2>5. /\ n \in Nat /\ DOMAIN exec = 1 .. n /\ Len(waiting) = n + 1
        /\ waiting[1] = {inc.upd} \ {NoUpdate}
        /\ \A i \in 1 .. n : waiting[i + 1] = exec[i]
    BY <2>1
  <2> HIDE DEF b, n, waiting, k
  <2>6. I \subseteq 1 .. n + 1
    BY <2>5
  <2>7. \A i \in DOMAIN exec : i + 1 \in I <=> r \in RowsIn(exec[i])
    BY <2>5
  <2>8. 1 \in I <=> inc.upd.row = r
    BY <2>1, <2>5, NothingIsNone DEF RowsIn
  <2>9. ASSUME NEW j \in I, \A i \in I : i <= j PROVE Max(I) = j
    BY <2>6, <2>9 DEF Max
  <2>10. CASE Queued(exec, r)
    <3>1. PICK i \in DOMAIN exec : /\ [row |-> r, on |-> b] \in exec[i]
                                   /\ \A j \in DOMAIN exec : i < j => r \notin RowsIn(exec[j])
      BY <2>3, <2>10 DEF LastSays
    <3>2. i + 1 \in I
      BY <2>7, <3>1 DEF RowsIn
    <3>3. ASSUME NEW j \in I PROVE j <= i + 1
      <4>1. CASE j = 1
        BY <2>5, <4>1
      <4>2. CASE j > 1
        <5>1. j - 1 \in DOMAIN exec /\ (j - 1) + 1 = j
          BY <2>5, <2>6, <4>2
        <5>2. r \in RowsIn(exec[j - 1])
          BY <2>7, <3>3, <5>1
        <5> QED BY <2>5, <3>1, <5>1, <5>2
      <4> QED BY <2>6, <4>1, <4>2
    <3>4. k = i + 1 /\ k # 0
      <4> HIDE DEF I
      <4> QED BY <2>4, <2>5, <2>9, <3>2, <3>3
    <3>5. [row |-> r, on |-> b] \in waiting[k]
      BY <2>5, <3>1, <3>4
    <3> QED BY <3>4, <3>5 DEF b, waiting, k
  <2>11. CASE ~Queued(exec, r)
    <3>1. \A j \in I : j = 1
      <4> SUFFICES ASSUME NEW j \in I, j # 1 PROVE FALSE
        OBVIOUS
      <4>1. j - 1 \in DOMAIN exec /\ (j - 1) + 1 = j
        BY <2>5, <2>6
      <4>2. r \in RowsIn(exec[j - 1])
        BY <2>7, <4>1
      <4> QED BY <2>11, <4>1, <4>2 DEF Queued
    <3>2. CASE inc.upd.row = r
      <4>1. k = 1
        <5> HIDE DEF I
        <5> QED BY <2>4, <2>8, <2>9, <3>1, <3>2
      <4>2. inc.upd # NoUpdate /\ inc.upd \in Update
        BY <2>1, <3>2, NothingIsNone
      <4>3. inc.upd.on = b
        BY <2>3, <2>11, <3>2
      <4>4. inc.upd = [row |-> r, on |-> b]
        <5>1. inc.upd = [row |-> inc.upd.row, on |-> inc.upd.on]
          BY <4>2 DEF Update
        <5> QED BY <3>2, <4>3, <5>1
      <4>5. [row |-> r, on |-> b] \in waiting[k]
        BY <2>5, <4>1, <4>2, <4>4
      <4> QED BY <4>1, <4>5 DEF b, waiting, k
    <3>3. CASE inc.upd.row # r
      <4>1. I = {}
        <5> HIDE DEF I
        <5> QED BY <2>8, <3>1, <3>3
      <4>2. k = 0
        BY <2>4, <4>1
      <4>3. r \in lost \/ (\E u \in old : u.row = r) \/ (r \in ext <=> b)
        BY <2>3, <2>11, <3>3
      <4> QED BY <4>2, <4>3 DEF b, waiting, k
    <3> QED BY <3>2, <3>3
  <2> QED BY <2>10, <2>11
<1>2. MoiradIInv => FollowsTable
  BY <1>1 DEF FollowsTable
<1> QED BY <1>2, MoiradInvariance, PTL

==============================================================================

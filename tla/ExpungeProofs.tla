--------------------------- MODULE ExpungeProofs ----------------------------
(***************************************************************************)
(* Proofs about Expunge, for any meeting, any number of servers, of calls  *)
(* and of runs of the program.                                             *)
(*                                                                         *)
(* The inductive invariant IInv does not mention the locks of the program. *)
(* It says which of the two meetings has which name (DirInv); that those   *)
(* that matter are whole (KeptInv, GoneInv), which leaves out a copy that  *)
(* a run left half built; how far the copy has got and what is in it       *)
(* (CopyInv); what a server's call in progress will write (CallsInv); and  *)
(* that the adds answered in time are in what is moved (LookInv,           *)
(* AckedBeforeMove, BothThere).  HeldInv, inductive with it, says that     *)
(* the program keeps its lock while the acl is left alone.                 *)
(***************************************************************************)
EXTENDS Expunge, MeetingLemmas, WellFoundedInduction

\* A control file, whatever is in it.
IsFile(m) ==
    /\ DOMAIN m = {"first", "last", "highest", "highest_chain", "created", "highest_trn_addr",
                   "blk", "trns"}
    /\ m.highest \in Nat /\ m.created \in BOOLEAN

CallType(c) ==
    /\ DOMAIN c = {"pc", "op", "t", "id", "f", "mod", "again", "mem"}
    /\ c.pc \in {"idle", "open", "lock", "close"} /\ c.op \in Ops
    /\ c.t \in Nat /\ c.id \in Nat /\ c.f \in Files \cup {0}

Pcs == {"start", "info", "hole", "text", "add", "lock", "recheck", "reread", "rename1",
        "rename2", "remove", "unlink", "mark", "exit"}

RunType(e) ==
    /\ DOMAIN e = {"pc", "i", "high", "old", "mod", "pref", "no_nuke", "super", "disturbed"}
    /\ e.pc \in Pcs /\ e.i \in Nat \ {0} /\ e.high \in Nat /\ e.old \in Files \cup {0}
    /\ e.pref \in Int /\ (e.pc = "mark" => e.super.highest \in Nat)

Types ==
    /\ DOMAIN file = Files /\ \A f \in Files : file[f] # NoFile => IsFile(file[f])
    /\ DOMAIN text = Files
    /\ dir \in [{"loc", "bak", "fut"} -> Files \cup {0}]
    /\ lock \in [Files -> Servers \cup {Expunger, Nobody}]
    /\ DOMAIN srv = Servers /\ \A s \in Servers : CallType(srv[s])
    /\ RunType(exp)
    /\ acked \subseteq [n : Nat \ {0}, id : Nat, late : BOOLEAN]
    /\ started \in Nat

\* The files that matter: those with a name, and the one that is being expunged, but
\* not the half-built copy that a run which failed or was killed leaves at "bak".
Named(f) == \E name \in {"loc", "bak", "fut"} : dir[name] = f
LeftOver(f) == f = dir["bak"] /\ ~Copying /\ dir["loc"] # 0
Kept == {f \in Files : (Named(f) \/ (Copying /\ f = exp.old)) /\ ~LeftOver(f)}

KeptInv == \A f \in Kept : file[f] # NoFile /\ Linked(file[f]) /\ file[f].created

\* A transaction that is stored but not live has been deleted by somebody.
GoneOf(m, p, g) == \A i \in Stored(m) : i \notin Live(m) => p[i] \in g
GoneInv == \A f \in Kept : GoneOf(file[f], text[f], gone)

\* A server has opened its file by the name "loc"; when it has the lock of one that
\* matters, its changes are those of a call that was allowed.
CallInv(s) ==
    LET c == srv[s]
    IN  /\ c.f # 0 => file[c.f] # NoFile /\ c.f # dir["bak"]
        /\ c.pc \in {"lock", "close"} => c.f # 0
        /\ c.pc = "close" =>
              /\ lock[c.f] = s
              /\ IsFile(c.mem) /\ (c.op = "add" => c.mem.highest # 0)
              /\ c.f \in Kept => Allowed(file[c.f], c) /\ c.mem = Changed(file[c.f], c)
CallsInv == \A s \in Servers : CallInv(s)

\* The program before the first rename, before the second one, and after it has looked
\* for new transactions for the last time.
Before1 == {"info", "hole", "text", "add", "lock", "recheck", "reread", "rename1"}
Before2 == Before1 \cup {"rename2"}
Moving == {"rename1", "rename2", "remove"}

\* Which names the two meetings have.
DirInv ==
    /\ \A a, b \in {"loc", "bak", "fut"} : dir[a] = dir[b] /\ dir[a] # 0 => a = b
    /\ Copying => exp.old # 0
    /\ exp.pc \in Before1 => dir["loc"] = exp.old /\ dir["bak"] # 0
    /\ exp.pc = "rename2" => dir["loc"] = 0 /\ dir["fut"] = exp.old /\ dir["bak"] # 0
    /\ exp.pc \in {"remove", "unlink"} => dir["loc"] # 0 /\ dir["fut"] = exp.old /\ dir["bak"] = 0
    /\ exp.pc = "mark" => /\ dir["loc"] # 0 /\ dir["fut"] = 0 /\ dir["bak"] = 0
                          /\ ~Named(exp.old)
    /\ exp.pc = "start" => dir["loc"] # 0
    /\ dir["loc"] = 0 => dir["fut"] # 0 /\ dir["bak"] # 0

\* When the program is about to rename, every add that it should have seen is within
\* the numbers it has copied, whether or not it still has the lock.
LookInv == exp.pc = "rename1" =>
              \A a \in acked : a.late \/ a.id \in gone \/ a.n <= exp.high

\* How far the copying has got, in an old meeting with numbers up to a and a new one
\* with numbers up to b.
Counted(e, a, b) ==
    /\ e.i <= e.high + 1 /\ e.high <= a /\ e.i - 1 <= b
    /\ e.pc \in {"hole", "text", "add"} => e.i <= e.high
    /\ e.pc \in Before2 => b = e.i - 1
    /\ e.pc \in {"lock", "recheck", "reread"} \cup Moving => e.i = e.high + 1

\* The first k numbers of the old meeting o, with texts p, in the new one m, with
\* texts q.
Copied(o, m, p, q, k, g) ==
    \A i \in 1 .. k : /\ i \in Stored(m) => i \in Stored(o) /\ q[i] = p[i]
                      /\ i \notin Stored(m) /\ i \in Stored(o) => p[i] \in g

MergedNone(o, m, k) ==
    \A i, j \in Stored(m) \cap 1 .. k :
       m.blk[i].trn_chain = m.blk[j].trn_chain => o.blk[i].trn_chain = o.blk[j].trn_chain

SplitNone(o, m, k) ==
    /\ \A i \in 1 .. k : i \in Live(o) <=> i \in Live(m)
    /\ \A i, j \in Stored(m) \cap 1 .. k :
          o.blk[i].trn_chain = o.blk[j].trn_chain => m.blk[i].trn_chain = m.blk[j].trn_chain

\* What the program knows of the transaction it is at.
AtNumber(e, o, p, g) ==
    /\ e.pc = "hole" => (e.i \in Stored(o) => p[e.i] \in g)
    /\ e.pc \in {"text", "add"} =>
          /\ e.i \in Stored(o)
          /\ e.pref # 0 => /\ e.pref \in Stored(o) /\ e.pref < e.i
                           /\ o.blk[e.pref].trn_chain = o.blk[e.i].trn_chain

AtNumberStill(e, o) ==
    /\ e.pc = "hole" => e.i \notin Live(o)
    /\ e.pc \in {"text", "add"} =>
          /\ e.i \in Live(o)
          /\ IsPred(ChainMembers(o, o.blk[e.i].trn_chain), e.i, e.pref)

RunInv(e, o, m, p, q, g) ==
    /\ Counted(e, o.highest, m.highest)
    /\ Copied(o, m, p, q, e.i - 1, g)
    /\ MergedNone(o, m, e.i - 1)
    /\ e.pc \in Before2 => Live(m) = Stored(m)
    /\ AtNumber(e, o, p, g)
    /\ ~e.disturbed => SplitNone(o, m, e.i - 1) /\ AtNumberStill(e, o)

CopyInv ==
    Copying => RunInv(exp, file[exp.old], file[New], text[exp.old], text[New], gone)

\* Between the renames nothing in "bak" is missing in "fut".
FutInv == dir["loc"] = 0 => file[dir["bak"]].highest <= file[dir["fut"]].highest

IInv == /\ Types /\ KeptInv /\ GoneInv /\ CallsInv /\ DirInv /\ LookInv
        /\ CopyInv /\ FutInv /\ AckedBeforeMove /\ BothThere

\* The program has the lock when it looks for the last time and until it has moved both
\* meetings, and nothing is added meanwhile, unless the acl was changed since its last
\* check and open_mtg has dropped the lock.
HeldInv ==
    /\ now \in Nat /\ acl \in [Files -> 0 .. now] /\ exp.mod \in Nat
    /\ exp.pc = "recheck" => lock[exp.old] = Expunger
    /\ exp.pc \in {"reread"} \cup Moving /\ ~AclNewer => lock[exp.old] = Expunger
    /\ exp.pc \in Moving /\ ~AclNewer => file[exp.old].highest = exp.high

-----------------------------------------------------------------------------
(* What a call does to a meeting                                           *)

\* A set of numbers has a least one.
LEMMA LeastOf ==
  ASSUME NEW S, S \subseteq Nat, S # {}
  PROVE  Min(S) \in S /\ \A y \in S : Min(S) <= y
<1> DEFINE R == OpToRel(<, Nat)
<1>1. \A x, y \in Nat : x < y => <<x, y>> \in R
  BY DEF OpToRel
<1>2. IsWellFoundedOn(R, Nat)
  BY NatLessThanWellFounded
<1> HIDE DEF R
<1>3. PICK x \in S : \A y \in S : ~(<<y, x>> \in R)
  BY <1>2, WFMin
<1>4. ASSUME NEW y \in S PROVE x <= y
  <2>1. ~(y < x) /\ x \in Nat /\ y \in Nat
    BY <1>1, <1>3
  <2> QED
    BY <2>1
<1> QED
  BY <1>4 DEF Min

\* A bounded one has a greatest.
LEMMA GreatestOf ==
  ASSUME NEW n \in Nat, NEW S, S \subseteq 0 .. n, S # {}
  PROVE  Max(S) \in S /\ \A y \in S : Max(S) >= y
<1> DEFINE T == {n - x : x \in S}
<1>1. \A x \in S : x \in Nat /\ n - x \in Nat /\ n - x \in T
  OBVIOUS
<1>2. T \subseteq Nat /\ T # {}
  BY <1>1
<1> DEFINE k == Min(T)
<1>3. k \in T /\ \A l \in T : k <= l
  BY <1>2, LeastOf
<1> HIDE DEF k
<1>4. PICK x \in S : k = n - x
  BY <1>3
<1>5. ASSUME NEW y \in S PROVE x >= y
  <2>1. n - x <= n - y
    BY <1>1, <1>3, <1>4
  <2> QED
    BY <2>1, <1>1
<1> QED
  BY <1>5 DEF Max

\* The searches of retrieve_trn end at the neighbours.
LEMMA BeforeAfter ==
  ASSUME NEW n \in Nat, NEW S, S \subseteq 1 .. n, NEW t \in Nat, t > 0
  PROVE  /\ Before(S, t) \in Nat /\ IsPred(S, t, Before(S, t))
         /\ After(S, t) \in Nat /\ IsSucc(S, t, After(S, t))
<1> DEFINE B == {j \in S : j < t}
           A == {j \in S : j > t}
<1>0. /\ B \subseteq 0 .. n /\ A \subseteq Nat /\ B \subseteq S /\ A \subseteq S
      /\ \A j \in S : j \in Nat /\ (j < t => j \in B) /\ (j > t => j \in A)
      /\ \A j \in B : j < t
      /\ \A j \in A : j > t
  <2>1. \A j \in S : j \in Nat /\ j \in 0 .. n
    OBVIOUS
  <2> QED
    BY <2>1
<1>1. /\ Before(S, t) = IF B = {} THEN 0 ELSE Max(B)
      /\ After(S, t) = IF A = {} THEN 0 ELSE Min(A)
  BY DEF Before, After
<1> HIDE DEF A, B
<1>2. Before(S, t) \in Nat /\ IsPred(S, t, Before(S, t))
  <2>1. CASE B = {}
    <3>1. Before(S, t) = 0
      BY <1>1, <2>1
    <3>2. \A j \in S : j >= t
      BY <1>0, <2>1
    <3> QED
      BY <3>1, <3>2 DEF IsPred
  <2>2. CASE B # {}
    <3>1. Before(S, t) \in B /\ \A j \in B : Before(S, t) >= j
      BY <1>0, <1>1, <2>2, GreatestOf
    <3>2. Before(S, t) \in Nat
      BY <1>0, <3>1
    <3>3. \A j \in S : j < t => j <= Before(S, t)
      BY <1>0, <3>1, <3>2
    <3> QED
      BY <1>0, <3>1, <3>2, <3>3 DEF IsPred
  <2> QED
    BY <2>1, <2>2
<1>3. After(S, t) \in Nat /\ IsSucc(S, t, After(S, t))
  <2>1. CASE A = {}
    <3>1. After(S, t) = 0
      BY <1>1, <2>1
    <3>2. \A j \in S : j <= t
      BY <1>0, <2>1
    <3> QED
      BY <3>1, <3>2 DEF IsSucc
  <2>2. CASE A # {}
    <3>1. After(S, t) \in A /\ \A j \in A : After(S, t) <= j
      BY <1>0, <1>1, <2>2, LeastOf
    <3>2. After(S, t) \in Nat
      BY <1>0, <3>1
    <3>3. \A j \in S : j > t => j >= After(S, t)
      BY <1>0, <3>1, <3>2
    <3> QED
      BY <1>0, <3>1, <3>2, <3>3 DEF IsSucc
  <2> QED
    BY <2>1, <2>2
<1> QED
  BY <1>2, <1>3

\* retrieve_trn as one step keeps a meeting linked.
LEMMA RetrieveLinked ==
  ASSUME NEW m, Linked(m), NEW t, CanRetrieve(m, t)
  PROVE  LET r == RetrieveTrn(m, t)
         IN  /\ Linked(r) /\ NoneAdded(m, r) /\ r.highest = m.highest /\ r.created = m.created
             /\ OneMore(Live(m), t, Live(r))
<1> DEFINE chain == ChainMembers(m, m.blk[t].trn_chain)
           nb == [prev |-> Before(Live(m), t), next |-> After(Live(m), t),
                  pref |-> Before(chain, t), nref |-> After(chain, t)]
           r == RetrieveTrn(m, t)
<1>1. MtgType(m) /\ m.highest \in Nat /\ t \in 1 .. m.highest /\ t \in Trns(m)
  BY MtgFields DEF Linked, CanRetrieve, Trns
<1>2. Live(m) \subseteq 1 .. m.highest /\ chain \subseteq 1 .. m.highest
  BY DEF Live, Trns, ChainMembers
<1> HIDE DEF chain
<1>3. t \in Nat /\ t > 0
  BY <1>1
<1>4. /\ Before(Live(m), t) \in Nat /\ IsPred(Live(m), t, Before(Live(m), t))
      /\ After(Live(m), t) \in Nat /\ IsSucc(Live(m), t, After(Live(m), t))
  BY <1>1, <1>2, <1>3, BeforeAfter
<1>5. /\ Before(chain, t) \in Nat /\ IsPred(chain, t, Before(chain, t))
      /\ After(chain, t) \in Nat /\ IsSucc(chain, t, After(chain, t))
  BY <1>1, <1>2, <1>3, BeforeAfter
<1>6. Neighbours(m, t, nb)
  BY <1>4, <1>5 DEF Neighbours, chain
<1>7. r = RelinkTrn(m, t, nb)
  BY DEF RetrieveTrn, chain
<1> HIDE DEF r, nb
<1>8. Linked(r)
  BY <1>6, <1>7, RelinkLinked
<1>9. NoneAdded(m, r) /\ r.highest = m.highest
  BY <1>7, RelinkKeeps
<1>10. OneMore(Live(m), t, Live(r))
  BY <1>1, <1>7, RelinkSets
<1>11. r.created = m.created
  BY <1>1, <1>7, RelinkFields
<1> QED
  BY <1>8, <1>9, <1>10, <1>11 DEF r

\* An add makes a control file of a control file, whatever is in it.
LEMMA AddedFile ==
  ASSUME NEW m, IsFile(m), NEW reply, NEW flags
  PROVE  LET r == AddTrn(m, reply, flags)
         IN  IsFile(r) /\ r.highest = m.highest + 1 /\ r.created = m.created
  BY DEF AddTrn, IsFile

\* A meeting is such a file.
LEMMA MeetingFile ==
  ASSUME NEW m, MtgType(m)
  PROVE  IsFile(m) /\ m # NoFile
  BY DEF MtgType, IsFile, NoFile

\* So do a delete ...
LEMMA DeletedFile ==
  ASSUME NEW m, IsFile(m), NEW t
  PROVE  LET r == DeleteTrn(m, t)
         IN  IsFile(r) /\ r.highest = m.highest /\ r.created = m.created
  BY DEF DeleteTrn, IsFile

\* ... and a retrieve ...
LEMMA RelinkedFile ==
  ASSUME NEW m, IsFile(m), NEW t, NEW nb
  PROVE  LET r == RelinkTrn(m, t, nb)
         IN  IsFile(r) /\ r.highest = m.highest /\ r.created = m.created
  BY DEF RelinkTrn, IsFile

\* ... and so every call.
LEMMA FileStays ==
  ASSUME NEW m, IsFile(m), NEW c, c.op \in Ops
  PROVE  /\ IsFile(Changed(m, c))
         /\ c.op = "add" => Changed(m, c).highest = m.highest + 1
         /\ Changed(m, c).created = m.created
<1>1. CASE c.op = "add"
  <2>1. Changed(m, c) = AddTrn(m, c.t, 0)
    BY <1>1 DEF Changed
  <2> QED
    BY <2>1, AddedFile
<1>2. CASE c.op = "delete"
  <2>1. Changed(m, c) = DeleteTrn(m, c.t)
    BY <1>2 DEF Changed
  <2> QED
    BY <1>2, <2>1, DeletedFile
<1>3. CASE c.op = "retrieve"
  <2>1. Changed(m, c) = RetrieveTrn(m, c.t)
    BY <1>3 DEF Changed
  <2>2. IsFile(RetrieveTrn(m, c.t)) /\ RetrieveTrn(m, c.t).created = m.created
    BY RelinkedFile, Zenon DEF RetrieveTrn
  <2> QED
    BY <1>3, <2>1, <2>2
<1> QED
  BY <1>1, <1>2, <1>3 DEF Ops

\* What an allowed call does to a meeting.
LEMMA ChangeKeeps ==
  ASSUME NEW m, Linked(m), NEW c, c.op \in Ops, c.t \in Nat, Allowed(m, c)
  PROVE  LET r == Changed(m, c)
         IN  /\ Linked(r) /\ Keeps(m, r)
             /\ r.highest = IF c.op = "add" THEN m.highest + 1 ELSE m.highest
             /\ \A i \in Trns(m) : i \in Stored(r) <=> i \in Stored(m)
             /\ \A i \in Trns(r) : i \in Trns(m) \/ (i \in Live(r) /\ i \in Stored(r))
             /\ c.op = "add" => m.highest + 1 \in Stored(r)
             /\ c.op = "add" => \A i \in Trns(m) : i \in Live(r) <=> i \in Live(m)
             /\ c.op = "delete" => OneMore(Live(r), c.t, Live(m))
             /\ c.op = "retrieve" => OneMore(Live(m), c.t, Live(r))
<1> DEFINE r == Changed(m, c)
<1>1. /\ MtgType(m) /\ ChainNumbers(m) /\ ChainsLinked(m) /\ MeetingLinked(m) /\ m.highest \in Nat
  BY MtgFields DEF Linked
<1>2. CASE c.op = "add"
  <2>1. r = AddTrn(m, c.t, 0) /\ CanReply(m, c.t)
    BY <1>2 DEF Changed, Allowed
  <2>2. Linked(r) /\ Keeps(m, r)
    BY <2>1, NoFlagsAssumption, AddLinked, AddKeeps
  <2>3. /\ Trns(r) = Trns(m) \cup {m.highest + 1} /\ m.highest + 1 \notin Trns(m)
        /\ OneMore(Live(m), m.highest + 1, Live(r))
    BY <1>1, <2>1, AddSets
  <2>4. OneMore(Stored(m), m.highest + 1, Stored(r))
    BY <1>1, <2>1, AddChainNumbers
  <2>5. r.highest = m.highest + 1
    BY <1>1, <2>1 DEF AddTrn, MtgType
  <2> HIDE DEF r
  <2>6. \A i \in Trns(m) :
           (i \in Stored(r) <=> i \in Stored(m)) /\ (i \in Live(r) <=> i \in Live(m))
    BY <2>3, <2>4, Zenon DEF OneMore
  <2>7. m.highest + 1 \in Stored(r) /\ m.highest + 1 \in Live(r)
    BY <2>3, <2>4, Zenon DEF OneMore
  <2> QED
    BY <1>2, <2>2, <2>3, <2>5, <2>6, <2>7 DEF r
<1>3. CASE c.op = "delete"
  <2>1. r = DeleteTrn(m, c.t) /\ CanDelete(m, c.t)
    BY <1>3 DEF Changed, Allowed
  <2>2. Linked(r) /\ NoneAdded(m, r) /\ r.highest = m.highest
    BY <2>1, DeleteLinked, DeleteKeeps
  <2>3. Trns(r) = Trns(m) /\ OneMore(Live(r), c.t, Live(m))
    BY <1>1, <2>1, DeleteSets
  <2> HIDE DEF r
  <2> QED
    BY <1>3, <2>2, <2>3 DEF NoneAdded, r
<1>4. CASE c.op = "retrieve"
  <2>1. r = RetrieveTrn(m, c.t) /\ CanRetrieve(m, c.t)
    BY <1>4 DEF Changed, Allowed
  <2>2. /\ Linked(r) /\ NoneAdded(m, r) /\ r.highest = m.highest
        /\ OneMore(Live(m), c.t, Live(r))
    BY <2>1, RetrieveLinked
  <2> HIDE DEF r
  <2>3. Trns(r) = Trns(m)
    BY <2>2 DEF Trns
  <2> QED
    BY <1>4, <2>2, <2>3 DEF NoneAdded, r
<1> QED
  BY <1>2, <1>3, <1>4 DEF Ops

-----------------------------------------------------------------------------
(* Meetings that grow while they are copied                                *)

\* Numbers, and what they stand for.
LEMMA SetsOf ==
  ASSUME NEW m, m.highest \in Nat
  PROVE  /\ \A i \in Trns(m) : i \in Nat /\ i > 0 /\ i <= m.highest
         /\ \A i \in Nat : i > 0 /\ i <= m.highest => i \in Trns(m)
         /\ Live(m) \subseteq Trns(m) /\ Stored(m) \subseteq Trns(m)
         /\ \A c : \A j : j \in ChainMembers(m, c) <=> j \in Live(m) /\ m.blk[j].trn_chain = c
<1>1. /\ \A i \in Trns(m) : i \in Nat /\ i > 0 /\ i <= m.highest
      /\ \A i \in Nat : i > 0 /\ i <= m.highest => i \in Trns(m)
  BY DEF Trns
<1> QED
  BY <1>1, Zenon DEF Live, Stored, ChainMembers

\* A meeting with texts p that has become r with texts q: what had a number before
\* has kept its text and its thread.
Grown(m, p, r, q) ==
    /\ m.highest \in Nat /\ r.highest \in Nat /\ r.highest >= m.highest
    /\ \A i \in Trns(m) : /\ i \in Trns(r) /\ r.blk[i].trn_chain = m.blk[i].trn_chain
                          /\ i \in Stored(r) <=> i \in Stored(m)
                          /\ q[i] = p[i]

LiveSame(m, r) == \A i \in Trns(m) : i \in Live(r) <=> i \in Live(m)

\* A meeting that nobody touched.
LEMMA GrownSelf ==
  ASSUME NEW m, m.highest \in Nat, NEW p
  PROVE  Grown(m, p, m, p) /\ LiveSame(m, m)
  BY DEF Grown, LiveSame

\* What was copied is still a copy of what is there.
LEMMA GrownCopied ==
  ASSUME NEW o, NEW m, NEW p, NEW q, NEW g, NEW k \in Nat, NEW o2, NEW m2, NEW p2, NEW q2, NEW g2,
         Grown(o, p, o2, p2), Grown(m, q, m2, q2), g \subseteq g2,
         k <= o.highest, k <= m.highest, Copied(o, m, p, q, k, g)
  PROVE  Copied(o2, m2, p2, q2, k, g2)
<1>1. o.highest \in Nat /\ m.highest \in Nat
  BY DEF Grown
<1>2. \A i \in 1 .. k : i \in Trns(o) /\ i \in Trns(m)
  BY <1>1 DEF Trns
<1>3. \A i \in 1 .. k : /\ i \in Stored(o2) <=> i \in Stored(o)
                        /\ i \in Stored(m2) <=> i \in Stored(m)
                        /\ q2[i] = q[i] /\ p2[i] = p[i]
  BY <1>2, Zenon DEF Grown
<1> QED
  BY <1>3 DEF Copied

\* No two threads are joined.
LEMMA GrownMerged ==
  ASSUME NEW o, NEW m, NEW p, NEW q, NEW k \in Nat, NEW o2, NEW m2, NEW p2, NEW q2,
         Grown(o, p, o2, p2), Grown(m, q, m2, q2),
         k <= o.highest, k <= m.highest, MergedNone(o, m, k)
  PROVE  MergedNone(o2, m2, k)
<1>1. o.highest \in Nat /\ m.highest \in Nat
  BY DEF Grown
<1>2. \A i \in 1 .. k : i \in Trns(o) /\ i \in Trns(m)
  BY <1>1 DEF Trns
<1>3. \A i \in 1 .. k : /\ i \in Stored(m2) <=> i \in Stored(m)
                        /\ o2.blk[i].trn_chain = o.blk[i].trn_chain
                        /\ m2.blk[i].trn_chain = m.blk[i].trn_chain
  BY <1>2, Zenon DEF Grown
<1>4. \A i : i \in Stored(m2) \cap 1 .. k <=> i \in Stored(m2) /\ i \in 1 .. k
  OBVIOUS
<1>5. \A i : i \in Stored(m) \cap 1 .. k <=> i \in Stored(m) /\ i \in 1 .. k
  OBVIOUS
<1> QED
  BY <1>3, <1>4, <1>5 DEF MergedNone

\* Nor is one split, unless transactions come and go.
LEMMA GrownSplit ==
  ASSUME NEW o, NEW m, NEW p, NEW q, NEW k \in Nat, NEW o2, NEW m2, NEW p2, NEW q2,
         Grown(o, p, o2, p2), Grown(m, q, m2, q2), LiveSame(o, o2), LiveSame(m, m2),
         k <= o.highest, k <= m.highest, SplitNone(o, m, k)
  PROVE  SplitNone(o2, m2, k)
<1>1. o.highest \in Nat /\ m.highest \in Nat
  BY DEF Grown
<1>2. \A i \in 1 .. k : i \in Trns(o) /\ i \in Trns(m)
  BY <1>1 DEF Trns
<1>3. \A i \in 1 .. k : /\ i \in Stored(m2) <=> i \in Stored(m)
                        /\ o2.blk[i].trn_chain = o.blk[i].trn_chain
                        /\ m2.blk[i].trn_chain = m.blk[i].trn_chain
                        /\ i \in Live(m2) <=> i \in Live(m)
                        /\ i \in Live(o2) <=> i \in Live(o)
  BY <1>2, Zenon DEF Grown, LiveSame
<1>4. \A i : i \in Stored(m2) \cap 1 .. k <=> i \in Stored(m2) /\ i \in 1 .. k
  OBVIOUS
<1>5. \A i : i \in Stored(m) \cap 1 .. k <=> i \in Stored(m) /\ i \in 1 .. k
  OBVIOUS
<1> QED
  BY <1>3, <1>4, <1>5 DEF SplitNone

\* The number the program is at.
LEMMA GrownAt ==
  ASSUME NEW e, NEW o, NEW p, NEW g, NEW o2, NEW p2, NEW g2, Grown(o, p, o2, p2), g \subseteq g2,
         NEW e2, e2.pc = e.pc, e2.i = e.i, e2.pref = e.pref,
         e.pc \in {"hole", "text", "add"} => e.i \in Trns(o),
         AtNumber(e, o, p, g)
  PROVE  AtNumber(e2, o2, p2, g2)
<1>1. o.highest \in Nat
  BY DEF Grown
<1>2. \A i \in Stored(o) : i \in Trns(o)
  BY <1>1, SetsOf
<1>3. \A i \in Trns(o) : /\ i \in Stored(o2) <=> i \in Stored(o)
                         /\ o2.blk[i].trn_chain = o.blk[i].trn_chain /\ p2[i] = p[i]
  BY DEF Grown
<1>4. e.pc = "hole" => (e.i \in Stored(o2) => p2[e.i] \in g2)
  BY <1>3 DEF AtNumber
<1>5. e.pc \in {"text", "add"} =>
          /\ e.i \in Stored(o2)
          /\ e.pref # 0 => /\ e.pref \in Stored(o2) /\ e.pref < e.i
                           /\ o2.blk[e.pref].trn_chain = o2.blk[e.i].trn_chain
  BY <1>2, <1>3 DEF AtNumber
<1> QED
  BY <1>4, <1>5 DEF AtNumber

\* If none was deleted or retrieved, it is still live or deleted, with the same pref.
LEMMA GrownAtStill ==
  ASSUME NEW e, NEW o, NEW p, NEW o2, NEW p2, Grown(o, p, o2, p2), LiveSame(o, o2),
         NEW e2, e2.pc = e.pc, e2.i = e.i, e2.pref = e.pref,
         e.pc \in {"hole", "text", "add"} => e.i \in Trns(o),
         AtNumberStill(e, o)
  PROVE  AtNumberStill(e2, o2)
<1>1. o.highest \in Nat /\ o2.highest \in Nat
  BY DEF Grown
<1>3. \A i \in Trns(o) : /\ i \in Live(o2) <=> i \in Live(o)
                         /\ o2.blk[i].trn_chain = o.blk[i].trn_chain
  BY DEF Grown, LiveSame
<1>4. e.pc = "hole" => e.i \notin Live(o2)
  BY <1>3 DEF AtNumberStill
<1>5. ASSUME e.pc \in {"text", "add"}
      PROVE  /\ e.i \in Live(o2)
             /\ IsPred(ChainMembers(o2, o2.blk[e.i].trn_chain), e.i, e.pref)
  <2>1. e.i \in Trns(o) /\ e.i \in Live(o2)
    BY <1>3, <1>5 DEF AtNumberStill
  <2> DEFINE c == o.blk[e.i].trn_chain
             S == ChainMembers(o, c)
             T == ChainMembers(o2, c)
  <2>2. o2.blk[e.i].trn_chain = c /\ IsPred(S, e.i, e.pref)
    BY <1>3, <1>5, <2>1 DEF AtNumberStill
  <2>3. /\ e.i \in Nat /\ e.i <= o.highest
        /\ \A j \in T : j \in Live(o2) /\ j \in Nat /\ j > 0 /\ o2.blk[j].trn_chain = c
        /\ \A j \in S : j \in Live(o) /\ j \in Trns(o) /\ j \in Nat /\ o.blk[j].trn_chain = c
    BY <1>1, <2>1, SetsOf
  <2>4. \A j \in S : j \in T
    BY <1>1, <1>3, <2>3, SetsOf
  <2>5. \A j \in T : j < e.i => j \in S
    <3> SUFFICES ASSUME NEW j \in T, j < e.i PROVE j \in S
      OBVIOUS
    <3>1. j \in Trns(o)
      BY <1>1, <2>3, SetsOf
    <3> QED
      BY <1>1, <1>3, <2>3, <3>1, SetsOf
  <2> HIDE DEF S, T, c
  <2>6. IsPred(T, e.i, e.pref)
    <3>1. CASE e.pref = 0 /\ \A j \in S : j >= e.i
      BY <2>3, <2>5, <3>1 DEF IsPred
    <3>2. CASE e.pref \in S /\ e.pref < e.i /\ \A j \in S : j < e.i => j <= e.pref
      BY <2>4, <2>5, <3>2 DEF IsPred
    <3> QED
      BY <2>2, <3>1, <3>2 DEF IsPred
  <2> QED
    BY <2>1, <2>2, <2>6 DEF T
<1> QED
  BY <1>4, <1>5 DEF AtNumberStill

\* What servers do to the two meetings does not disturb the copy.
LEMMA GrownRun ==
  ASSUME NEW e, e.i \in Nat \ {0}, e.high \in Nat,
         NEW o, NEW m, NEW p, NEW q, NEW g, NEW o2, NEW m2, NEW p2, NEW q2, NEW g2,
         RunInv(e, o, m, p, q, g),
         Grown(o, p, o2, p2), Grown(m, q, m2, q2), g \subseteq g2,
         NEW e2, e2.pc = e.pc, e2.i = e.i, e2.high = e.high, e2.pref = e.pref,
         ~e2.disturbed => ~e.disturbed /\ LiveSame(o, o2) /\ LiveSame(m, m2),
         e.pc \in Before2 => m2 = m
  PROVE  RunInv(e2, o2, m2, p2, q2, g2)
<1>1. /\ o.highest \in Nat /\ o2.highest \in Nat /\ o2.highest >= o.highest
      /\ m.highest \in Nat /\ m2.highest \in Nat /\ m2.highest >= m.highest
  BY DEF Grown
<1>2. Counted(e, o.highest, m.highest)
  BY DEF RunInv
<1>3. e.i - 1 \in Nat /\ e.i - 1 <= o.highest /\ e.i - 1 <= m.highest
  BY <1>1, <1>2 DEF Counted
<1>4. e.pc \in {"hole", "text", "add"} => e.i \in Trns(o)
  <2>1. e.pc \in {"hole", "text", "add"} => e.i <= o.highest
    BY <1>1, <1>2 DEF Counted
  <2> QED
    BY <1>1, <2>1, SetsOf
<1>5. Counted(e2, o2.highest, m2.highest)
  <2>1. e.i <= e.high + 1 /\ e.high <= o2.highest /\ e.i - 1 <= m2.highest
    BY <1>1, <1>2 DEF Counted
  <2>2. /\ e.pc \in {"hole", "text", "add"} => e.i <= e.high
        /\ e.pc \in Before2 => m2.highest = e.i - 1
        /\ e.pc \in {"lock", "recheck", "reread"} \cup Moving => e.i = e.high + 1
    BY <1>2 DEF Counted
  <2> QED
    BY <2>1, <2>2 DEF Counted
<1>6. Copied(o2, m2, p2, q2, e.i - 1, g2)
  BY <1>3, GrownCopied DEF RunInv
<1>7. MergedNone(o2, m2, e.i - 1)
  BY <1>3, GrownMerged DEF RunInv
<1>8. e.pc \in Before2 => Live(m2) = Stored(m2)
  BY DEF RunInv
<1>9. AtNumber(e2, o2, p2, g2)
  BY <1>4, GrownAt DEF RunInv
<1>10. ASSUME ~e2.disturbed PROVE SplitNone(o2, m2, e.i - 1) /\ AtNumberStill(e2, o2)
  <2>1. SplitNone(o, m, e.i - 1) /\ AtNumberStill(e, o) /\ LiveSame(o, o2) /\ LiveSame(m, m2)
    BY <1>10 DEF RunInv
  <2>2. SplitNone(o2, m2, e.i - 1)
    BY <1>3, <2>1, GrownSplit
  <2>3. AtNumberStill(e2, o2)
    BY <1>4, <2>1, GrownAtStill
  <2> QED
    BY <2>2, <2>3
<1> QED
  BY <1>5, <1>6, <1>7, <1>8, <1>9, <1>10 DEF RunInv

-----------------------------------------------------------------------------
(* What the program copies                                                 *)

\* A step of the program that copies nothing.
LEMMA RunSame ==
  ASSUME NEW e, NEW o, NEW m, NEW p, NEW q, NEW g, RunInv(e, o, m, p, q, g),
         NEW e2, e2.i = e.i, e2.disturbed = e.disturbed,
         Counted(e2, o.highest, m.highest), e2.pc \in Before2 => e.pc \in Before2,
         AtNumber(e2, o, p, g), ~e2.disturbed => AtNumberStill(e2, o)
  PROVE  RunInv(e2, o, m, p, q, g)
  BY DEF RunInv

\* Where the program is not at a number.
LEMMA AtNone ==
  ASSUME NEW e, e.pc \notin {"hole", "text", "add"}, NEW o, NEW p, NEW g
  PROVE  AtNumber(e, o, p, g) /\ AtNumberStill(e, o)
  BY DEF AtNumber, AtNumberStill

\* A step away from a number.
LEMMA RunMoves ==
  ASSUME NEW e, NEW o, NEW m, NEW p, NEW q, NEW g, RunInv(e, o, m, p, q, g),
         NEW e2, e2.i = e.i, e2.disturbed = e.disturbed,
         e2.pc \notin {"hole", "text", "add"},
         Counted(e2, o.highest, m.highest), e2.pc \in Before2 => e.pc \in Before2
  PROVE  RunInv(e2, o, m, p, q, g)
  BY RunSame, AtNone

\* create_mtg_priv.
LEMMA RunStart ==
  ASSUME NEW o, o.highest \in Nat, NEW p, NEW q, NEW g,
         NEW e, e.pc = "info", e.i = 1, e.high = o.highest
  PROVE  RunInv(e, o, EmptyMeeting, p, q, g)
<1>1. /\ EmptyMeeting.highest = 0 /\ Live(EmptyMeeting) = {} /\ Stored(EmptyMeeting) = {}
  BY EmptyLinked DEF EmptyMeeting
<1>2. Counted(e, o.highest, 0)
  BY DEF Counted, Moving
<1>3. \A i : i \notin 1 .. e.i - 1
  OBVIOUS
<1>4. Copied(o, EmptyMeeting, p, q, e.i - 1, g)
  BY <1>3, Zenon DEF Copied
<1>5. MergedNone(o, EmptyMeeting, e.i - 1) /\ SplitNone(o, EmptyMeeting, e.i - 1)
  BY <1>1, <1>3 DEF MergedNone, SplitNone
<1>6. AtNumber(e, o, p, g) /\ AtNumberStill(e, o)
  BY AtNone
<1> QED
  BY <1>1, <1>2, <1>4, <1>5, <1>6 DEF RunInv

\* get_trn_info3 of a transaction that is deleted or expunged, and of another.
LEMMA RunInfoHole ==
  ASSUME NEW e, NEW o, NEW m, NEW p, NEW q, NEW g, RunInv(e, o, m, p, q, g),
         e.i \in Nat \ {0}, e.high \in Nat, o.highest \in Nat, m.highest \in Nat,
         e.pc = "info", e.i <= e.high, Linked(o), GoneOf(o, p, g),
         o.blk[e.i].trn_addr = 0 \/ o.blk[e.i].deleted,
         NEW e2, e2.pc = "hole", e2.i = e.i, e2.high = e.high, e2.disturbed = e.disturbed
  PROVE  RunInv(e2, o, m, p, q, g)
<1>1. Counted(e, o.highest, m.highest)
  BY DEF RunInv
<1>2. Counted(e2, o.highest, m.highest)
  BY <1>1 DEF Counted, Moving, Before2, Before1
<1>3. e.i \notin Live(o)
  <2>1. o.blk[e.i].trn_addr = 0 => e.i \notin Stored(o)
    BY DEF Stored
  <2>2. o.blk[e.i].deleted => e.i \notin Live(o)
    BY DEF Live
  <2> QED
    BY <2>1, <2>2 DEF Linked, ChainNumbers
<1>4. e.i \in Stored(o) => p[e.i] \in g
  BY <1>3 DEF GoneOf
<1>5. AtNumber(e2, o, p, g) /\ AtNumberStill(e2, o)
  BY <1>3, <1>4 DEF AtNumber, AtNumberStill
<1>6. e.pc \in Before2
  BY DEF Before2, Before1
<1> QED
  BY <1>2, <1>5, <1>6, RunSame

\* get_trn_info3 of a transaction that is there: its pref is of the same thread.
LEMMA RunInfoText ==
  ASSUME NEW e, NEW o, NEW m, NEW p, NEW q, NEW g, RunInv(e, o, m, p, q, g),
         e.i \in Nat \ {0}, e.high \in Nat, o.highest \in Nat, m.highest \in Nat,
         e.pc = "info", e.i <= e.high, Linked(o),
         o.blk[e.i].trn_addr # 0, ~o.blk[e.i].deleted,
         NEW e2, e2.pc = "text", e2.i = e.i, e2.high = e.high, e2.disturbed = e.disturbed,
         e2.pref = o.blk[e.i].pref
  PROVE  RunInv(e2, o, m, p, q, g)
<1>1. Counted(e, o.highest, m.highest)
  BY DEF RunInv
<1>2. Counted(e2, o.highest, m.highest)
  BY <1>1 DEF Counted, Moving, Before2, Before1
<1>3. e.i \in Trns(o)
  <2>1. e.i <= o.highest
    BY <1>1 DEF Counted
  <2> QED
    BY <2>1, SetsOf
<1>4. e.i \in Live(o) /\ e.i \in Stored(o)
  BY <1>3 DEF Live, Stored
<1> DEFINE c == o.blk[e.i].trn_chain
           S == ChainMembers(o, c)
<1>5. IsPred(S, e.i, e2.pref)
  BY <1>4 DEF Linked, ChainsLinked
<1>6. \A j \in S : j \in Live(o) /\ j \in Stored(o) /\ o.blk[j].trn_chain = c
  BY SetsOf DEF Linked, ChainNumbers
<1>7. e2.pref # 0 => e2.pref \in S /\ e2.pref < e.i
  BY <1>5 DEF IsPred
<1> HIDE DEF S, c
<1>8. AtNumber(e2, o, p, g)
  BY <1>4, <1>6, <1>7 DEF AtNumber, c
<1>9. AtNumberStill(e2, o)
  BY <1>4, <1>5 DEF AtNumberStill, S, c
<1>10. e.pc \in Before2
  BY DEF Before2, Before1
<1> QED
  BY <1>2, <1>8, <1>9, <1>10, RunSame

\* get_trn.
LEMMA RunText ==
  ASSUME NEW e, NEW o, NEW m, NEW p, NEW q, NEW g, RunInv(e, o, m, p, q, g),
         e.pc = "text", NEW e2, e2.pc = "add", e2.i = e.i, e2.high = e.high,
         e2.disturbed = e.disturbed, e2.pref = e.pref
  PROVE  RunInv(e2, o, m, p, q, g)
<1>1. Counted(e2, o.highest, m.highest)
  BY DEF RunInv, Counted, Moving, Before2, Before1
<1>2. AtNumber(e2, o, p, g)
  BY DEF RunInv, AtNumber
<1>3. ~e2.disturbed => AtNumberStill(e2, o)
  BY DEF RunInv, AtNumberStill
<1>4. e.pc \in Before2
  BY DEF Before2, Before1
<1> QED
  BY <1>1, <1>2, <1>3, <1>4, RunSame

\* The next number is one more.
LEMMA CountedNext ==
  ASSUME NEW e, e.i \in Nat \ {0}, e.high \in Nat, NEW a \in Nat, NEW b \in Nat,
         Counted(e, a, b), e.pc \in {"hole", "add"},
         NEW e2, e2.pc = "info", e2.i = e.i + 1, e2.high = e.high
  PROVE  /\ b = e.i - 1 /\ e2.i - 1 = e.i /\ Counted(e2, a, b + 1)
         /\ \A j \in 1 .. e2.i - 1 : j \in 1 .. e.i - 1 \/ j = e.i
         /\ e.i \in 1 .. e2.i - 1 /\ e.i <= a
<1>1. b = e.i - 1 /\ e.i <= e.high
  BY DEF Counted, Before2, Before1
<1> QED
  BY <1>1 DEF Counted, Moving

\* expunge_trn in the new meeting.
LEMMA RunHole ==
  ASSUME NEW e, NEW o, NEW m, NEW p, NEW q, NEW g, RunInv(e, o, m, p, q, g),
         e.i \in Nat \ {0}, e.high \in Nat, o.highest \in Nat,
         e.pc = "hole", Linked(m),
         NEW pref \in Int, NEW chain \in Int, NEW flags \in TrnFlags,
         NEW q2, \A j \in 1 .. e.i - 1 : q2[j] = q[j],
         NEW e2, e2.pc = "info", e2.i = e.i + 1, e2.high = e.high, e2.disturbed = e.disturbed
  PROVE  RunInv(e2, o, ExpungeTrn(m, pref, chain, flags), p, q2, g)
<1> DEFINE r == ExpungeTrn(m, pref, chain, flags)
           k == e.i - 1
           k2 == e2.i - 1
<1>1. m.highest \in Nat
  BY MtgFields DEF Linked
<1>2. /\ Stored(r) = Stored(m) /\ Live(r) = Live(m) /\ r.highest = m.highest + 1
      /\ \A i \in Trns(m) : r.blk[i].trn_chain = m.blk[i].trn_chain
  BY ExpungeLinked, ExpungeKeeps DEF NoneAdded, Keeps
<1>3. /\ m.highest = k /\ k2 = e.i /\ Counted(e2, o.highest, m.highest + 1)
      /\ \A j \in 1 .. k2 : j \in 1 .. k \/ j = e.i
  BY <1>1, CountedNext DEF RunInv
<1>4. /\ \A j \in Stored(m) : j \in 1 .. k /\ j # e.i
      /\ \A j \in Live(m) : j \in 1 .. k /\ j # e.i
      /\ \A j \in 1 .. k : j \in Trns(m)
  BY <1>1, <1>3, SetsOf DEF Trns
<1> HIDE DEF r, k, k2
<1>5. Copied(o, r, p, q2, k2, g)
  <2>1. Copied(o, m, p, q, k, g)
    BY DEF RunInv, k
  <2>2. e.i \in Stored(o) => p[e.i] \in g
    BY DEF RunInv, AtNumber
  <2>3. \A j \in 1 .. k : q2[j] = q[j]
    BY DEF k
  <2> QED
    BY <1>2, <1>3, <1>4, <2>1, <2>2, <2>3 DEF Copied
<1>6. \A i, j \in Stored(r) \cap 1 .. k2 :
         /\ i \in Stored(m) \cap 1 .. k /\ j \in Stored(m) \cap 1 .. k
         /\ r.blk[i].trn_chain = m.blk[i].trn_chain /\ r.blk[j].trn_chain = m.blk[j].trn_chain
  BY <1>2, <1>4
<1>7. MergedNone(o, r, k2)
  <2>1. MergedNone(o, m, k)
    BY DEF RunInv, k
  <2> QED
    BY <1>6, <2>1 DEF MergedNone
<1>8. Live(r) = Stored(r)
  BY <1>2 DEF RunInv, Before2, Before1
<1>9. ASSUME ~e2.disturbed PROVE SplitNone(o, r, k2)
  <2>1. SplitNone(o, m, k) /\ e.i \notin Live(o)
    BY <1>9 DEF RunInv, k, AtNumberStill
  <2>2. \A i \in 1 .. k2 : i \in Live(o) <=> i \in Live(r)
    BY <1>2, <1>3, <1>4, <2>1 DEF SplitNone
  <2>3. \A i, j \in Stored(r) \cap 1 .. k2 :
          o.blk[i].trn_chain = o.blk[j].trn_chain => r.blk[i].trn_chain = r.blk[j].trn_chain
    BY <1>6, <2>1 DEF SplitNone
  <2> QED
    BY <2>2, <2>3, Zenon DEF SplitNone
<1>10. AtNumber(e2, o, p, g) /\ AtNumberStill(e2, o)
  BY AtNone
<1> QED
  BY <1>2, <1>3, <1>5, <1>7, <1>8, <1>9, <1>10 DEF RunInv, k2, r

\* A transaction added to a meeting, and what was there before.
LEMMA AddedFacts ==
  ASSUME NEW m, Linked(m), NEW reply \in Nat, CanReply(m, reply), NEW flags \in TrnFlags
  PROVE  LET r == AddTrn(m, reply, flags)
             n == m.highest + 1
         IN  /\ r.highest = n /\ n \in Stored(r) /\ n \in Live(r)
             /\ \A i : i # n => /\ i \in Stored(r) <=> i \in Stored(m)
                                /\ i \in Live(r) <=> i \in Live(m)
             /\ \A i \in Trns(m) : r.blk[i].trn_chain = m.blk[i].trn_chain
             /\ reply # 0 => r.blk[n].trn_chain = m.blk[reply].trn_chain
             /\ reply = 0 => \A i \in Stored(m) : m.blk[i].trn_chain # r.blk[n].trn_chain
<1> DEFINE r == AddTrn(m, reply, flags)
           n == m.highest + 1
<1>1. /\ MtgType(m) /\ ChainNumbers(m) /\ ChainsLinked(m) /\ MeetingLinked(m)
      /\ m.highest \in Nat /\ m.highest_chain \in Nat
  BY MtgFields DEF Linked
<1>2. Keeps(m, r)
  BY AddKeeps
<1>3. m.last <= m.highest /\ AddPref(m, reply) \in 0 .. m.highest /\ OneMore(Live(m), n, Live(r))
  BY <1>1, AddSets
<1>4. OneMore(Stored(m), n, Stored(r))
  BY <1>1, AddChainNumbers
<1>5. r.highest = n
  BY <1>1 DEF AddTrn, MtgType
<1>6. r.blk[n].trn_chain = AddChain(m, reply)
  BY <1>1, <1>3, AddNewBlk
<1> HIDE DEF r, n
<1>7. /\ n \in Stored(r) /\ n \in Live(r)
      /\ \A i : i # n => /\ i \in Stored(r) <=> i \in Stored(m)
                         /\ i \in Live(r) <=> i \in Live(m)
  BY <1>3, <1>4, Zenon DEF OneMore
<1>8. reply # 0 => r.blk[n].trn_chain = m.blk[reply].trn_chain
  BY <1>6 DEF AddChain
<1>9. reply = 0 => \A i \in Stored(m) : m.blk[i].trn_chain # r.blk[n].trn_chain
  BY <1>1, <1>6 DEF AddChain, ChainNumbers
<1> QED
  BY <1>2, <1>5, <1>7, <1>8, <1>9 DEF Keeps, r, n

\* add_trn_priv in the new meeting.
LEMMA RunCopy ==
  ASSUME NEW e, NEW o, NEW m, NEW p, NEW q, NEW g, RunInv(e, o, m, p, q, g),
         e.i \in Nat \ {0}, e.high \in Nat, o.highest \in Nat, e.pref \in Nat,
         e.pc = "add", Linked(m), Linked(o), CanReply(m, e.pref),
         NEW flags \in TrnFlags,
         NEW q2, \A j \in 1 .. e.i - 1 : q2[j] = q[j], q2[e.i] = p[e.i],
         NEW e2, e2.pc = "info", e2.i = e.i + 1, e2.high = e.high, e2.disturbed = e.disturbed
  PROVE  RunInv(e2, o, AddTrn(m, e.pref, flags), p, q2, g)
<1> DEFINE r == AddTrn(m, e.pref, flags)
           k == e.i - 1
           k2 == e2.i - 1
<1>1. m.highest \in Nat
  BY MtgFields DEF Linked
<1>3. /\ m.highest = k /\ k2 = e.i /\ Counted(e2, o.highest, m.highest + 1)
      /\ \A j \in 1 .. k2 : j \in 1 .. k \/ j = e.i
      /\ m.highest + 1 = e.i
  BY <1>1, CountedNext DEF RunInv
<1>2. /\ r.highest = m.highest + 1 /\ e.i \in Stored(r) /\ e.i \in Live(r)
      /\ \A i : i # e.i => /\ i \in Stored(r) <=> i \in Stored(m)
                           /\ i \in Live(r) <=> i \in Live(m)
      /\ \A i \in Trns(m) : r.blk[i].trn_chain = m.blk[i].trn_chain
      /\ e.pref # 0 => r.blk[e.i].trn_chain = m.blk[e.pref].trn_chain
      /\ e.pref = 0 => \A i \in Stored(m) : m.blk[i].trn_chain # r.blk[e.i].trn_chain
  BY <1>3, AddedFacts
<1>4. /\ \A j \in Stored(m) : j \in 1 .. k /\ j # e.i
      /\ \A j \in Live(m) : j \in 1 .. k /\ j # e.i
      /\ \A j \in 1 .. k : j \in Trns(m) /\ j # e.i
  BY <1>1, <1>3, SetsOf DEF Trns
<1>5. /\ e.i \in Stored(o)
      /\ e.pref # 0 => /\ e.pref \in Stored(o) /\ e.pref < e.i
                       /\ o.blk[e.pref].trn_chain = o.blk[e.i].trn_chain
  BY DEF RunInv, AtNumber
<1>6. Live(m) = Stored(m)
  BY DEF RunInv, Before2, Before1
<1>7. e.pref # 0 => e.pref \in Stored(m)
  BY <1>6 DEF CanReply
<1> HIDE DEF r, k, k2
<1>8. Copied(o, r, p, q2, k2, g)
  <2>1. Copied(o, m, p, q, k, g)
    BY DEF RunInv, k
  <2>3. \A j \in 1 .. k : q2[j] = q[j]
    BY DEF k
  <2> QED
    BY <1>2, <1>3, <1>4, <1>5, <2>1, <2>3 DEF Copied
<1>9. \A i \in Stored(r) \cap 1 .. k2 :
         \/ i = e.i
         \/ i \in Stored(m) \cap 1 .. k /\ r.blk[i].trn_chain = m.blk[i].trn_chain
  BY <1>2, <1>4
<1>10. MergedNone(o, r, k2)
  <2>1. \A i, j \in Stored(m) \cap 1 .. k :
           m.blk[i].trn_chain = m.blk[j].trn_chain => o.blk[i].trn_chain = o.blk[j].trn_chain
    BY DEF RunInv, k, MergedNone
  <2>2. \A j \in Stored(m) \cap 1 .. k :
          m.blk[j].trn_chain = r.blk[e.i].trn_chain => o.blk[j].trn_chain = o.blk[e.i].trn_chain
    <3> SUFFICES ASSUME NEW j \in Stored(m) \cap 1 .. k,
                        m.blk[j].trn_chain = r.blk[e.i].trn_chain
                 PROVE  o.blk[j].trn_chain = o.blk[e.i].trn_chain
      OBVIOUS
    <3>1. e.pref # 0
      BY <1>2
    <3>2. e.pref \in Stored(m) \cap 1 .. k
      BY <1>4, <1>7, <3>1
    <3>3. m.blk[j].trn_chain = m.blk[e.pref].trn_chain
      BY <1>2, <3>1
    <3> QED
      BY <1>5, <2>1, <3>1, <3>2, <3>3, Zenon
  <2>3. ASSUME NEW i \in Stored(r) \cap 1 .. k2, NEW j \in Stored(r) \cap 1 .. k2,
               r.blk[i].trn_chain = r.blk[j].trn_chain
        PROVE  o.blk[i].trn_chain = o.blk[j].trn_chain
    <3>1. CASE i = e.i
      BY <1>9, <2>2, <2>3, <3>1
    <3>2. CASE j = e.i
      BY <1>9, <2>2, <2>3, <3>2
    <3>3. CASE i # e.i /\ j # e.i
      BY <1>9, <2>1, <2>3, <3>3
    <3> QED
      BY <3>1, <3>2, <3>3
  <2> QED
    BY <2>3, Zenon DEF MergedNone
<1>11. \A i : i \in Live(r) <=> i \in Stored(r)
  BY <1>2, <1>6
<1>12. Live(r) = Stored(r)
  BY <1>11
<1>13. ASSUME ~e2.disturbed PROVE SplitNone(o, r, k2)
  <2>1. /\ SplitNone(o, m, k) /\ e.i \in Live(o)
        /\ IsPred(ChainMembers(o, o.blk[e.i].trn_chain), e.i, e.pref)
    BY <1>13 DEF RunInv, k, AtNumberStill
  <2>2. \A i \in 1 .. k2 : i \in Live(o) <=> i \in Live(r)
    BY <1>2, <1>3, <1>4, <2>1 DEF SplitNone
  <2>3. \A i, j \in Stored(m) \cap 1 .. k :
           o.blk[i].trn_chain = o.blk[j].trn_chain => m.blk[i].trn_chain = m.blk[j].trn_chain
    BY <2>1 DEF SplitNone
  <2>4. \A j \in Stored(m) \cap 1 .. k :
          o.blk[j].trn_chain = o.blk[e.i].trn_chain => m.blk[j].trn_chain = r.blk[e.i].trn_chain
    <3> SUFFICES ASSUME NEW j \in Stored(m) \cap 1 .. k,
                        o.blk[j].trn_chain = o.blk[e.i].trn_chain
                 PROVE  m.blk[j].trn_chain = r.blk[e.i].trn_chain
      OBVIOUS
    <3>1. j \in Live(o) /\ j < e.i
      BY <1>6, <2>1 DEF SplitNone, k
    <3>2. j \in ChainMembers(o, o.blk[e.i].trn_chain)
      BY <3>1 DEF ChainMembers
    <3>3. e.pref # 0
      BY <2>1, <3>1, <3>2 DEF IsPred
    <3>4. e.pref \in Stored(m) \cap 1 .. k
      BY <1>4, <1>7, <3>3
    <3> QED
      <4>1. o.blk[j].trn_chain = o.blk[e.pref].trn_chain
        BY <1>5, <3>3
      <4>2. m.blk[j].trn_chain = m.blk[e.pref].trn_chain
        BY <2>3, <3>4, <4>1
      <4> QED
        BY <1>2, <3>3, <4>2
  <2>5. ASSUME NEW i \in Stored(r) \cap 1 .. k2, NEW j \in Stored(r) \cap 1 .. k2,
               o.blk[i].trn_chain = o.blk[j].trn_chain
        PROVE  r.blk[i].trn_chain = r.blk[j].trn_chain
    <3>1. CASE i = e.i
      BY <1>9, <2>4, <2>5, <3>1
    <3>2. CASE j = e.i
      BY <1>9, <2>4, <2>5, <3>2
    <3>3. CASE i # e.i /\ j # e.i
      BY <1>9, <2>3, <2>5, <3>3
    <3> QED
      BY <3>1, <3>2, <3>3
  <2> QED
    BY <2>2, <2>5, Zenon DEF SplitNone
<1>14. AtNumber(e2, o, p, g) /\ AtNumberStill(e2, o)
  BY AtNone
<1> QED
  BY <1>2, <1>3, <1>8, <1>10, <1>12, <1>13, <1>14 DEF RunInv, k2, r

\* If nobody has deleted or retrieved anything, what the transaction replied to is
\* there to be replied to.
LEMMA RunCanReply ==
  ASSUME NEW e, NEW o, NEW m, NEW p, NEW q, NEW g, RunInv(e, o, m, p, q, g),
         e.i \in Nat \ {0}, o.highest \in Nat,
         e.pc \in {"text", "add"}, ~e.disturbed
  PROVE  CanReply(m, e.pref)
<1> SUFFICES ASSUME e.pref # 0 PROVE e.pref \in Live(m)
  BY DEF CanReply
<1>1. IsPred(ChainMembers(o, o.blk[e.i].trn_chain), e.i, e.pref) /\ SplitNone(o, m, e.i - 1)
  BY DEF RunInv, AtNumberStill
<1>2. e.pref \in Live(o) /\ e.pref < e.i
  BY <1>1 DEF IsPred, ChainMembers
<1>3. e.pref \in 1 .. e.i - 1
  BY <1>2, SetsOf
<1> QED
  BY <1>1, <1>2, <1>3 DEF SplitNone

-----------------------------------------------------------------------------
(* The two meetings the program has in hand                                *)

\* No file has the number that stands for none.
LEMMA FilesNat == \A f \in Files : f \in Nat /\ f # 0
  BY FilesAssumption DEF Files

\* The meetings that the program has in hand.
LEMMA RunFacts ==
  ASSUME Types, KeptInv, DirInv, Copying
  PROVE  /\ exp.old \in Files /\ New \in Files /\ exp.old \in Kept /\ New \in Kept
         /\ New # exp.old
         /\ exp.pc \in Before2 => New = dir["bak"]
         /\ exp.pc \in {"remove", "unlink", "mark"} => New = dir["loc"]
         /\ exp.pc \in Before2 \/ exp.pc \in {"remove", "unlink", "mark"}
<1>1. exp.pc \in Pcs /\ exp.old \in Files /\ exp.old # 0
  BY DEF Types, RunType, DirInv
<1>2. /\ exp.pc \in Before2 \/ exp.pc \in {"remove", "unlink", "mark"}
      /\ exp.pc \in Before2 => exp.pc \notin {"remove", "unlink", "mark"}
  BY <1>1 DEF Pcs, Before2, Before1, Copying
<1>3. exp.old \in Kept
  BY <1>1 DEF Kept, LeftOver
<1>4. /\ dir["loc"] \in Files \cup {0} /\ dir["bak"] \in Files \cup {0}
      /\ dir["fut"] \in Files \cup {0}
  BY DEF Types
<1>5. CASE exp.pc \in Before2
  <2>1. New = dir["bak"] /\ dir["bak"] # 0
    BY <1>2, <1>5 DEF New, DirInv, Before2
  <2>2. New \in Files /\ New \in Kept
    BY <1>4, <2>1 DEF Kept, LeftOver, Named
  <2>3. New # exp.old
    <3>1. dir["loc"] = exp.old \/ dir["fut"] = exp.old
      BY <1>5 DEF DirInv, Before2
    <3> QED
      BY <2>1, <3>1 DEF DirInv
  <2> QED
    BY <1>1, <1>2, <1>3, <1>5, <2>1, <2>2, <2>3
<1>6. CASE exp.pc \in {"remove", "unlink", "mark"}
  <2>1. New = dir["loc"] /\ dir["loc"] # 0
    BY <1>6 DEF New, DirInv
  <2>2. New \in Files /\ New \in Kept
    BY <1>4, <2>1 DEF Kept, LeftOver, Named
  <2>3. New # exp.old
    <3>1. CASE exp.pc \in {"remove", "unlink"}
      BY <2>1, <3>1 DEF DirInv
    <3>2. CASE exp.pc = "mark"
      BY <2>1, <3>2 DEF DirInv, Named
    <3> QED
      BY <1>6, <3>1, <3>2
  <2> QED
    BY <1>1, <1>2, <1>3, <1>6, <2>1, <2>2, <2>3
<1> QED
  BY <1>2, <1>5, <1>6

\* A file that matters is a meeting.
LEMMA KeptType ==
  ASSUME Types, KeptInv, NEW f \in Kept
  PROVE  /\ f \in Files /\ MtgType(file[f]) /\ file[f].highest \in Nat /\ Linked(file[f])
         /\ IsFile(file[f])
<1>1. f \in Files
  BY DEF Kept, LeftOver
<1>2. Linked(file[f])
  BY DEF KeptInv
<1>3. MtgType(file[f])
  BY <1>2 DEF Linked
<1>4. file[f].highest \in Nat
  BY <1>3, MtgFields, Zenon
<1>5. IsFile(file[f])
  BY <1>3, MeetingFile
<1> QED
  BY <1>1, <1>2, <1>3, <1>4, <1>5

\* Where a file leaves Kept, nothing is asked of it any more.
LEMMA KeptStays ==
  ASSUME dir' = dir, Copying' => Copying /\ exp'.old = exp.old
  PROVE  Kept' \subseteq Kept
  BY DEF Kept, LeftOver, Named

\* A step that changes no file, and drops no lock of a server.
LEMMA SameFiles ==
  ASSUME Types, KeptInv, GoneInv, CallsInv,
         file' = file, text' = text, srv' = srv, acked' = acked, gone' = gone,
         started' = started,
         dir' \in [{"loc", "bak", "fut"} -> Files \cup {0}], dir'["bak"] \in {dir["bak"], 0},
         lock' \in [Files -> Servers \cup {Expunger, Nobody}],
         \A s \in Servers : \A f \in Files : lock[f] = s => lock'[f] = s,
         RunType(exp'), Kept' \subseteq Kept
  PROVE  Types' /\ KeptInv' /\ GoneInv' /\ CallsInv'
<1>1. Types'
  BY DEF Types
<1>2. KeptInv'
  BY DEF KeptInv
<1>3. GoneInv'
  BY DEF GoneInv
<1>4. ASSUME NEW s \in Servers PROVE CallInv(s)'
  <2>1. CallInv(s) /\ srv[s].f \in Files \cup {0}
    BY DEF CallsInv, Types, CallType
  <2>2. /\ srv'[s].f # 0 => file'[srv'[s].f] # NoFile /\ srv'[s].f # dir'["bak"]
        /\ srv'[s].pc \in {"lock", "close"} => srv'[s].f # 0
    BY <2>1 DEF CallInv
  <2>3. ASSUME srv[s].pc = "close"
        PROVE  /\ lock'[srv[s].f] = s
               /\ IsFile(srv[s].mem) /\ (srv[s].op = "add" => srv[s].mem.highest # 0)
               /\ srv[s].f \in Kept' => /\ Allowed(file[srv[s].f], srv[s])
                                        /\ srv[s].mem = Changed(file[srv[s].f], srv[s])
    BY <2>1, <2>3 DEF CallInv
  <2> QED
    BY <2>2, <2>3 DEF CallInv
<1> QED
  BY <1>1, <1>2, <1>3, <1>4 DEF CallsInv

\* The same if no name changes either.
LEMMA SameNames ==
  ASSUME IInv, file' = file, text' = text, srv' = srv, acked' = acked, gone' = gone,
         started' = started, dir' = dir,
         lock' \in [Files -> Servers \cup {Expunger, Nobody}],
         \A s \in Servers : \A f \in Files : lock[f] = s => lock'[f] = s,
         RunType(exp'), DirInv', LookInv',
         Copying' => /\ Copying /\ exp'.old = exp.old /\ New' = New
                     /\ RunInv(exp', file[exp.old], file[New], text[exp.old], text[New], gone)
  PROVE  IInv'
<1>1. Kept' \subseteq Kept
  BY KeptStays
<1>2. Types' /\ KeptInv' /\ GoneInv' /\ CallsInv'
  <2>1. /\ dir' \in [{"loc", "bak", "fut"} -> Files \cup {0}]
        /\ dir'["bak"] \in {dir["bak"], 0}
    BY DEF IInv, Types
  <2> QED
    BY <1>1, <2>1, SameFiles DEF IInv
<1>3. CopyInv'
  BY DEF CopyInv
<1>4. FutInv'
  BY DEF IInv, FutInv
<1>5. AckedBeforeMove'
  BY DEF IInv, AckedBeforeMove, InMeeting, Current
<1>6. BothThere'
  BY DEF IInv, BothThere
<1> QED
  BY <1>2, <1>3, <1>4, <1>5, <1>6 DEF IInv

\* The program as it is before its first step, and as it ends.
LEMMA ExitType ==
    /\ RunType(Exit) /\ Exit.pc = "exit"
    /\ RunType(NoRun) /\ NoRun.pc = "start" /\ NoRun.i = 1 /\ NoRun.old = 0
    /\ \A d : /\ RunType([Exit EXCEPT !.disturbed = d])
              /\ [Exit EXCEPT !.disturbed = d].pc = "exit"
  BY DEF RunType, Exit, NoRun, Pcs

\* The locks of servers are left alone by the program.
ServersKeep == \A s \in Servers : \A f \in Files : lock[f] = s => lock'[f] = s

\* The program ends where both meetings have their names.
LEMMA GivesUp ==
  ASSUME IInv, file' = file, text' = text, srv' = srv, acked' = acked, gone' = gone,
         started' = started, dir' = dir,
         lock' \in [Files -> Servers \cup {Expunger, Nobody}], ServersKeep,
         exp'.pc = "exit", RunType(exp')
  PROVE  IInv'
<1>1. DirInv'
  BY DEF IInv, DirInv, Copying, Before1
<1>2. LookInv'
  BY DEF LookInv
<1>3. ~Copying'
  BY DEF Copying
<1> QED
  BY <1>1, <1>2, <1>3, SameNames DEF ServersKeep

\* The program goes on where both meetings keep their names.
LEMMA GoesOn ==
  ASSUME IInv, file' = file, text' = text, srv' = srv, acked' = acked, gone' = gone,
         started' = started, dir' = dir,
         lock' \in [Files -> Servers \cup {Expunger, Nobody}], ServersKeep, LookInv',
         exp.pc \in Before1, exp'.pc \in Before1, exp'.old = exp.old, RunType(exp'),
         RunInv(exp', file[exp.old], file[New], text[exp.old], text[New], gone)
  PROVE  IInv'
<1>1. DirInv'
  BY DEF IInv, DirInv, Copying, Before1
<1>2. Copying /\ New' = New
  BY DEF Copying, New, Before1
<1> QED
  BY <1>1, <1>2, SameNames DEF ServersKeep

\* No lock changes.
LEMMA SameLocks ==
  ASSUME IInv, lock' = lock
  PROVE  lock' \in [Files -> Servers \cup {Expunger, Nobody}] /\ ServersKeep
  BY DEF IInv, Types, ServersKeep

\* What is known of the run and its two meetings.
LEMMA RunKnown ==
  ASSUME IInv, Copying
  PROVE  /\ RunType(exp)
         /\ RunInv(exp, file[exp.old], file[New], text[exp.old], text[New], gone)
         /\ Linked(file[exp.old]) /\ Linked(file[New])
         /\ file[exp.old].highest \in Nat /\ file[New].highest \in Nat
         /\ GoneOf(file[exp.old], text[exp.old], gone)
         /\ Counted(exp, file[exp.old].highest, file[New].highest)
<1>1. exp.old \in Kept /\ New \in Kept
  BY RunFacts DEF IInv
<1>2. RunType(exp) /\ RunInv(exp, file[exp.old], file[New], text[exp.old], text[New], gone)
  BY DEF IInv, Types, CopyInv
<1>3. GoneOf(file[exp.old], text[exp.old], gone)
  BY <1>1 DEF IInv, GoneInv
<1>4. Types /\ KeptInv
  BY DEF IInv
<1>5. /\ Linked(file[exp.old]) /\ Linked(file[New])
      /\ file[exp.old].highest \in Nat /\ file[New].highest \in Nat
  BY <1>1, <1>4, KeptType
<1>6. Counted(exp, file[exp.old].highest, file[New].highest)
  BY <1>2 DEF RunInv
<1> QED
  BY <1>2, <1>3, <1>5, <1>6

-----------------------------------------------------------------------------
(* The program, up to the renames                                          *)

\* get_trn_info3.
LEMMA GetInfoKeeps ==
  ASSUME IInv, GetInfo
  PROVE  IInv'
<1>1. /\ exp.pc = "info" /\ exp.i <= exp.high
      /\ file' = file /\ text' = text /\ srv' = srv /\ acked' = acked /\ gone' = gone
      /\ started' = started /\ dir' = dir /\ lock' = lock
  BY DEF GetInfo, serverVars
<1>2. Copying /\ exp.pc \in Before1
  BY <1>1 DEF Copying, Before1
<1> DEFINE o == file[exp.old]
           cb == o.blk[exp.i]
<1>3. /\ RunType(exp) /\ RunInv(exp, o, file[New], text[exp.old], text[New], gone)
      /\ Linked(o) /\ o.highest \in Nat /\ file[New].highest \in Nat
      /\ GoneOf(o, text[exp.old], gone)
      /\ Counted(exp, o.highest, file[New].highest)
  BY <1>2, RunKnown
<1>4. exp.i \in Nat \ {0} /\ exp.high \in Nat
  BY <1>3 DEF RunType
<1>5. exp'.pc \in {"hole", "text"} => LookInv'
  BY DEF LookInv
<1>6. CASE cb.trn_addr = 0 \/ cb.deleted
  <2>1. exp' = [exp EXCEPT !.pc = "hole"]
    BY <1>6 DEF GetInfo
  <2>2. /\ RunType(exp') /\ exp'.pc = "hole" /\ exp'.i = exp.i /\ exp'.high = exp.high
        /\ exp'.disturbed = exp.disturbed /\ exp'.old = exp.old
    BY <1>3, <2>1 DEF RunType, Pcs
  <2>3. RunInv(exp', o, file[New], text[exp.old], text[New], gone)
    BY <1>1, <1>3, <1>4, <1>6, <2>2, RunInfoHole
  <2>4. exp'.pc \in Before1
    BY <2>2 DEF Before1
  <2> QED
    BY <1>1, <1>2, <1>5, <2>2, <2>3, <2>4, SameLocks, GoesOn
<1>7. CASE ~(cb.trn_addr = 0 \/ cb.deleted)
  <2>1. exp' = [exp EXCEPT !.pc = "text", !.pref = cb.pref]
    BY <1>7 DEF GetInfo
  <2>2. exp.i \in Trns(o)
    <3>1. exp.i <= o.highest
      BY <1>1, <1>3, <1>4 DEF Counted
    <3> QED
      BY <1>3, <1>4, <3>1, SetsOf
  <2>3. cb.pref \in Int
    BY <1>3, <2>2, BlkFields DEF Linked
  <2>4. /\ RunType(exp') /\ exp'.pc = "text" /\ exp'.i = exp.i /\ exp'.high = exp.high
        /\ exp'.disturbed = exp.disturbed /\ exp'.old = exp.old /\ exp'.pref = cb.pref
    BY <1>3, <2>1, <2>3 DEF RunType, Pcs
  <2>5. RunInv(exp', o, file[New], text[exp.old], text[New], gone)
    BY <1>1, <1>3, <1>4, <1>7, <2>4, RunInfoText
  <2>6. exp'.pc \in Before1
    BY <2>4 DEF Before1
  <2> QED
    BY <1>1, <1>2, <1>5, <2>4, <2>5, <2>6, SameLocks, GoesOn
<1> QED
  BY <1>6, <1>7

\* get_trn.
LEMMA GetTrnKeeps ==
  ASSUME IInv, GetTrn
  PROVE  IInv'
<1>1. /\ exp.pc = "text"
      /\ file' = file /\ text' = text /\ srv' = srv /\ acked' = acked /\ gone' = gone
      /\ started' = started /\ dir' = dir /\ lock' = lock
  BY DEF GetTrn, serverVars
<1>2. Copying /\ exp.pc \in Before1
  BY <1>1 DEF Copying, Before1
<1>3. /\ RunType(exp)
      /\ RunInv(exp, file[exp.old], file[New], text[exp.old], text[New], gone)
  BY <1>2, RunKnown
<1>4. CASE exp' = [Exit EXCEPT !.disturbed = exp.disturbed]
  BY <1>1, <1>4, ExitType, SameLocks, GivesUp
<1>5. CASE exp' = [exp EXCEPT !.pc = "add"]
  <2>1. /\ RunType(exp') /\ exp'.pc = "add" /\ exp'.i = exp.i /\ exp'.high = exp.high
        /\ exp'.disturbed = exp.disturbed /\ exp'.old = exp.old /\ exp'.pref = exp.pref
    BY <1>3, <1>5 DEF RunType, Pcs
  <2>2. RunInv(exp', file[exp.old], file[New], text[exp.old], text[New], gone)
    BY <1>1, <1>3, <2>1, RunText
  <2>3. exp'.pc \in Before1 /\ LookInv'
    BY <2>1 DEF Before1, LookInv
  <2> QED
    BY <1>1, <1>2, <2>1, <2>2, <2>3, SameLocks, GoesOn
<1> QED
  BY <1>4, <1>5 DEF GetTrn

\* get_mtg_info at the end of the range.
LEMMA CheckKeeps ==
  ASSUME IInv, Check
  PROVE  IInv'
<1>1. /\ exp.pc = "info" /\ exp.i > exp.high
      /\ file' = file /\ text' = text /\ srv' = srv /\ acked' = acked /\ gone' = gone
      /\ started' = started /\ dir' = dir /\ lock' = lock
  BY DEF Check, serverVars
<1>2. Copying /\ exp.pc \in Before1
  BY <1>1 DEF Copying, Before1
<1> DEFINE a == file[exp.old].highest
           b == file[New].highest
<1>3. /\ RunType(exp)
      /\ RunInv(exp, file[exp.old], file[New], text[exp.old], text[New], gone)
      /\ a \in Nat /\ b \in Nat /\ Counted(exp, a, b)
  BY <1>2, RunKnown
<1>4. exp.i \in Nat \ {0} /\ exp.high \in Nat
  BY <1>3 DEF RunType
<1>5. exp.i = exp.high + 1 /\ exp.high <= a /\ b = exp.i - 1
  BY <1>1, <1>2, <1>3, <1>4 DEF Counted, Before2
<1>6. ASSUME exp' = [exp EXCEPT !.high = a], a > exp.high PROVE IInv'
  <2>1. /\ RunType(exp') /\ exp'.pc = "info" /\ exp'.i = exp.i /\ exp'.high = a
        /\ exp'.disturbed = exp.disturbed /\ exp'.old = exp.old
    BY <1>1, <1>3, <1>6 DEF RunType, Pcs
  <2>2. Counted(exp', a, b)
    BY <1>3, <1>4, <1>5, <1>6, <2>1 DEF Counted, Moving
  <2>3. exp'.pc \in Before1 /\ LookInv' /\ exp.pc \in Before2
    BY <1>1, <2>1 DEF Before1, Before2, LookInv
  <2>4. RunInv(exp', file[exp.old], file[New], text[exp.old], text[New], gone)
    BY <1>3, <2>1, <2>2, <2>3, RunMoves
  <2> QED
    BY <1>1, <1>2, <2>1, <2>3, <2>4, SameLocks, GoesOn
<1>7. ASSUME exp' = [exp EXCEPT !.pc = "lock", !.mod = acl[exp.old]] PROVE IInv'
  <2>1. /\ RunType(exp') /\ exp'.pc = "lock" /\ exp'.i = exp.i /\ exp'.high = exp.high
        /\ exp'.disturbed = exp.disturbed /\ exp'.old = exp.old
    BY <1>3, <1>7 DEF RunType, Pcs
  <2>2. Counted(exp', a, b)
    BY <1>3, <1>4, <1>5, <2>1 DEF Counted, Moving
  <2>3. exp'.pc \in Before1 /\ LookInv' /\ exp.pc \in Before2
    BY <1>1, <2>1 DEF Before1, Before2, LookInv
  <2>4. RunInv(exp', file[exp.old], file[New], text[exp.old], text[New], gone)
    BY <1>3, <2>1, <2>2, <2>3, RunMoves
  <2> QED
    BY <1>1, <1>2, <2>1, <2>3, <2>4, SameLocks, GoesOn
<1> QED
  BY <1>6, <1>7 DEF Check

\* The exclusive lock of the old meeting.
LEMMA LockOldKeeps ==
  ASSUME IInv, LockOld
  PROVE  IInv'
<1>1. /\ exp.pc = "lock" /\ lock[exp.old] = Nobody
      /\ lock' = [lock EXCEPT ![exp.old] = Expunger]
      /\ exp' = [exp EXCEPT !.pc = "recheck"]
      /\ file' = file /\ text' = text /\ srv' = srv /\ acked' = acked /\ gone' = gone
      /\ started' = started /\ dir' = dir
  BY DEF LockOld, serverVars
<1>2. Copying /\ exp.pc \in Before1
  BY <1>1 DEF Copying, Before1
<1> DEFINE a == file[exp.old].highest
           b == file[New].highest
<1>3. /\ RunType(exp)
      /\ RunInv(exp, file[exp.old], file[New], text[exp.old], text[New], gone)
      /\ a \in Nat /\ b \in Nat /\ Counted(exp, a, b)
  BY <1>2, RunKnown
<1>4. /\ RunType(exp') /\ exp'.pc = "recheck" /\ exp'.i = exp.i /\ exp'.high = exp.high
      /\ exp'.disturbed = exp.disturbed /\ exp'.old = exp.old
  BY <1>1, <1>3 DEF RunType, Pcs
<1>5. Counted(exp', a, b)
  BY <1>1, <1>2, <1>3, <1>4 DEF Counted, Moving, Before2
<1>6. exp'.pc \in Before1 /\ exp.pc \in Before2
  BY <1>1, <1>4 DEF Before1, Before2
<1>7. RunInv(exp', file[exp.old], file[New], text[exp.old], text[New], gone)
  BY <1>3, <1>4, <1>5, <1>6, RunMoves
<1>8. exp.old \in Files
  BY <1>2, RunFacts DEF IInv
<1>9. lock \in [Files -> Servers \cup {Expunger, Nobody}]
  BY DEF IInv, Types
<1>10. lock' \in [Files -> Servers \cup {Expunger, Nobody}] /\ lock'[exp.old] = Expunger
  BY <1>1, <1>8, <1>9
<1>11. ServersKeep
  BY <1>1, <1>9, LockersAssumption DEF ServersKeep
<1>12. LookInv'
  BY <1>4 DEF LookInv
<1> QED
  BY <1>1, <1>2, <1>4, <1>6, <1>7, <1>10, <1>11, <1>12, GoesOn

\* The program drops its own lock.
LEMMA DropsLock ==
  ASSUME IInv, exp.old \in Files, lock' = Dropped(exp.old)
  PROVE  lock' \in [Files -> Servers \cup {Expunger, Nobody}] /\ ServersKeep
<1>1. lock \in [Files -> Servers \cup {Expunger, Nobody}]
  BY DEF IInv, Types
<1> QED
  BY <1>1, LockersAssumption DEF ServersKeep, Dropped

\* open_mtg with the lock, which it may drop.
LEMMA RecheckOpenKeeps ==
  ASSUME IInv, RecheckOpen
  PROVE  IInv'
<1>1. /\ exp.pc = "recheck" /\ exp' = [exp EXCEPT !.pc = "reread", !.no_nuke = TRUE]
      /\ lock' = lock \/ lock' = Dropped(exp.old)
      /\ file' = file /\ text' = text /\ srv' = srv /\ acked' = acked /\ gone' = gone
      /\ started' = started /\ dir' = dir
  BY DEF RecheckOpen, serverVars
<1>2. Copying /\ exp.pc \in Before1
  BY <1>1 DEF Copying, Before1
<1> DEFINE a == file[exp.old].highest
           b == file[New].highest
<1>3. /\ RunType(exp)
      /\ RunInv(exp, file[exp.old], file[New], text[exp.old], text[New], gone)
      /\ a \in Nat /\ b \in Nat /\ Counted(exp, a, b)
  BY <1>2, RunKnown
<1>4. /\ RunType(exp') /\ exp'.pc = "reread" /\ exp'.i = exp.i /\ exp'.high = exp.high
      /\ exp'.disturbed = exp.disturbed /\ exp'.old = exp.old
  BY <1>1, <1>3 DEF RunType, Pcs
<1>5. Counted(exp', a, b)
  BY <1>1, <1>2, <1>3, <1>4 DEF Counted, Moving, Before2
<1>6. exp'.pc \in Before1 /\ exp.pc \in Before2 /\ LookInv'
  BY <1>1, <1>4 DEF Before1, Before2, LookInv
<1>7. RunInv(exp', file[exp.old], file[New], text[exp.old], text[New], gone)
  BY <1>3, <1>4, <1>5, <1>6, RunMoves
<1>8. exp.old \in Files
  BY <1>2, RunFacts DEF IInv
<1>9. lock' \in [Files -> Servers \cup {Expunger, Nobody}] /\ ServersKeep
  BY <1>1, <1>8, SameLocks, DropsLock
<1> QED
  BY <1>1, <1>2, <1>4, <1>6, <1>7, <1>9, GoesOn

\* The last look for new transactions.
LEMMA RecheckKeeps ==
  ASSUME IInv, Recheck
  PROVE  IInv'
<1>1. /\ exp.pc = "reread"
      /\ file' = file /\ text' = text /\ srv' = srv /\ acked' = acked /\ gone' = gone
      /\ started' = started /\ dir' = dir
  BY DEF Recheck, serverVars
<1>2. Copying /\ exp.pc \in Before1
  BY <1>1 DEF Copying, Before1
<1> DEFINE a == file[exp.old].highest
           b == file[New].highest
<1>3. /\ RunType(exp)
      /\ RunInv(exp, file[exp.old], file[New], text[exp.old], text[New], gone)
      /\ a \in Nat /\ b \in Nat /\ Counted(exp, a, b)
  BY <1>2, RunKnown
<1>4. exp.i \in Nat \ {0} /\ exp.high \in Nat
  BY <1>3 DEF RunType
<1>5. exp.i = exp.high + 1 /\ exp.high <= a /\ b = exp.i - 1
  BY <1>1, <1>2, <1>3, <1>4 DEF Counted, Before2
<1>6. exp.old \in Files /\ dir["loc"] = exp.old /\ exp.old # 0
  BY <1>2, RunFacts DEF IInv, DirInv
<1>7. ASSUME a > exp.high, exp' = [exp EXCEPT !.pc = "info", !.high = a],
             lock' = Dropped(exp.old)
      PROVE  IInv'
  <2>1. /\ RunType(exp') /\ exp'.pc = "info" /\ exp'.i = exp.i /\ exp'.high = a
        /\ exp'.disturbed = exp.disturbed /\ exp'.old = exp.old
    BY <1>3, <1>7 DEF RunType, Pcs
  <2>2. Counted(exp', a, b)
    BY <1>3, <1>4, <1>5, <1>7, <2>1 DEF Counted, Moving
  <2>3. exp'.pc \in Before1 /\ LookInv' /\ exp.pc \in Before2
    BY <1>1, <2>1 DEF Before1, Before2, LookInv
  <2>4. RunInv(exp', file[exp.old], file[New], text[exp.old], text[New], gone)
    BY <1>3, <2>1, <2>2, <2>3, RunMoves
  <2> QED
    BY <1>1, <1>2, <1>6, <1>7, <2>1, <2>3, <2>4, DropsLock, GoesOn
<1>8. ASSUME a <= exp.high, exp' = [exp EXCEPT !.pc = "rename1"], lock' = lock
      PROVE  IInv'
  <2>1. /\ RunType(exp') /\ exp'.pc = "rename1" /\ exp'.i = exp.i /\ exp'.high = exp.high
        /\ exp'.disturbed = exp.disturbed /\ exp'.old = exp.old
    BY <1>3, <1>8 DEF RunType, Pcs
  <2>2. Counted(exp', a, b)
    BY <1>3, <1>4, <1>5, <1>8, <2>1 DEF Counted, Moving
  <2>3. exp'.pc \in Before1 /\ exp.pc \in Before2
    BY <1>1, <2>1 DEF Before1, Before2
  <2>4. RunInv(exp', file[exp.old], file[New], text[exp.old], text[New], gone)
    BY <1>3, <2>1, <2>2, <2>3, RunMoves
  <2>5. LookInv'
    <3>1. ASSUME NEW x \in acked PROVE x.late \/ x.id \in gone \/ x.n <= exp.high
      <4>1. x.late \/ x.id \in gone \/ x.n \in Stored(file[exp.old])
        BY <1>6 DEF IInv, AckedBeforeMove, InMeeting, Current
      <4>2. x.n \in Stored(file[exp.old]) => x.n \in Nat /\ x.n <= a
        BY <1>3, SetsOf
      <4> QED
        BY <1>3, <1>4, <1>8, <4>1, <4>2
    <3> QED
      BY <1>1, <2>1, <3>1 DEF LookInv
  <2> QED
    BY <1>1, <1>2, <1>8, <2>1, <2>3, <2>4, <2>5, SameLocks, GoesOn
<1> QED
  BY <1>7, <1>8 DEF Recheck

\* The program is killed, at any step.
LEMMA ExpungerDiesKeeps ==
  ASSUME IInv, ExpungerDies
  PROVE  IInv'
<1>1. /\ exp' = Exit
      /\ lock' = [f \in Files |-> IF lock[f] = Expunger THEN Nobody ELSE lock[f]]
      /\ file' = file /\ text' = text /\ srv' = srv /\ acked' = acked /\ gone' = gone
      /\ started' = started /\ dir' = dir
  BY DEF ExpungerDies, serverVars
<1>2. lock \in [Files -> Servers \cup {Expunger, Nobody}]
  BY DEF IInv, Types
<1>3. lock' \in [Files -> Servers \cup {Expunger, Nobody}] /\ ServersKeep
  BY <1>1, <1>2, LockersAssumption DEF ServersKeep
<1> QED
  BY <1>1, <1>3, ExitType, GivesUp

\* The program is run again, beside what an earlier run left.
LEMMA RerunKeeps ==
  ASSUME IInv, Rerun
  PROVE  IInv'
<1>1. /\ exp' = NoRun /\ exp.pc = "exit" /\ dir["loc"] # 0 /\ lock' = lock
      /\ file' = file /\ text' = text /\ srv' = srv /\ acked' = acked /\ gone' = gone
      /\ started' = started /\ dir' = dir
  BY DEF Rerun, serverVars
<1>2. RunType(exp') /\ exp'.pc = "start"
  BY <1>1, ExitType
<1>3. DirInv'
  BY <1>1, <1>2 DEF IInv, DirInv, Copying, Before1
<1>4. LookInv'
  BY <1>2 DEF LookInv
<1>5. ~Copying'
  BY <1>2 DEF Copying
<1> QED
  BY <1>1, <1>2, <1>3, <1>4, <1>5, SameLocks, SameNames DEF ServersKeep

\* A file that nobody has used has no name, and no server has it open, once nothing is
\* left at "bak".
LEMMA UnusedFile ==
  ASSUME IInv, dir["bak"] = 0, NEW f \in UnusedFiles
  PROVE  /\ f \in Files /\ f # 0 /\ ~Named(f) /\ f \notin Kept
         /\ \A s \in Servers : srv[s].f # f
<1>1. f \in Files /\ file[f] = NoFile /\ f # 0
  BY FilesNat DEF UnusedFiles
<1>2. f \notin Kept
  BY <1>1 DEF IInv, KeptInv
<1>3. ~Named(f)
  BY <1>1, <1>2 DEF Kept, LeftOver
<1>4. \A s \in Servers : srv[s].f # f
  BY <1>1 DEF IInv, CallsInv, CallInv
<1> QED
  BY <1>1, <1>2, <1>3, <1>4

\* create_mtg_priv, at "bak".
LEMMA StartKeeps ==
  ASSUME IInv, Start
  PROVE  IInv'
<1>1. /\ exp.pc = "start" /\ dir["loc"] # 0 /\ lock' = lock
      /\ text' = text /\ srv' = srv /\ acked' = acked /\ gone' = gone
      /\ started' = started
  BY DEF Start, serverVars
<1>2. CASE exp' = Exit /\ file' = file /\ dir' = dir
  BY <1>1, <1>2, ExitType, SameLocks, GivesUp
<1>3. ASSUME dir["bak"] = 0, NEW f \in UnusedFiles, dir' = [dir EXCEPT !["bak"] = f],
             file' = [file EXCEPT ![f] = EmptyMeeting],
             exp' = [NoRun EXCEPT !.pc = "info", !.old = dir["loc"],
                                  !.high = file[dir["loc"]].highest]
      PROVE  IInv'
  <2> DEFINE old == dir["loc"]
  <2>1. /\ Types /\ KeptInv /\ DirInv /\ dir \in [{"loc", "bak", "fut"} -> Files \cup {0}]
        /\ DOMAIN file = Files
    BY DEF IInv, Types
  <2>2. f \in Files /\ f # 0 /\ ~Named(f) /\ f \notin Kept /\ \A s \in Servers : srv[s].f # f
    BY <1>3, UnusedFile
  <2>3. old \in Files /\ old \in Kept /\ old # f
    <3>1. old \in Files
      BY <1>1, <2>1
    <3>2. old \in Kept
      BY <1>1, <1>3, <3>1 DEF Kept, LeftOver, Named
    <3> QED
      BY <2>2, <3>1, <3>2
  <2>4. file[old].highest \in Nat /\ Linked(file[old])
    BY <2>1, <2>3, KeptType
  <2>5. /\ dir' \in [{"loc", "bak", "fut"} -> Files \cup {0}]
        /\ dir'["loc"] = old /\ dir'["bak"] = f /\ dir'["fut"] = dir["fut"]
    BY <1>3, <2>1, <2>2
  <2>6. /\ DOMAIN file' = Files /\ file'[f] = EmptyMeeting
        /\ \A h \in Files : h # f => file'[h] = file[h]
    BY <1>3, <2>1, <2>2
  <2>7. /\ exp'.pc = "info" /\ exp'.i = 1 /\ exp'.old = old /\ exp'.high = file[old].highest
        /\ RunType(exp')
    BY <1>3, <2>3, <2>4, ExitType DEF NoRun, RunType, Pcs
  <2>8. Copying' /\ New' = f
    BY <2>5, <2>7 DEF Copying, New
  <2>9. \A h \in Kept' : h = f \/ (h \in Kept /\ h # f /\ h \in Files)
    <3>1. \A h \in Files : h \in Kept' => h = f \/ Named(h)
      BY <2>5, <2>7 DEF Kept, LeftOver, Named
    <3>2. \A h \in Kept' : h \in Files
      BY DEF Kept, LeftOver
    <3>3. \A h \in Files : Named(h) => h \in Kept
      BY <1>3, FilesNat DEF Kept, LeftOver
    <3> QED
      BY <2>2, <3>1, <3>2, <3>3
  <2>10. Linked(EmptyMeeting) /\ EmptyMeeting.created /\ MtgType(EmptyMeeting)
         /\ Stored(EmptyMeeting) = {}
    BY EmptyLinked DEF Linked, EmptyMeeting
  <2>11. IsFile(EmptyMeeting) /\ EmptyMeeting # NoFile
    BY <2>10, MeetingFile
  <2>12. Types'
    <3>1. \A h \in Files : file'[h] # NoFile => IsFile(file'[h])
      BY <2>1, <2>6, <2>11 DEF Types
    <3> QED
      BY <1>1, <2>1, <2>5, <2>6, <2>7, <3>1 DEF Types
  <2>13. KeptInv'
    <3>1. \A h \in Kept' : file'[h] # NoFile /\ Linked(file'[h]) /\ file'[h].created
      <4> SUFFICES ASSUME NEW h \in Kept'
                   PROVE  file'[h] # NoFile /\ Linked(file'[h]) /\ file'[h].created
        OBVIOUS
      <4>1. CASE h = f
        BY <2>6, <2>10, <2>11, <4>1
      <4>2. CASE h \in Kept /\ h # f /\ h \in Files
        BY <2>1, <2>6, <4>2 DEF KeptInv
      <4> QED
        BY <2>9, <4>1, <4>2
    <3> QED
      BY <3>1 DEF KeptInv
  <2>14. GoneInv'
    <3>1. \A h \in Kept' : GoneOf(file'[h], text[h], gone)
      <4> SUFFICES ASSUME NEW h \in Kept' PROVE GoneOf(file'[h], text[h], gone)
        OBVIOUS
      <4>1. CASE h = f
        BY <2>6, <2>10, <4>1 DEF GoneOf
      <4>2. CASE h \in Kept /\ h # f /\ h \in Files
        BY <2>6, <4>2 DEF IInv, GoneInv
      <4> QED
        BY <2>9, <4>1, <4>2
    <3> QED
      BY <1>1, <3>1 DEF GoneInv
  <2>15. CallsInv'
    <3>1. ASSUME NEW s \in Servers PROVE CallInv(s)'
      <4> DEFINE c == srv[s]
      <4>1. CallInv(s) /\ c.f \in Files \cup {0} /\ c.f # f
        BY <2>2 DEF IInv, CallsInv, Types, CallType
      <4>2. c.f # 0 => file'[c.f] = file[c.f]
        BY <2>6, <4>1
      <4>3. c.f \in Kept' => c.f \in Kept
        BY <2>9, <4>1
      <4>4. /\ c.f # 0 => file'[c.f] # NoFile /\ c.f # dir'["bak"]
            /\ c.pc \in {"lock", "close"} => c.f # 0
        BY <2>5, <4>1, <4>2 DEF CallInv
      <4>5. c.pc = "close" =>
              /\ lock[c.f] = s
              /\ IsFile(c.mem) /\ (c.op = "add" => c.mem.highest # 0)
              /\ c.f \in Kept' => Allowed(file'[c.f], c) /\ c.mem = Changed(file'[c.f], c)
        BY <4>1, <4>2, <4>3, <4>4 DEF CallInv
      <4> QED
        BY <1>1, <4>4, <4>5 DEF CallInv
    <3> QED
      BY <3>1 DEF CallsInv
  <2>16. DirInv'
    <3>1. dir["fut"] # f /\ old # f /\ dir["fut"] # old
      BY <1>1, <2>1, <2>2, <2>3 DEF Named, DirInv
    <3>2. \A a, b \in {"loc", "bak", "fut"} : dir'[a] = dir'[b] /\ dir'[a] # 0 => a = b
      BY <2>5, <3>1
    <3> QED
      BY <1>1, <2>2, <2>5, <2>7, <3>2 DEF DirInv, Before1
  <2>17. LookInv'
    BY <2>7 DEF LookInv
  <2>18. CopyInv'
    <3>1. RunInv(exp', file[old], EmptyMeeting, text[old], text[f], gone)
      BY <2>4, <2>7, RunStart
    <3>2. file'[old] = file[old]
      BY <2>3, <2>6
    <3> QED
      BY <1>1, <2>6, <2>7, <2>8, <3>1, <3>2 DEF CopyInv
  <2>19. FutInv' /\ BothThere'
    BY <1>1, <2>5 DEF FutInv, BothThere
  <2>20. AckedBeforeMove'
    <3>1. Current = old /\ Current' = old /\ file'[old] = file[old]
      BY <1>1, <2>3, <2>5, <2>6 DEF Current
    <3>2. \A a \in acked : InMeeting(a)' <=> InMeeting(a)
      BY <1>1, <3>1 DEF InMeeting
    <3> QED
      BY <1>1, <3>2 DEF IInv, AckedBeforeMove
  <2> QED
    BY <2>12, <2>13, <2>14, <2>15, <2>16, <2>17, <2>18, <2>19, <2>20 DEF IInv
<1> QED
  BY <1>2, <1>3 DEF Start

\* A number more in the new meeting.
LEMMA CopiesOn ==
  ASSUME IInv, exp.pc \in {"hole", "add"}, NEW r, NEW q2,
         file' = [file EXCEPT ![dir["bak"]] = r], text' = [text EXCEPT ![dir["bak"]] = q2],
         srv' = srv, acked' = acked, gone' = gone, started' = started,
         dir' = dir, lock' = lock,
         Linked(r), r.created,
         RunType(exp'), exp'.pc = "info", exp'.old = exp.old,
         RunInv(exp', file[exp.old], r, text[exp.old], q2, gone)
  PROVE  IInv'
<1> DEFINE f == dir["bak"]
<1>1. Copying /\ exp.pc \in Before1 /\ exp.pc \in Before2
  BY DEF Copying, Before1, Before2
<1>2. /\ Types /\ KeptInv /\ DirInv /\ DOMAIN file = Files /\ DOMAIN text = Files
  BY DEF IInv, Types
<1>3. /\ exp.old \in Files /\ f \in Files /\ f \in Kept /\ f # exp.old /\ New = f
  BY <1>1, <1>2, RunFacts
<1>4. Copying' /\ New' = f
  BY DEF Copying, New
<1>5. /\ DOMAIN file' = Files /\ file'[f] = r
      /\ \A h \in Files : h # f => file'[h] = file[h]
      /\ DOMAIN text' = Files /\ text'[f] = q2
      /\ \A h \in Files : h # f => text'[h] = text[h]
  BY <1>2, <1>3
<1>6. \A h \in Kept' : h \in Kept /\ h \in Files
  BY <1>1 DEF Kept, LeftOver, Named
<1>7. IsFile(r) /\ r # NoFile
  BY MeetingFile DEF Linked
<1>8. dir["loc"] = exp.old /\ exp.old # 0
  BY <1>1, <1>2 DEF DirInv
<1>9. Types'
  <2>1. \A h \in Files : file'[h] # NoFile => IsFile(file'[h])
    BY <1>2, <1>5, <1>7 DEF Types
  <2> QED
    BY <1>2, <1>5, <2>1 DEF Types
<1>10. KeptInv'
  <2>1. \A h \in Kept' : file'[h] # NoFile /\ Linked(file'[h]) /\ file'[h].created
    <3> SUFFICES ASSUME NEW h \in Kept'
                 PROVE  file'[h] # NoFile /\ Linked(file'[h]) /\ file'[h].created
      OBVIOUS
    <3>1. CASE h = f
      BY <1>5, <1>7, <3>1
    <3>2. CASE h # f
      BY <1>2, <1>5, <1>6, <3>2 DEF KeptInv
    <3> QED
      BY <3>1, <3>2
  <2> QED
    BY <2>1 DEF KeptInv
<1>11. GoneInv'
  <2>1. Live(r) = Stored(r)
    BY DEF RunInv, Before2, Before1
  <2>2. \A h \in Kept' : GoneOf(file'[h], text'[h], gone)
    <3> SUFFICES ASSUME NEW h \in Kept' PROVE GoneOf(file'[h], text'[h], gone)
      OBVIOUS
    <3>1. CASE h = f
      BY <1>5, <2>1, <3>1 DEF GoneOf
    <3>2. CASE h # f
      BY <1>5, <1>6, <3>2 DEF IInv, GoneInv
    <3> QED
      BY <3>1, <3>2
  <2> QED
    BY <2>2 DEF GoneInv
<1>12. CallsInv'
  <2>1. ASSUME NEW s \in Servers PROVE CallInv(s)'
    <3> DEFINE c == srv[s]
    <3>1. CallInv(s) /\ c.f \in Files \cup {0}
      BY DEF IInv, CallsInv, Types, CallType
    <3>2. c.f # 0 => file'[c.f] = file[c.f]
      BY <1>5, <3>1 DEF CallInv
    <3>3. c.f \in Kept' => c.f \in Kept
      BY <1>6
    <3>4. /\ c.f # 0 => file'[c.f] # NoFile /\ c.f # dir["bak"]
          /\ c.pc \in {"lock", "close"} => c.f # 0
      BY <3>1, <3>2 DEF CallInv
    <3>5. c.pc = "close" =>
            /\ lock[c.f] = s
            /\ IsFile(c.mem) /\ (c.op = "add" => c.mem.highest # 0)
            /\ c.f \in Kept' => Allowed(file'[c.f], c) /\ c.mem = Changed(file'[c.f], c)
      BY <3>1, <3>2, <3>3, <3>4 DEF CallInv
    <3> QED
      BY <3>4, <3>5 DEF CallInv
  <2> QED
    BY <2>1 DEF CallsInv
<1>13. DirInv'
  BY <1>1, <1>2 DEF DirInv, Before1, Copying
<1>14. LookInv'
  BY DEF LookInv
<1>15. CopyInv'
  <2>1. file'[exp.old] = file[exp.old] /\ text'[exp.old] = text[exp.old]
    BY <1>3, <1>5
  <2> QED
    BY <1>4, <1>5, <2>1 DEF CopyInv
<1>16. FutInv' /\ BothThere'
  BY <1>8 DEF FutInv, BothThere
<1>17. AckedBeforeMove'
  <2>1. /\ Current = exp.old /\ Current' = exp.old
        /\ file'[exp.old] = file[exp.old] /\ text'[exp.old] = text[exp.old]
    BY <1>3, <1>5, <1>8 DEF Current
  <2>2. \A a \in acked : InMeeting(a)' <=> InMeeting(a)
    BY <2>1 DEF InMeeting
  <2> QED
    BY <2>2 DEF IInv, AckedBeforeMove
<1> QED
  BY <1>9, <1>10, <1>11, <1>12, <1>13, <1>14, <1>15, <1>16, <1>17 DEF IInv

\* What both ways of copying a number have in common.
LEMMA CopyFacts ==
  ASSUME IInv, exp.pc \in {"hole", "add"}
  PROVE  /\ dir["bak"] \in Files /\ New = dir["bak"] /\ exp.old \in Files
         /\ Linked(file[New]) /\ file[New].created /\ Linked(file[exp.old])
         /\ file[exp.old].highest \in Nat
         /\ exp.i \in Nat \ {0} /\ exp.high \in Nat /\ exp.pref \in Int /\ RunType(exp)
         /\ RunInv(exp, file[exp.old], file[New], text[exp.old], text[New], gone)
         /\ DOMAIN text = Files /\ DOMAIN file = Files
<1>1. Copying /\ exp.pc \in Before2
  BY DEF Copying, Before1, Before2
<1>2. Types /\ KeptInv /\ DirInv /\ DOMAIN text = Files /\ DOMAIN file = Files
  BY DEF IInv, Types
<1>3. New = dir["bak"] /\ New \in Files /\ New \in Kept /\ exp.old \in Files
  BY <1>1, <1>2, RunFacts
<1>4. /\ RunType(exp)
      /\ RunInv(exp, file[exp.old], file[New], text[exp.old], text[New], gone)
      /\ Linked(file[exp.old]) /\ Linked(file[New]) /\ file[exp.old].highest \in Nat
  BY <1>1, RunKnown
<1>5. file[New].created
  BY <1>2, <1>3 DEF KeptInv
<1>6. exp.i \in Nat \ {0} /\ exp.high \in Nat /\ exp.pref \in Int
  BY <1>4 DEF RunType
<1> QED
  BY <1>2, <1>3, <1>4, <1>5, <1>6

\* The program goes on to the next number.
LEMMA NextType ==
  ASSUME RunType(exp), exp' = [exp EXCEPT !.pc = "info", !.i = @ + 1, !.no_nuke = FALSE]
  PROVE  /\ RunType(exp') /\ exp'.pc = "info" /\ exp'.i = exp.i + 1 /\ exp'.high = exp.high
         /\ exp'.disturbed = exp.disturbed /\ exp'.old = exp.old
  BY DEF RunType, Pcs

\* expunge_trn.
LEMMA CopyHoleKeeps ==
  ASSUME IInv, CopyHole
  PROVE  IInv'
<1> DEFINE f == dir["bak"]
           q2 == [i \in 1 .. exp.i |-> IF i = exp.i THEN 0 ELSE text[f][i]]
<1>1. /\ exp.pc = "hole"
      /\ exp' = [exp EXCEPT !.pc = "info", !.i = @ + 1, !.no_nuke = FALSE]
      /\ srv' = srv /\ acked' = acked /\ gone' = gone
      /\ started' = started /\ dir' = dir /\ lock' = lock
  BY DEF CopyHole, serverVars
<1>2. PICK pref \in Junk, chain \in Junk, flags \in TrnFlags :
         file' = [file EXCEPT ![f] = ExpungeTrn(@, pref, chain, flags)]
  BY DEF CopyHole
<1>3. /\ f \in Files /\ New = f /\ Linked(file[New]) /\ file[New].created
      /\ file[exp.old].highest \in Nat
      /\ exp.i \in Nat \ {0} /\ exp.high \in Nat /\ RunType(exp)
      /\ RunInv(exp, file[exp.old], file[New], text[exp.old], text[New], gone)
      /\ DOMAIN text = Files /\ DOMAIN file = Files
  BY <1>1, CopyFacts
<1>4. text' = [text EXCEPT ![f] = q2]
  BY <1>3 DEF CopyHole
<1> DEFINE r == ExpungeTrn(file[f], pref, chain, flags)
<1>5. file' = [file EXCEPT ![f] = r]
  BY <1>2, <1>3
<1>6. pref \in Int /\ chain \in Int /\ flags \in TrnFlags
  BY JunkAssumption
<1>7. Linked(r)
  BY <1>3, <1>6, ExpungeLinked
<1>8. r.created
  <2>1. r.created = file[f].created
    BY <1>3 DEF ExpungeTrn, Linked, MtgType
  <2> QED
    BY <1>3, <2>1
<1>9. \A j \in 1 .. exp.i - 1 : q2[j] = text[f][j]
  BY <1>3
<1>10. /\ RunType(exp') /\ exp'.pc = "info" /\ exp'.i = exp.i + 1 /\ exp'.high = exp.high
       /\ exp'.disturbed = exp.disturbed /\ exp'.old = exp.old
  BY <1>1, <1>3, NextType
<1> HIDE DEF q2
<1>11. RunInv(exp', file[exp.old], r, text[exp.old], q2, gone)
  <2>1. /\ RunInv(exp, file[exp.old], file[f], text[exp.old], text[f], gone)
        /\ Linked(file[f]) /\ exp.i \in Nat \ {0} /\ exp.high \in Nat
        /\ file[exp.old].highest \in Nat /\ exp.pc = "hole"
    BY <1>1, <1>3
  <2> HIDE DEF f
  <2> QED
    BY <1>6, <1>9, <1>10, <2>1, RunHole
<1> HIDE DEF r
<1> QED
  BY <1>1, <1>4, <1>5, <1>7, <1>8, <1>10, <1>11, CopiesOn

\* get_trn and add_trn_priv.
LEMMA CopyTrnKeeps ==
  ASSUME IInv, CopyTrn
  PROVE  IInv'
<1> DEFINE f == dir["bak"]
           o == file[exp.old]
           q2 == [i \in 1 .. exp.i |-> IF i = exp.i THEN text[exp.old][i] ELSE text[f][i]]
           flags == o.blk[exp.i].flags
           r == AddTrn(file[f], exp.pref, flags)
<1>1. /\ exp.pc = "add" /\ srv' = srv /\ acked' = acked /\ gone' = gone
      /\ started' = started /\ dir' = dir /\ lock' = lock
  BY DEF CopyTrn, serverVars
<1>2. CASE exp' = [Exit EXCEPT !.disturbed = exp.disturbed] /\ file' = file /\ text' = text
  BY <1>1, <1>2, ExitType, SameLocks, GivesUp
<1>3. ASSUME CanReply(file[f], exp.pref),
             file' = [file EXCEPT ![f] = AddTrn(@, exp.pref, flags)],
             text' = [text EXCEPT ![f] = [i \in 1 .. exp.i |-> IF i = exp.i THEN text[exp.old][i]
                                                                ELSE @[i]]],
             exp' = [exp EXCEPT !.pc = "info", !.i = @ + 1, !.no_nuke = FALSE]
      PROVE  IInv'
  <2>1. /\ f \in Files /\ New = f /\ Linked(file[New]) /\ file[New].created
        /\ o.highest \in Nat /\ Linked(o)
        /\ exp.i \in Nat \ {0} /\ exp.high \in Nat /\ exp.pref \in Int /\ RunType(exp)
        /\ RunInv(exp, o, file[New], text[exp.old], text[New], gone)
        /\ DOMAIN text = Files /\ DOMAIN file = Files
    BY <1>1, CopyFacts
  <2>2. text' = [text EXCEPT ![f] = q2] /\ file' = [file EXCEPT ![f] = r]
    BY <1>3, <2>1
  <2>3. exp.i \in Stored(o) /\ (exp.pref # 0 => exp.pref \in Stored(o))
    BY <1>1, <2>1 DEF RunInv, AtNumber
  <2>4. exp.i \in Trns(o) /\ exp.pref \in Nat
    BY <2>1, <2>3, SetsOf
  <2>5. flags \in TrnFlags
    BY <2>1, <2>4, BlkFields DEF Linked
  <2>6. Linked(r)
    BY <1>3, <2>1, <2>4, <2>5, AddLinked
  <2>7. r.created
    <3>1. r.created = file[f].created
      BY <2>1 DEF AddTrn, Linked, MtgType
    <3> QED
      BY <2>1, <3>1
  <2>8. (\A j \in 1 .. exp.i - 1 : q2[j] = text[f][j]) /\ q2[exp.i] = text[exp.old][exp.i]
    BY <2>1
  <2>9. /\ RunType(exp') /\ exp'.pc = "info" /\ exp'.i = exp.i + 1 /\ exp'.high = exp.high
        /\ exp'.disturbed = exp.disturbed /\ exp'.old = exp.old
    BY <1>3, <2>1, NextType
  <2> HIDE DEF q2, flags
  <2>10. RunInv(exp', o, r, text[exp.old], q2, gone)
    <3>1. /\ RunInv(exp, o, file[f], text[exp.old], text[f], gone)
          /\ Linked(file[f]) /\ Linked(o) /\ exp.i \in Nat \ {0} /\ exp.high \in Nat
          /\ o.highest \in Nat /\ CanReply(file[f], exp.pref)
      BY <1>3, <2>1
    <3> HIDE DEF f, o
    <3> QED
      BY <1>1, <2>4, <2>5, <2>8, <2>9, <3>1, RunCopy
  <2> HIDE DEF r
  <2> QED
    BY <1>1, <2>2, <2>6, <2>7, <2>9, <2>10, CopiesOn
<1> QED
  BY <1>2, <1>3 DEF CopyTrn

\* Whatever is in it, it is there.
LEMMA FileIsThere ==
  ASSUME NEW m, IsFile(m)
  PROVE  m # NoFile
  BY DEF IsFile, NoFile

\* Killed in the middle of add_trn_priv: what is left at "bak" is a file, and no longer
\* one that matters.
LEMMA DiesCopyingKeeps ==
  ASSUME IInv, DiesCopying
  PROVE  IInv'
<1> DEFINE f == dir["bak"]
<1>1. /\ exp.pc = "add" /\ exp' = Exit
      /\ text' = text /\ srv' = srv /\ acked' = acked /\ gone' = gone
      /\ started' = started /\ dir' = dir /\ lock' = lock
  BY DEF DiesCopying, serverVars
<1>2. Copying /\ exp.pc \in Before1 /\ exp.pc \in Before2
  BY <1>1 DEF Copying, Before1, Before2
<1>3. /\ Types /\ KeptInv /\ DirInv /\ DOMAIN file = Files
      /\ dir \in [{"loc", "bak", "fut"} -> Files \cup {0}]
  BY DEF IInv, Types
<1>4. /\ f \in Files /\ f \in Kept /\ exp.old \in Files /\ f # exp.old
      /\ dir["loc"] = exp.old /\ dir["loc"] # 0
  BY <1>2, <1>3, RunFacts DEF DirInv
<1>5. PICK r \in PartsOf(file[f], AddTrn(file[f], exp.pref, file[exp.old].blk[exp.i].flags)) :
         file' = [file EXCEPT ![f] = r]
  BY DEF DiesCopying
<1>6. IsFile(r) /\ r # NoFile
  <2>1. IsFile(file[f])
    BY <1>3, <1>4, KeptType
  <2>2. PICK b : r = [file[f] EXCEPT !.blk = b]
    BY DEF PartsOf
  <2>3. IsFile(r)
    BY <2>1, <2>2 DEF IsFile
  <2> QED
    BY <2>3, FileIsThere
<1>7. /\ DOMAIN file' = Files /\ file'[f] = r
      /\ \A h \in Files : h # f => file'[h] = file[h]
  BY <1>3, <1>4, <1>5
<1>8. RunType(exp') /\ exp'.pc = "exit"
  BY <1>1, ExitType
<1>9. ~Copying'
  BY <1>8 DEF Copying
<1>10. \A h \in Kept' : h \in Kept /\ h \in Files /\ h # f
  <2>1. \A h \in Kept' : h \in Files /\ Named(h)' /\ h # f
    BY <1>1, <1>4, <1>9 DEF Kept, LeftOver
  <2>2. \A h : Named(h)' <=> Named(h)
    BY <1>1 DEF Named
  <2> QED
    BY <1>2, <2>1, <2>2 DEF Kept, LeftOver
<1> HIDE DEF f
<1>11. Types'
  <2>1. \A h \in Files : file'[h] # NoFile => IsFile(file'[h])
    BY <1>3, <1>6, <1>7 DEF Types
  <2> QED
    BY <1>1, <1>3, <1>7, <1>8, <2>1 DEF Types
<1>12. KeptInv'
  <2>1. \A h \in Kept' : file'[h] # NoFile /\ Linked(file'[h]) /\ file'[h].created
    BY <1>3, <1>7, <1>10 DEF KeptInv
  <2> QED
    BY <2>1 DEF KeptInv
<1>13. GoneInv'
  <2>1. \A h \in Kept' : GoneOf(file'[h], text[h], gone)
    BY <1>7, <1>10 DEF IInv, GoneInv
  <2> QED
    BY <1>1, <2>1 DEF GoneInv
<1>14. CallsInv'
  <2>1. ASSUME NEW s \in Servers PROVE CallInv(s)'
    <3> DEFINE c == srv[s]
    <3>1. CallInv(s) /\ c.f \in Files \cup {0}
      BY DEF IInv, CallsInv, Types, CallType
    <3>2. c.f # 0 => file'[c.f] = file[c.f]
      BY <1>7, <3>1 DEF CallInv, f
    <3>3. c.f \in Kept' => c.f \in Kept
      BY <1>10
    <3>4. /\ c.f # 0 => file'[c.f] # NoFile /\ c.f # dir["bak"]
          /\ c.pc \in {"lock", "close"} => c.f # 0
      BY <3>1, <3>2 DEF CallInv
    <3>5. c.pc = "close" =>
            /\ lock[c.f] = s
            /\ IsFile(c.mem) /\ (c.op = "add" => c.mem.highest # 0)
            /\ c.f \in Kept' => Allowed(file'[c.f], c) /\ c.mem = Changed(file'[c.f], c)
      BY <3>1, <3>2, <3>3, <3>4 DEF CallInv
    <3> QED
      BY <1>1, <3>4, <3>5 DEF CallInv
  <2> QED
    BY <1>1, <2>1 DEF CallsInv
<1>15. DirInv'
  BY <1>1, <1>3, <1>8, <1>9 DEF DirInv, Before1
<1>16. LookInv' /\ CopyInv'
  BY <1>8, <1>9 DEF LookInv, CopyInv
<1>17. FutInv' /\ BothThere'
  BY <1>1, <1>4 DEF FutInv, BothThere
<1>18. AckedBeforeMove'
  <2>1. Current = exp.old /\ Current' = exp.old /\ file'[exp.old] = file[exp.old]
    BY <1>1, <1>4, <1>7 DEF Current
  <2>2. \A a \in acked : InMeeting(a)' <=> InMeeting(a)
    BY <1>1, <2>1 DEF InMeeting
  <2> QED
    BY <1>1, <2>2 DEF IInv, AckedBeforeMove
<1> QED
  BY <1>11, <1>12, <1>13, <1>14, <1>15, <1>16, <1>17, <1>18 DEF IInv

\* From one step of the moving to the next.
LEMMA MovesOn ==
  ASSUME IInv, Copying, NEW pc \in {"rename2", "remove", "unlink", "mark"},
         exp.pc \in Moving \cup {"unlink"},
         pc = "rename2" => exp.pc = "rename1",
         pc = "remove" => exp.pc = "rename2",
         NEW e2, e2.pc = pc, e2.i = exp.i, e2.high = exp.high, e2.disturbed = exp.disturbed
  PROVE  RunInv(e2, file[exp.old], file[New], text[exp.old], text[New], gone)
<1> DEFINE a == file[exp.old].highest
           b == file[New].highest
<1>1. /\ RunType(exp)
      /\ RunInv(exp, file[exp.old], file[New], text[exp.old], text[New], gone)
      /\ a \in Nat /\ b \in Nat /\ Counted(exp, a, b)
  BY RunKnown
<1> HIDE DEF a, b
<1>2. exp.i \in Nat \ {0} /\ exp.high \in Nat
  BY <1>1 DEF RunType
<1>3. Counted(e2, a, b)
  BY <1>1, <1>2 DEF Counted, Moving, Before2, Before1
<1>4. e2.pc \in Before2 => exp.pc \in Before2
  BY DEF Before2, Before1
<1> QED
  BY <1>1, <1>3, <1>4, RunMoves DEF a, b

\* The program goes on to the next step of the move.
LEMMA RunNext ==
  ASSUME RunType(exp), NEW pc \in {"rename2", "remove", "unlink"}, exp' = [exp EXCEPT !.pc = pc]
  PROVE  /\ RunType(exp') /\ exp'.pc = pc /\ exp'.i = exp.i /\ exp'.high = exp.high
         /\ exp'.disturbed = exp.disturbed /\ exp'.old = exp.old
  BY DEF RunType, Pcs

\* The old meeting goes to "fut" ...
LEMMA Rename1Keeps ==
  ASSUME IInv, Rename1
  PROVE  IInv'
<1>1. /\ exp.pc = "rename1"
      /\ file' = file /\ text' = text /\ srv' = srv /\ acked' = acked /\ gone' = gone
      /\ started' = started
  BY DEF Rename1, serverVars
<1>2. Copying /\ exp.pc \in Before1 /\ exp.pc \in Before2 /\ exp.pc \in Moving
  BY <1>1 DEF Copying, Before1, Before2, Moving
<1>3. /\ Types /\ KeptInv /\ DirInv /\ dir \in [{"loc", "bak", "fut"} -> Files \cup {0}]
      /\ RunType(exp)
  BY DEF IInv, Types
<1>4. /\ exp.old \in Files /\ exp.old \in Kept /\ New \in Kept /\ New = dir["bak"]
      /\ New # exp.old /\ New \in Files
  BY <1>2, <1>3, RunFacts
<1>5. dir["loc"] = exp.old /\ exp.old # 0 /\ dir["bak"] # 0
  BY <1>2, <1>3, <1>4 DEF DirInv
<1>6. CASE exp' = Exit /\ lock' = Dropped(exp.old) /\ dir' = dir
  BY <1>1, <1>4, <1>6, ExitType, DropsLock, GivesUp
<1>7. ASSUME dir["fut"] = 0, dir' = [dir EXCEPT !["fut"] = dir["loc"], !["loc"] = 0],
             exp' = [exp EXCEPT !.pc = "rename2"], lock' = lock
      PROVE  IInv'
  <2>1. /\ dir' \in [{"loc", "bak", "fut"} -> Files \cup {0}]
        /\ dir'["loc"] = 0 /\ dir'["fut"] = exp.old /\ dir'["bak"] = dir["bak"]
    BY <1>3, <1>5, <1>7
  <2>2. /\ RunType(exp') /\ exp'.pc = "rename2" /\ exp'.i = exp.i /\ exp'.high = exp.high
        /\ exp'.disturbed = exp.disturbed /\ exp'.old = exp.old
    BY <1>3, <1>7, RunNext
  <2>3. RunInv(exp', file[exp.old], file[New], text[exp.old], text[New], gone)
    BY <1>1, <1>2, <2>2, MovesOn
  <2>4. Kept' \subseteq Kept
    <3>1. \A h \in Files : Named(h)' => Named(h) \/ h = exp.old
      BY <2>1, FilesNat DEF Named
    <3>2. \A h \in Files : h \in Kept' => h \in Kept
      BY <1>2, <1>4, <2>2, <3>1 DEF Kept, LeftOver
    <3> QED
      BY <3>2 DEF Kept, LeftOver
  <2>5. Types' /\ KeptInv' /\ GoneInv' /\ CallsInv'
    <3>1. lock' \in [Files -> Servers \cup {Expunger, Nobody}] /\ ServersKeep
      BY <1>7, SameLocks
    <3>2. GoneInv /\ CallsInv
      BY DEF IInv
    <3> QED
      BY <1>1, <1>3, <2>1, <2>2, <2>4, <3>1, <3>2, SameFiles DEF ServersKeep
  <2>6. DirInv'
    BY <1>4, <1>5, <2>1, <2>2 DEF DirInv, Before1, Copying
  <2>7. LookInv'
    BY <2>2 DEF LookInv
  <2>8. New' = New /\ Copying'
    BY <1>4, <2>1, <2>2 DEF New, Copying
  <2>9. CopyInv'
    BY <1>1, <2>2, <2>3, <2>8 DEF CopyInv
  <2> DEFINE o == file[exp.old]
             m == file[New]
             k == exp.i - 1
  <2>10. /\ o.highest \in Nat /\ m.highest \in Nat /\ exp.i \in Nat \ {0}
         /\ k <= o.highest /\ m.highest = k /\ exp.high = k
    <3>1. o.highest \in Nat /\ m.highest \in Nat /\ Counted(exp, o.highest, m.highest)
      BY <1>2, RunKnown
    <3>2. exp.i \in Nat \ {0} /\ exp.high \in Nat
      BY <1>3 DEF RunType
    <3> QED
      BY <1>2, <3>1, <3>2 DEF Counted
  <2>11. FutInv'
    <3>1. m.highest <= o.highest
      BY <2>10
    <3> QED
      BY <1>1, <1>4, <2>1, <3>1 DEF FutInv
  <2>12. \A a \in acked : \/ a.late \/ a.id \in gone
                          \/ a.n \in Stored(o) /\ text[exp.old][a.n] = a.id
    BY <1>5 DEF IInv, AckedBeforeMove, InMeeting, Current
  <2>13. BothThere'
    <3>1. Trns(m) \subseteq Trns(o)
      BY <2>10 DEF Trns
    <3>2. o.created
      BY <1>3, <1>4 DEF KeptInv
    <3> QED
      BY <1>1, <1>4, <1>5, <2>1, <2>12, <3>1, <3>2 DEF BothThere
  <2>14. \A a \in acked : \/ a.late \/ a.id \in gone
                          \/ a.n \in Stored(m) /\ text[New][a.n] = a.id
    <3> SUFFICES ASSUME NEW a \in acked, ~a.late, a.id \notin gone
                 PROVE  a.n \in Stored(m) /\ text[New][a.n] = a.id
      OBVIOUS
    <3>1. a.n \in Stored(o) /\ text[exp.old][a.n] = a.id
      BY <2>12
    <3>2. a.n \in 1 .. k
      <4>1. a.n <= exp.high
        BY <1>1 DEF IInv, LookInv
      <4>2. a.n \in Nat /\ a.n > 0
        BY <2>10, <3>1, SetsOf
      <4> QED
        BY <2>10, <4>1, <4>2
    <3>3. Copied(o, m, text[exp.old], text[New], k, gone)
      BY <1>2, RunKnown DEF RunInv
    <3>4. a.n \in Stored(m)
      BY <3>1, <3>2, <3>3 DEF Copied
    <3> QED
      BY <3>1, <3>2, <3>3, <3>4 DEF Copied
  <2>15. AckedBeforeMove'
    <3>1. Current' = New
      BY <1>4, <2>1 DEF Current
    <3>2. \A a \in acked : InMeeting(a)' <=> (a.n \in Stored(m) /\ text[New][a.n] = a.id)
      BY <1>1, <3>1 DEF InMeeting
    <3> QED
      BY <1>1, <2>14, <3>2 DEF AckedBeforeMove
  <2> QED
    BY <2>5, <2>6, <2>7, <2>9, <2>11, <2>13, <2>15 DEF IInv
<1> QED
  BY <1>6, <1>7 DEF Rename1

\* Renaming leaves the meeting that is, or is about to be, at "loc".
LEMMA SameCurrent ==
  ASSUME AckedBeforeMove, file' = file, text' = text, acked' = acked, gone' = gone,
         Current' = Current
  PROVE  AckedBeforeMove'
<1>1. \A a \in acked : InMeeting(a)' <=> InMeeting(a)
  BY DEF InMeeting
<1> QED
  BY <1>1 DEF AckedBeforeMove

\* ... and the new one to "loc".
LEMMA Rename2Keeps ==
  ASSUME IInv, Rename2
  PROVE  IInv'
<1>1. /\ exp.pc = "rename2" /\ dir' = [dir EXCEPT !["loc"] = dir["bak"], !["bak"] = 0]
      /\ exp' = [exp EXCEPT !.pc = "remove"] /\ lock' = lock
      /\ file' = file /\ text' = text /\ srv' = srv /\ acked' = acked /\ gone' = gone
      /\ started' = started
  BY DEF Rename2, serverVars
<1>2. Copying /\ exp.pc \in Before2 /\ exp.pc \in Moving
  BY <1>1 DEF Copying, Before2, Moving
<1>3. /\ Types /\ KeptInv /\ DirInv /\ dir \in [{"loc", "bak", "fut"} -> Files \cup {0}]
      /\ RunType(exp)
  BY DEF IInv, Types
<1>4. /\ exp.old \in Files /\ exp.old \in Kept /\ New \in Kept /\ New = dir["bak"]
      /\ New # exp.old /\ New \in Files
  BY <1>2, <1>3, RunFacts
<1>5. dir["loc"] = 0 /\ dir["fut"] = exp.old /\ dir["bak"] # 0 /\ exp.old # 0
  BY <1>1, <1>2, <1>3 DEF DirInv
<1>6. /\ dir' \in [{"loc", "bak", "fut"} -> Files \cup {0}]
      /\ dir'["loc"] = New /\ dir'["fut"] = exp.old /\ dir'["bak"] = 0
  BY <1>1, <1>3, <1>4, <1>5
<1>7. /\ RunType(exp') /\ exp'.pc = "remove" /\ exp'.i = exp.i /\ exp'.high = exp.high
      /\ exp'.disturbed = exp.disturbed /\ exp'.old = exp.old
  BY <1>1, <1>3, RunNext
<1>8. RunInv(exp', file[exp.old], file[New], text[exp.old], text[New], gone)
  BY <1>1, <1>2, <1>7, MovesOn
<1>9. Kept' \subseteq Kept
  <2>1. \A h \in Files : Named(h)' => Named(h)
    BY <1>4, <1>5, <1>6, FilesNat DEF Named
  <2>2. \A h \in Files : h \in Kept' => h \in Kept
    BY <1>2, <1>7, <2>1 DEF Kept, LeftOver
  <2> QED
    BY <2>2 DEF Kept, LeftOver
<1>10. Types' /\ KeptInv' /\ GoneInv' /\ CallsInv'
  <2>1. lock' \in [Files -> Servers \cup {Expunger, Nobody}] /\ ServersKeep
    BY <1>1, SameLocks
  <2>2. GoneInv /\ CallsInv
    BY DEF IInv
  <2> QED
    BY <1>1, <1>3, <1>6, <1>7, <1>9, <2>1, <2>2, SameFiles DEF ServersKeep
<1>11. DirInv'
  BY <1>4, <1>5, <1>6, <1>7 DEF DirInv, Before1, Copying
<1>12. LookInv'
  BY <1>7 DEF LookInv
<1>13. New' = New /\ Copying'
  BY <1>6, <1>7 DEF New, Copying
<1>14. CopyInv'
  BY <1>1, <1>7, <1>8, <1>13 DEF CopyInv
<1>15. dir'["loc"] # 0
  BY <1>4, <1>5, <1>6
<1>16. FutInv' /\ BothThere'
  BY <1>15 DEF FutInv, BothThere
<1>17. Current' = Current
  BY <1>4, <1>5, <1>6, <1>15 DEF Current
<1>18. AckedBeforeMove'
  BY <1>1, <1>17, SameCurrent DEF IInv
<1> QED
  BY <1>10, <1>11, <1>12, <1>14, <1>16, <1>18 DEF IInv

\* remove_mtg: open_mtg, which gives up the lock.
LEMMA RemoveOpenKeeps ==
  ASSUME IInv, RemoveOpen
  PROVE  IInv'
<1>1. /\ exp.pc = "remove" /\ lock' = Dropped(exp.old)
      /\ exp' = [exp EXCEPT !.pc = "unlink"] /\ dir' = dir
      /\ file' = file /\ text' = text /\ srv' = srv /\ acked' = acked /\ gone' = gone
      /\ started' = started
  BY DEF RemoveOpen, serverVars
<1>2. Copying /\ exp.pc \in Moving
  BY <1>1 DEF Copying, Moving
<1>3. Types /\ KeptInv /\ DirInv /\ RunType(exp)
  BY DEF IInv, Types
<1>4. exp.old \in Files
  BY <1>2, <1>3, RunFacts
<1>5. /\ RunType(exp') /\ exp'.pc = "unlink" /\ exp'.i = exp.i /\ exp'.high = exp.high
      /\ exp'.disturbed = exp.disturbed /\ exp'.old = exp.old
  BY <1>1, <1>3, RunNext
<1>6. RunInv(exp', file[exp.old], file[New], text[exp.old], text[New], gone)
  BY <1>1, <1>2, <1>5, MovesOn
<1>7. lock' \in [Files -> Servers \cup {Expunger, Nobody}] /\ ServersKeep
  BY <1>1, <1>4, DropsLock
<1>8. DirInv'
  BY <1>1, <1>3, <1>5 DEF DirInv, Before1, Copying
<1>9. LookInv'
  BY <1>5 DEF LookInv
<1>10. New' = New
  BY <1>1, <1>5 DEF New
<1> QED
  BY <1>1, <1>2, <1>5, <1>6, <1>7, <1>8, <1>9, <1>10, SameNames DEF ServersKeep

\* remove_mtg: the files go.
LEMMA RemoveUnlinkKeeps ==
  ASSUME IInv, RemoveUnlink
  PROVE  IInv'
<1>1. /\ exp.pc = "unlink" /\ dir' = [dir EXCEPT !["fut"] = 0]
      /\ exp' = [exp EXCEPT !.pc = "mark", !.super = file[exp.old]] /\ lock' = lock
      /\ file' = file /\ text' = text /\ srv' = srv /\ acked' = acked /\ gone' = gone
      /\ started' = started
  BY DEF RemoveUnlink, serverVars
<1>2. Copying
  BY <1>1 DEF Copying
<1>3. /\ Types /\ KeptInv /\ DirInv /\ dir \in [{"loc", "bak", "fut"} -> Files \cup {0}]
      /\ RunType(exp)
  BY DEF IInv, Types
<1>4. /\ exp.old \in Files /\ New = dir["loc"] /\ New # exp.old /\ exp.old \in Kept
  BY <1>1, <1>2, <1>3, RunFacts
<1>5. dir["loc"] # 0 /\ dir["fut"] = exp.old /\ dir["bak"] = 0 /\ exp.old # 0
  BY <1>1, <1>2, <1>3 DEF DirInv
<1>6. /\ dir' \in [{"loc", "bak", "fut"} -> Files \cup {0}]
      /\ dir'["loc"] = dir["loc"] /\ dir'["fut"] = 0 /\ dir'["bak"] = 0
  BY <1>1, <1>3, <1>5
<1>7. file[exp.old].highest \in Nat
  BY <1>3, <1>4, KeptType
<1>8. /\ RunType(exp') /\ exp'.pc = "mark" /\ exp'.i = exp.i /\ exp'.high = exp.high
      /\ exp'.disturbed = exp.disturbed /\ exp'.old = exp.old
  BY <1>1, <1>3, <1>7 DEF RunType, Pcs
<1>9. RunInv(exp', file[exp.old], file[New], text[exp.old], text[New], gone)
  BY <1>1, <1>2, <1>8, MovesOn
<1>10. Kept' \subseteq Kept
  <2>1. \A h \in Files : Named(h)' => Named(h)
    BY <1>5, <1>6, FilesNat DEF Named
  <2>2. \A h \in Files : h \in Kept' => h \in Kept
    BY <1>2, <1>8, <2>1 DEF Kept, LeftOver
  <2> QED
    BY <2>2 DEF Kept, LeftOver
<1>11. Types' /\ KeptInv' /\ GoneInv' /\ CallsInv'
  <2>1. lock' \in [Files -> Servers \cup {Expunger, Nobody}] /\ ServersKeep
    BY <1>1, SameLocks
  <2>2. GoneInv /\ CallsInv
    BY DEF IInv
  <2>3. dir'["bak"] \in {dir["bak"], 0}
    BY <1>6
  <2> QED
    BY <1>1, <1>3, <1>6, <1>8, <1>10, <2>1, <2>2, <2>3, SameFiles DEF ServersKeep
<1>12. DirInv'
  <2>1. ~Named(exp.old)'
    BY <1>4, <1>5, <1>6, <1>8 DEF Named
  <2> QED
    BY <1>5, <1>6, <1>8, <2>1 DEF DirInv, Before1, Copying
<1>13. LookInv'
  BY <1>8 DEF LookInv
<1>14. New' = New /\ Copying'
  BY <1>4, <1>6, <1>8 DEF New, Copying
<1>15. CopyInv'
  BY <1>1, <1>8, <1>9, <1>14 DEF CopyInv
<1>16. FutInv' /\ BothThere'
  BY <1>5, <1>6 DEF FutInv, BothThere
<1>17. Current' = Current
  BY <1>5, <1>6 DEF Current
<1>18. AckedBeforeMove'
  BY <1>1, <1>17, SameCurrent DEF IInv
<1> QED
  BY <1>11, <1>12, <1>13, <1>15, <1>16, <1>18 DEF IInv

\* The mark is in a file that has no name any more.
LEMMA RemoveMarkKeeps ==
  ASSUME IInv, RemoveMark
  PROVE  IInv'
<1> DEFINE sb == exp.super
           old == exp.old
           r == [file[old] EXCEPT !.first = sb.first, !.last = sb.last,
                                  !.highest = sb.highest, !.highest_chain = sb.highest_chain,
                                  !.highest_trn_addr = sb.highest_trn_addr,
                                  !.created = FALSE]
<1>1. /\ exp.pc = "mark" /\ exp' = Exit
      /\ text' = text /\ srv' = srv /\ acked' = acked /\ gone' = gone
      /\ started' = started /\ dir' = dir /\ lock' = lock
  BY DEF RemoveMark, serverVars
<1>2. Copying
  BY <1>1 DEF Copying
<1>3. /\ Types /\ KeptInv /\ DirInv /\ DOMAIN file = Files /\ RunType(exp)
      /\ dir \in [{"loc", "bak", "fut"} -> Files \cup {0}]
  BY DEF IInv, Types
<1>4. old \in Files /\ old \in Kept /\ dir["loc"] # old /\ IsFile(file[old])
  BY <1>1, <1>2, <1>3, RunFacts, KeptType
<1>5. file' = [file EXCEPT ![old] = r]
  BY <1>3, <1>4 DEF RemoveMark
<1>6. IsFile(r)
  BY <1>1, <1>3, <1>4 DEF IsFile, RunType
<1> HIDE DEF r
<1>7. /\ DOMAIN file' = Files /\ file'[old] = r
      /\ \A h \in Files : h # old => file'[h] = file[h]
  BY <1>3, <1>4, <1>5
<1>8. ~Named(old) /\ dir["loc"] # 0
  BY <1>1, <1>3 DEF DirInv
<1>9. RunType(exp') /\ exp'.pc = "exit"
  BY <1>1, ExitType
<1>10. ~Copying'
  BY <1>9 DEF Copying
<1>11. \A h \in Kept' : h \in Kept /\ h \in Files /\ h # old
  <2>1. \A h \in Kept' : h \in Files /\ Named(h)'
    BY <1>10 DEF Kept, LeftOver
  <2>2. \A h : Named(h)' <=> Named(h)
    BY <1>1 DEF Named
  <2> QED
    BY <1>2, <1>8, <2>1, <2>2 DEF Kept, LeftOver
<1>12. Types'
  <2>1. \A h \in Files : file'[h] # NoFile => IsFile(file'[h])
    BY <1>3, <1>6, <1>7 DEF Types
  <2> QED
    BY <1>1, <1>3, <1>7, <1>9, <2>1 DEF Types
<1>13. KeptInv'
  <2>1. \A h \in Kept' : file'[h] # NoFile /\ Linked(file'[h]) /\ file'[h].created
    BY <1>3, <1>7, <1>11 DEF KeptInv
  <2> QED
    BY <2>1 DEF KeptInv
<1>14. GoneInv'
  <2>1. \A h \in Kept' : GoneOf(file'[h], text[h], gone)
    BY <1>7, <1>11 DEF IInv, GoneInv
  <2> QED
    BY <1>1, <2>1 DEF GoneInv
<1>15. CallsInv'
  <2>1. ASSUME NEW s \in Servers PROVE CallInv(s)'
    <3> DEFINE c == srv[s]
    <3>1. CallInv(s) /\ c.f \in Files \cup {0}
      BY DEF IInv, CallsInv, Types, CallType
    <3>2. c.f \in Kept' => c.f \in Kept /\ file'[c.f] = file[c.f]
      BY <1>7, <1>11
    <3>3. c.f # 0 => file'[c.f] # NoFile
      <4>1. CASE c.f = old
        BY <1>6, <1>7, <4>1, FileIsThere
      <4>2. CASE c.f # old
        BY <1>7, <3>1, <4>2 DEF CallInv
      <4> QED
        BY <4>1, <4>2
    <3>4. /\ c.f # 0 => c.f # dir["bak"]
          /\ c.pc \in {"lock", "close"} => c.f # 0
      BY <3>1 DEF CallInv
    <3>5. c.pc = "close" =>
            /\ lock[c.f] = s
            /\ IsFile(c.mem) /\ (c.op = "add" => c.mem.highest # 0)
            /\ c.f \in Kept' => Allowed(file'[c.f], c) /\ c.mem = Changed(file'[c.f], c)
      BY <3>1, <3>2 DEF CallInv
    <3> QED
      BY <1>1, <3>3, <3>4, <3>5 DEF CallInv
  <2> QED
    BY <1>1, <2>1 DEF CallsInv
<1>16. DirInv'
  BY <1>1, <1>3, <1>8, <1>9 DEF DirInv, Before1, Copying
<1>17. LookInv'
  BY <1>9 DEF LookInv
<1>18. CopyInv'
  BY <1>10 DEF CopyInv
<1>19. FutInv' /\ BothThere'
  BY <1>1, <1>8 DEF FutInv, BothThere
<1>20. AckedBeforeMove'
  <2>1. Current = dir["loc"] /\ Current' = dir["loc"] /\ file'[dir["loc"]] = file[dir["loc"]]
    BY <1>1, <1>3, <1>4, <1>7, <1>8 DEF Current
  <2>2. \A a \in acked : InMeeting(a)' <=> InMeeting(a)
    BY <1>1, <2>1 DEF InMeeting
  <2> QED
    BY <1>1, <2>2 DEF IInv, AckedBeforeMove
<1> QED
  BY <1>12, <1>13, <1>14, <1>15, <1>16, <1>17, <1>18, <1>19, <1>20 DEF IInv

-----------------------------------------------------------------------------
(* The servers                                                             *)

\* A step of one server that writes nothing.
LEMMA ServerGoesOn ==
  ASSUME IInv, NEW s \in Servers, NEW c2, CallType(c2),
         srv' = [srv EXCEPT ![s] = c2] \/ (srv' = srv /\ c2 = srv[s]),
         file' = file, text' = text, dir' = dir, exp' = exp, acked' = acked, gone' = gone,
         started' \in Nat,
         lock' \in [Files -> Servers \cup {Expunger, Nobody}],
         \A p \in Servers : p # s => \A f \in Files : lock[f] = p => lock'[f] = p,
         c2.f # 0 => file[c2.f] # NoFile /\ c2.f # dir["bak"],
         c2.pc \in {"lock", "close"} => c2.f # 0,
         c2.pc = "close" => /\ lock'[c2.f] = s
                            /\ IsFile(c2.mem) /\ (c2.op = "add" => c2.mem.highest # 0)
                            /\ Allowed(file[c2.f], c2) /\ c2.mem = Changed(file[c2.f], c2)
  PROVE  IInv'
<1>1. Types /\ DOMAIN srv = Servers /\ DirInv /\ exp.old \in Files \cup {0}
  BY DEF IInv, Types, RunType
<1>2. /\ DOMAIN srv' = Servers /\ srv'[s] = c2
      /\ \A p \in Servers : p # s => srv'[p] = srv[p]
  BY <1>1
<1>3. Copying' = Copying /\ New' = New /\ Current' = Current
  BY DEF Copying, New, Current
<1>4. \A h : h \in Kept' <=> h \in Kept
  BY DEF Kept, LeftOver, Named, Copying
<1>5. Types'
  <2>1. \A p \in Servers : CallType(srv'[p])
    BY <1>1, <1>2 DEF Types
  <2> QED
    BY <1>1, <1>2, <2>1 DEF Types
<1>6. KeptInv' /\ GoneInv'
  BY <1>4 DEF IInv, KeptInv, GoneInv
<1>7. CallsInv'
  <2>1. ASSUME NEW p \in Servers PROVE CallInv(p)'
    <3> DEFINE c == srv'[p]
    <3>1. /\ c.f # 0 => file[c.f] # NoFile /\ c.f # dir["bak"]
          /\ c.pc \in {"lock", "close"} => c.f # 0
      BY <1>2 DEF IInv, CallsInv, CallInv
    <3>2. ASSUME c.pc = "close"
          PROVE  /\ lock'[c.f] = p
                 /\ IsFile(c.mem) /\ (c.op = "add" => c.mem.highest # 0)
                 /\ c.f \in Kept => Allowed(file[c.f], c) /\ c.mem = Changed(file[c.f], c)
      <4>1. CASE p = s
        BY <1>2, <3>2, <4>1
      <4>2. CASE p # s
        <5>1. c = srv[p] /\ CallInv(p) /\ c.f \in Files
          BY <1>1, <1>2, <3>1, <3>2, <4>2 DEF IInv, CallsInv, Types, CallType
        <5> HIDE DEF c
        <5> QED
          BY <3>2, <4>2, <5>1 DEF CallInv
      <4> QED
        BY <4>1, <4>2
    <3> QED
      BY <1>4, <3>1, <3>2 DEF CallInv
  <2> QED
    BY <2>1 DEF CallsInv
<1>8. DirInv'
  BY <1>1, <1>3 DEF DirInv, Named
<1>9. LookInv'
  BY DEF IInv, LookInv
<1>10. CopyInv'
  BY <1>3 DEF IInv, CopyInv
<1>11. FutInv' /\ BothThere'
  BY DEF IInv, FutInv, BothThere
<1>12. AckedBeforeMove'
  BY <1>3, SameCurrent DEF IInv
<1> QED
  BY <1>5, <1>6, <1>7, <1>8, <1>9, <1>10, <1>11, <1>12 DEF IInv

\* The call in progress at a server.
LEMMA CallKnown ==
  ASSUME IInv, NEW s \in Servers
  PROVE  /\ CallType(srv[s]) /\ CallInv(s) /\ srv[s].f \in Files \cup {0}
         /\ lock \in [Files -> Servers \cup {Expunger, Nobody}]
         /\ started \in Nat
  BY DEF IInv, Types, CallsInv, CallType

\* A server without a call.
LEMMA NoCallType ==
         /\ CallType(NoCall) /\ NoCall.pc = "idle" /\ NoCall.f = 0
         /\ \A c : c.f \in Files \cup {0} =>
                     CallType(Idle(c)) /\ Idle(c).pc = "idle" /\ Idle(c).f = c.f
  BY DEF CallType, NoCall, Idle, Ops

\* A call comes.
LEMMA CallKeeps ==
  ASSUME IInv, NEW s \in Servers, NEW op \in Ops, NEW t \in 0 .. MaxCalls, Call(s, op, t)
  PROVE  IInv'
<1> DEFINE c2 == [Idle(srv[s]) EXCEPT !.pc = "open", !.op = op, !.t = t, !.id = started + 1]
<1>1. /\ srv' = [srv EXCEPT ![s] = c2] /\ started' = started + 1
      /\ file' = file /\ text' = text /\ dir' = dir /\ lock' = lock /\ exp' = exp
      /\ acked' = acked /\ gone' = gone
  <2>1. DOMAIN srv = Servers
    BY DEF IInv, Types
  <2> QED
    BY <2>1 DEF Call
<1>2. /\ CallInv(s) /\ srv[s].f \in Files \cup {0} /\ started \in Nat
      /\ lock \in [Files -> Servers \cup {Expunger, Nobody}]
  BY CallKnown
<1>3. t \in Nat
  BY FilesAssumption
<1>4. CallType(c2) /\ c2.pc = "open" /\ c2.f = srv[s].f
  BY <1>2, <1>3 DEF CallType, NoCall, Idle
<1>5. c2.f # 0 => file[c2.f] # NoFile /\ c2.f # dir["bak"]
  BY <1>2, <1>4 DEF CallInv
<1>6. started' \in Nat
  BY <1>1, <1>2
<1> HIDE DEF c2
<1> QED
  BY <1>1, <1>2, <1>4, <1>5, <1>6, ServerGoesOn

\* open_mtg.
LEMMA OpenMtgKeeps ==
  ASSUME IInv, NEW s \in Servers, OpenMtg(s)
  PROVE  IInv'
<1> DEFINE c == srv[s]
           cached == c.f # 0 /\ acl[dir["loc"]] <= c.mod
           g == IF cached THEN c.f ELSE dir["loc"]
           c2 == IF dir["loc"] = 0 THEN NoCall
                 ELSE IF cached THEN [c EXCEPT !.pc = "lock"]
                 ELSE [c EXCEPT !.pc = "lock", !.f = dir["loc"], !.mod = acl[dir["loc"]]]
<1>1. /\ srv' = [srv EXCEPT ![s] = c2] /\ started' = started
      /\ file' = file /\ text' = text /\ dir' = dir /\ lock' = lock /\ exp' = exp
      /\ acked' = acked /\ gone' = gone
  BY DEF OpenMtg
<1>2. /\ CallType(c) /\ CallInv(s) /\ c.f \in Files \cup {0} /\ started \in Nat
      /\ lock \in [Files -> Servers \cup {Expunger, Nobody}]
  BY CallKnown
<1>3. /\ dir["loc"] \in Files \cup {0} /\ KeptInv /\ DirInv
  BY DEF IInv, Types
<1>4. ASSUME dir["loc"] # 0
      PROVE  g \in Files /\ g # 0 /\ file[g] # NoFile /\ g # dir["bak"]
  <2>1. CASE cached
    <3>1. g = c.f /\ c.f # 0
      BY <2>1
    <3> QED
      BY <1>2, <3>1 DEF CallInv
  <2>2. CASE ~cached
    <3>1. g = dir["loc"]
      BY <2>2
    <3>3. dir["loc"] # dir["bak"]
      BY <1>3, <1>4 DEF DirInv
    <3>2. dir["loc"] \in Kept
      BY <1>3, <1>4, <3>3 DEF Kept, LeftOver, Named
    <3> QED
      BY <1>3, <1>4, <3>1, <3>2, <3>3 DEF KeptInv
  <2> QED
    BY <2>1, <2>2
<1>5. /\ CallType(c2) /\ c2.pc \in {"idle", "lock"}
      /\ c2.f # 0 => file[c2.f] # NoFile /\ c2.f # dir["bak"]
      /\ c2.pc \in {"lock", "close"} => c2.f # 0
  <2>1. CASE dir["loc"] = 0
    BY <2>1, NoCallType
  <2>2. CASE dir["loc"] # 0
    <3>1. ASSUME cached PROVE CallType(c2) /\ c2.pc = "lock" /\ c2.f = g
      <4>1. c2 = [c EXCEPT !.pc = "lock"] /\ g = c.f
        BY <2>2, <3>1
      <4> QED
        BY <1>2, <4>1 DEF CallType
    <3>2. ASSUME ~cached PROVE CallType(c2) /\ c2.pc = "lock" /\ c2.f = g
      <4>1. c2 = [c EXCEPT !.pc = "lock", !.f = dir["loc"], !.mod = acl[dir["loc"]]]
            /\ g = dir["loc"]
        BY <2>2, <3>2
      <4> QED
        BY <1>2, <1>3, <4>1 DEF CallType
    <3>3. CallType(c2) /\ c2.pc = "lock" /\ c2.f = g
      BY <3>1, <3>2
    <3> QED
      BY <1>4, <2>2, <3>3
  <2> QED
    BY <2>1, <2>2
<1> HIDE DEF c2
<1> QED
  BY <1>1, <1>2, <1>5, ServerGoesOn

\* What a call does depends on its kind and its transaction only.
LEMMA SameCall ==
  ASSUME NEW m, NEW c, NEW c2, c2.op = c.op, c2.t = c.t
  PROVE  (Allowed(m, c2) <=> Allowed(m, c)) /\ Changed(m, c2) = Changed(m, c)
  BY DEF Allowed, Changed

\* The lock, and the changes in memory.
LEMMA WorkKeeps ==
  ASSUME IInv, NEW s \in Servers, Work(s)
  PROVE  IInv'
<1> DEFINE c == srv[s]
           m == file[c.f]
<1>1. /\ c.pc = "lock" /\ lock[c.f] = Nobody
      /\ file' = file /\ text' = text /\ dir' = dir /\ exp' = exp
      /\ acked' = acked /\ gone' = gone /\ started' = started
  BY DEF Work
<1>2. /\ CallType(c) /\ CallInv(s) /\ c.f \in Files \cup {0} /\ started \in Nat
      /\ lock \in [Files -> Servers \cup {Expunger, Nobody}]
  BY CallKnown
<1>3. c.f \in Files /\ c.f # 0 /\ file[c.f] # NoFile /\ c.f # dir["bak"]
  BY <1>1, <1>2 DEF CallInv
<1>4. IsFile(m) /\ c.op \in Ops
  BY <1>2, <1>3 DEF IInv, Types, CallType
<1>5. ASSUME srv' = [srv EXCEPT ![s] = [c EXCEPT !.pc = "open", !.again = TRUE]], lock' = lock
      PROVE  IInv'
  <2> DEFINE c2 == [c EXCEPT !.pc = "open", !.again = TRUE]
  <2>1. CallType(c2) /\ c2.pc = "open" /\ c2.f = c.f
    BY <1>2 DEF CallType
  <2> HIDE DEF c2
  <2>2. srv' = [srv EXCEPT ![s] = c2]
    BY <1>5 DEF c2
  <2> QED
    BY <1>1, <1>2, <1>3, <1>5, <2>1, <2>2, ServerGoesOn
<1>6. ASSUME Allowed(m, c),
             srv' = [srv EXCEPT ![s] = [c EXCEPT !.pc = "close", !.mem = Changed(m, c)]],
             lock' = [lock EXCEPT ![c.f] = s]
      PROVE  IInv'
  <2> DEFINE r == Changed(m, c)
             c2 == [c EXCEPT !.pc = "close", !.mem = r]
  <2>1. IsFile(r) /\ (c.op = "add" => r.highest = m.highest + 1)
    BY <1>4, FileStays
  <2>2. c.op = "add" => r.highest # 0
    BY <1>4, <2>1 DEF IsFile
  <2> HIDE DEF r
  <2>3. /\ CallType(c2) /\ c2.pc = "close" /\ c2.f = c.f /\ c2.op = c.op /\ c2.t = c.t
        /\ c2.mem = r
    BY <1>2 DEF CallType
  <2> HIDE DEF c2
  <2>4. srv' = [srv EXCEPT ![s] = c2]
    BY <1>6 DEF c2, r
  <2>5. Allowed(file[c2.f], c2) /\ c2.mem = Changed(file[c2.f], c2)
    BY <1>6, <2>3, SameCall DEF r
  <2>6. /\ lock' \in [Files -> Servers \cup {Expunger, Nobody}] /\ lock'[c.f] = s
        /\ \A p \in Servers : p # s => \A f \in Files : lock[f] = p => lock'[f] = p
    BY <1>1, <1>2, <1>3, <1>6, LockersAssumption
  <2> QED
    BY <1>1, <1>2, <1>3, <2>1, <2>2, <2>3, <2>4, <2>5, <2>6, ServerGoesOn
<1>7. ASSUME srv' = [srv EXCEPT ![s] = Idle(c)], lock' = lock
      PROVE  IInv'
  <2> DEFINE c2 == Idle(c)
  <2>1. CallType(c2) /\ c2.pc = "idle" /\ c2.f = c.f
    BY <1>2, NoCallType
  <2> HIDE DEF c2
  <2>2. srv' = [srv EXCEPT ![s] = c2]
    BY <1>7 DEF c2
  <2> QED
    BY <1>1, <1>2, <1>3, <1>7, <2>1, <2>2, ServerGoesOn
<1> QED
  BY <1>5, <1>6, <1>7 DEF Work

\* set_access touches only the acl.
LEMMA SetAccessKeeps ==
  ASSUME IInv, NEW s \in Servers, SetAccess(s)
  PROVE  IInv'
<1>1. /\ srv[s].pc = "idle" /\ srv' = srv /\ started' = started + 1
      /\ file' = file /\ text' = text /\ dir' = dir /\ lock' = lock /\ exp' = exp
      /\ acked' = acked /\ gone' = gone
  BY DEF SetAccess
<1>2. /\ CallType(srv[s]) /\ CallInv(s) /\ started \in Nat
      /\ lock \in [Files -> Servers \cup {Expunger, Nobody}]
  BY CallKnown
<1>4. srv[s].f # 0 => file[srv[s].f] # NoFile /\ srv[s].f # dir["bak"]
  BY <1>2 DEF CallInv
<1>5. started' \in Nat
  BY <1>1, <1>2
<1> QED
  BY <1>1, <1>2, <1>4, <1>5, ServerGoesOn

\* A server dies, and the kernel drops its locks.
LEMMA ServerDiesKeeps ==
  ASSUME IInv, NEW s \in Servers, ServerDies(s)
  PROVE  IInv'
<1>1. /\ srv' = [srv EXCEPT ![s] = NoCall]
      /\ lock' = [f \in Files |-> IF lock[f] = s THEN Nobody ELSE lock[f]]
      /\ file' = file /\ text' = text /\ dir' = dir /\ exp' = exp
      /\ acked' = acked /\ gone' = gone /\ started' = started
  BY DEF ServerDies
<1>2. /\ lock \in [Files -> Servers \cup {Expunger, Nobody}] /\ started \in Nat
  BY CallKnown
<1>3. CallType(NoCall) /\ NoCall.pc = "idle" /\ NoCall.f = 0
  BY NoCallType
<1>4. /\ lock' \in [Files -> Servers \cup {Expunger, Nobody}]
      /\ \A p \in Servers : p # s => \A f \in Files : lock[f] = p => lock'[f] = p
  BY <1>1, <1>2, LockersAssumption
<1> QED
  BY <1>1, <1>2, <1>3, <1>4, ServerGoesOn

\* The texts of meeting r, and what has been deleted, when call c has been answered.
TextsAfter(c, r, p, g, q, g2) ==
    /\ c.op = "add" => \A i \in 1 .. r.highest : q[i] = IF i = r.highest THEN c.id ELSE p[i]
    /\ c.op # "add" => q = p
    /\ g \subseteq g2 /\ (c.op = "delete" => p[c.t] \in g2)

\* What an allowed call writes: a meeting with one number more, or one transaction
\* less or more, and all else as it was.
LEMMA WrittenMeeting ==
  ASSUME NEW m, Linked(m), NEW c, c.op \in Ops, c.t \in Nat, Allowed(m, c),
         NEW r, r = Changed(m, c), NEW p, NEW g, GoneOf(m, p, g), NEW q, NEW g2,
         TextsAfter(c, r, p, g, q, g2)
  PROVE  /\ Linked(r) /\ Grown(m, p, r, q) /\ GoneOf(r, q, g2) /\ r.created = m.created
         /\ r.highest = IF c.op = "add" THEN m.highest + 1 ELSE m.highest
         /\ c.op = "add" => LiveSame(m, r) /\ r.highest \in Stored(r) /\ q[r.highest] = c.id
<1>1. MtgType(m) /\ m.highest \in Nat
  BY MtgFields DEF Linked
<1>2. IsFile(m)
  BY <1>1, MeetingFile
<1>3. r.created = m.created
  BY <1>2, FileStays
<1>4. /\ Linked(r) /\ Keeps(m, r)
      /\ r.highest = IF c.op = "add" THEN m.highest + 1 ELSE m.highest
      /\ \A i \in Trns(m) : i \in Stored(r) <=> i \in Stored(m)
      /\ \A i \in Trns(r) : i \in Trns(m) \/ (i \in Live(r) /\ i \in Stored(r))
      /\ c.op = "add" => m.highest + 1 \in Stored(r)
      /\ c.op = "add" => \A i \in Trns(m) : i \in Live(r) <=> i \in Live(m)
      /\ c.op = "delete" => OneMore(Live(r), c.t, Live(m))
      /\ c.op = "retrieve" => OneMore(Live(m), c.t, Live(r))
  BY ChangeKeeps
<1>5. r.highest \in Nat
  BY <1>1, <1>4
<1>6. /\ \A i \in Trns(m) : i \in Nat /\ i > 0 /\ i <= m.highest
      /\ Stored(m) \subseteq Trns(m) /\ Live(m) \subseteq Trns(m)
      /\ Stored(r) \subseteq Trns(r) /\ Live(r) \subseteq Trns(r)
  BY <1>1, <1>5, SetsOf
<1>7. \A i \in Trns(m) : q[i] = p[i]
  BY <1>1, <1>4, <1>6 DEF TextsAfter
<1>8. Grown(m, p, r, q)
  BY <1>1, <1>4, <1>5, <1>7 DEF Grown, Keeps
<1>9. c.op = "add" => LiveSame(m, r) /\ r.highest \in Stored(r) /\ q[r.highest] = c.id
  BY <1>1, <1>4 DEF LiveSame, TextsAfter
<1>10. GoneOf(r, q, g2)
  <2>1. SUFFICES ASSUME NEW i \in Stored(r), i \notin Live(r) PROVE q[i] \in g2
    BY DEF GoneOf
  <2>2. i \in Trns(m) /\ i \in Stored(m) /\ q[i] = p[i]
    BY <1>4, <1>6, <1>7, <2>1
  <2>3. CASE i \notin Live(m)
    BY <2>2, <2>3 DEF GoneOf, TextsAfter
  <2>4. CASE i \in Live(m)
    <3>1. c.op = "delete"
      BY <1>4, <2>1, <2>2, <2>4 DEF Ops, OneMore
    <3>2. i = c.t
      BY <1>4, <2>1, <2>4, <3>1 DEF OneMore
    <3> QED
      BY <2>2, <3>1, <3>2 DEF TextsAfter
  <2> QED
    BY <2>3, <2>4
<1> QED
  BY <1>3, <1>4, <1>8, <1>9, <1>10

\* Which files change when a call is answered, and how.
LEMMA CommitWrites ==
  ASSUME IInv, NEW s \in Servers, Commit(s)
  PROVE  LET c == srv[s]
             f == c.f
         IN  /\ c.pc = "close" /\ f \in Files /\ f # 0 /\ f # dir["bak"] /\ lock[f] = s
             /\ c.op \in Ops /\ c.t \in Nat /\ c.id \in Nat
             /\ DOMAIN file' = Files /\ DOMAIN text' = Files
             /\ file'[f] = c.mem /\ IsFile(c.mem) /\ c.mem # NoFile
             /\ c.op = "add" => c.mem.highest # 0
             /\ \A h \in Files : h # f => file'[h] = file[h] /\ text'[h] = text[h]
             /\ gone \subseteq gone'
             /\ \A h \in Kept :
                   /\ h \in Files /\ Linked(file'[h]) /\ file'[h].created
                   /\ Grown(file[h], text[h], file'[h], text'[h])
                   /\ GoneOf(file'[h], text'[h], gone')
                   /\ c.op = "add" => LiveSame(file[h], file'[h])
             /\ f \in Kept /\ c.op = "add" =>
                   c.mem.highest \in Stored(file'[f]) /\ text'[f][c.mem.highest] = c.id
<1> DEFINE c == srv[s]
           f == c.f
           n == c.mem.highest
<1>1. /\ c.pc = "close" /\ file' = [file EXCEPT ![f] = c.mem]
      /\ text' = IF c.op = "add"
                 THEN [text EXCEPT ![f] = [i \in 1 .. n |-> IF i = n THEN c.id ELSE @[i]]]
                 ELSE text
      /\ gone' = IF c.op = "delete" THEN gone \cup {text[f][c.t]} ELSE gone
  BY DEF Commit
<1>2. CallType(c) /\ CallInv(s) /\ f \in Files \cup {0}
  BY CallKnown
<1>3. /\ f \in Files /\ f # 0 /\ f # dir["bak"] /\ lock[f] = s
      /\ c.op \in Ops /\ c.t \in Nat /\ c.id \in Nat /\ IsFile(c.mem)
      /\ c.op = "add" => c.mem.highest # 0
      /\ f \in Kept => Allowed(file[f], c) /\ c.mem = Changed(file[f], c)
  BY <1>1, <1>2 DEF CallInv, CallType
<1>4. /\ Types /\ KeptInv /\ GoneInv /\ DOMAIN file = Files /\ DOMAIN text = Files
  BY DEF IInv, Types
<1>5. c.mem # NoFile
  <2>1. DOMAIN c.mem # {}
    BY <1>3 DEF IsFile
  <2>2. DOMAIN NoFile = {}
    BY DEF NoFile
  <2> QED
    BY <2>1, <2>2
<1> HIDE DEF c, f
<1>6. /\ DOMAIN file' = Files /\ file'[f] = c.mem /\ DOMAIN text' = Files
      /\ \A h \in Files : h # f => file'[h] = file[h] /\ text'[h] = text[h]
      /\ c.op = "add" => text'[f] = [i \in 1 .. n |-> IF i = n THEN c.id ELSE text[f][i]]
      /\ c.op # "add" => text'[f] = text[f]
  BY <1>1, <1>3, <1>4
<1>7. gone \subseteq gone'
  BY <1>1
<1>8. ASSUME f \in Kept
      PROVE  /\ Linked(file'[f]) /\ file'[f].created
             /\ Grown(file[f], text[f], file'[f], text'[f])
             /\ GoneOf(file'[f], text'[f], gone')
             /\ c.op = "add" => /\ LiveSame(file[f], file'[f]) /\ n \in Stored(file'[f])
                                /\ text'[f][n] = c.id
  <2>1. /\ Linked(file[f]) /\ file[f].created /\ GoneOf(file[f], text[f], gone)
        /\ Allowed(file[f], c) /\ c.mem = Changed(file[f], c)
    BY <1>3, <1>4, <1>8 DEF KeptInv, GoneInv
  <2>2. TextsAfter(c, c.mem, text[f], gone, text'[f], gone')
    BY <1>1, <1>6 DEF TextsAfter
  <2>3. /\ Linked(c.mem) /\ Grown(file[f], text[f], c.mem, text'[f])
        /\ GoneOf(c.mem, text'[f], gone') /\ c.mem.created = file[f].created
        /\ c.op = "add" => /\ LiveSame(file[f], c.mem) /\ c.mem.highest \in Stored(c.mem)
                           /\ text'[f][c.mem.highest] = c.id
    <3>1. c.op \in Ops /\ c.t \in Nat
      BY <1>3
    <3>2. /\ Linked(c.mem) /\ Grown(file[f], text[f], c.mem, text'[f])
          /\ GoneOf(c.mem, text'[f], gone')
      BY <2>1, <2>2, <3>1, WrittenMeeting
    <3>3. c.mem.created = file[f].created
      BY <2>1, <2>2, <3>1, WrittenMeeting
    <3>4. c.op = "add" => /\ LiveSame(file[f], c.mem) /\ c.mem.highest \in Stored(c.mem)
                          /\ text'[f][c.mem.highest] = c.id
      BY <2>1, <2>2, <3>1, WrittenMeeting
    <3> QED
      BY <3>2, <3>3, <3>4
  <2> QED
    BY <1>6, <2>1, <2>3
<1>9. ASSUME NEW h \in Kept
      PROVE  /\ h \in Files /\ Linked(file'[h]) /\ file'[h].created
             /\ Grown(file[h], text[h], file'[h], text'[h])
             /\ GoneOf(file'[h], text'[h], gone')
             /\ c.op = "add" => LiveSame(file[h], file'[h])
  <2>1. /\ h \in Files /\ Linked(file[h]) /\ file[h].highest \in Nat
        /\ file[h].created /\ GoneOf(file[h], text[h], gone)
    BY <1>4, KeptType DEF KeptInv, GoneInv
  <2>2. CASE h = f
    BY <1>8, <2>1, <2>2
  <2>3. CASE h # f
    <3>1. file'[h] = file[h] /\ text'[h] = text[h]
      BY <1>6, <2>1, <2>3
    <3>2. GoneOf(file[h], text[h], gone')
      BY <1>7, <2>1 DEF GoneOf
    <3>3. Grown(file[h], text[h], file[h], text[h]) /\ LiveSame(file[h], file[h])
      BY <2>1, GrownSelf
    <3> QED
      BY <2>1, <3>1, <3>2, <3>3
  <2> QED
    BY <2>2, <2>3
<1> QED
  BY <1>1, <1>3, <1>5, <1>6, <1>7, <1>8, <1>9 DEF c, f

\* What stays when a call is answered.
LEMMA CommitLeaves ==
  ASSUME IInv, NEW s \in Servers, Commit(s)
  PROVE  LET c == srv[s]
             f == c.f
         IN  /\ DOMAIN srv' = Servers /\ CallType(srv'[s]) /\ srv'[s].pc = "idle" /\ srv'[s].f = f
             /\ \A p \in Servers : p # s => srv'[p] = srv[p]
             /\ lock' \in [Files -> Servers \cup {Expunger, Nobody}]
             /\ \A h \in Files : h # f => lock'[h] = lock[h]
             /\ dir' = dir /\ started' = started
             /\ RunType(exp') /\ exp'.pc = exp.pc /\ exp'.i = exp.i /\ exp'.high = exp.high
             /\ exp'.old = exp.old /\ exp'.pref = exp.pref
             /\ exp'.disturbed = IF c.op = "add" THEN exp.disturbed ELSE TRUE
             /\ (Copying' <=> Copying) /\ New' = New /\ Current' = Current
             /\ \A h : h \in Kept' <=> h \in Kept
<1> DEFINE c == srv[s]
           f == c.f
           c2 == Idle(c)
<1>1. /\ srv' = [srv EXCEPT ![s] = c2] /\ lock' = [lock EXCEPT ![f] = Nobody]
      /\ exp' = IF c.op = "add" THEN exp ELSE [exp EXCEPT !.disturbed = TRUE]
      /\ dir' = dir /\ started' = started
  BY DEF Commit
<1>2. DOMAIN srv = Servers /\ RunType(exp)
  BY DEF IInv, Types
<1>3. f \in Files /\ f \in Files \cup {0} /\ lock \in [Files -> Servers \cup {Expunger, Nobody}]
  BY CommitWrites, CallKnown
<1>4. CallType(c2) /\ c2.pc = "idle" /\ c2.f = f
  BY <1>3, NoCallType
<1> HIDE DEF c, f, c2
<1>5. /\ DOMAIN srv' = Servers /\ srv'[s] = c2 /\ \A p \in Servers : p # s => srv'[p] = srv[p]
  BY <1>1, <1>2
<1>6. /\ lock' \in [Files -> Servers \cup {Expunger, Nobody}]
      /\ \A h \in Files : h # f => lock'[h] = lock[h]
  BY <1>1, <1>3
<1>7. /\ RunType(exp') /\ exp'.pc = exp.pc /\ exp'.i = exp.i /\ exp'.high = exp.high
      /\ exp'.old = exp.old /\ exp'.pref = exp.pref
      /\ exp'.disturbed = IF c.op = "add" THEN exp.disturbed ELSE TRUE
  BY <1>1, <1>2 DEF RunType
<1>8. (Copying' <=> Copying) /\ New' = New /\ Current' = Current
  BY <1>1, <1>7 DEF Copying, New, Current
<1>9. \A h : h \in Kept' <=> h \in Kept
  BY <1>1, <1>7, <1>8 DEF Kept, LeftOver, Named
<1> QED
  BY <1>1, <1>4, <1>5, <1>6, <1>7, <1>8, <1>9 DEF c, f

\* The copy, when a call is answered: what was copied stays a copy, and no server
\* writes a file at "bak".
LEMMA CommitCopy ==
  ASSUME IInv, NEW s \in Servers, Commit(s)
  PROVE  CopyInv'
<1> DEFINE c == srv[s]
           f == c.f
<1>1. SUFFICES ASSUME Copying
               PROVE  RunInv(exp', file'[exp.old], file'[New], text'[exp.old], text'[New], gone')
  BY CommitLeaves DEF CopyInv
<1>2. /\ exp.old \in Files /\ New \in Files /\ exp.old \in Kept /\ New \in Kept
      /\ exp.pc \in Before2 => New = dir["bak"]
  BY <1>1, RunFacts DEF IInv
<1>3. /\ RunType(exp)
      /\ RunInv(exp, file[exp.old], file[New], text[exp.old], text[New], gone)
  BY <1>1, RunKnown
<1>4. exp.i \in Nat \ {0} /\ exp.high \in Nat
  BY <1>3 DEF RunType
<1>5. /\ f # dir["bak"] /\ lock[f] = s /\ gone \subseteq gone'
      /\ \A h \in Files : h # f => file'[h] = file[h]
      /\ Grown(file[exp.old], text[exp.old], file'[exp.old], text'[exp.old])
      /\ Grown(file[New], text[New], file'[New], text'[New])
      /\ c.op = "add" => /\ LiveSame(file[exp.old], file'[exp.old])
                         /\ LiveSame(file[New], file'[New])
  BY <1>2, CommitWrites
<1>6. /\ exp'.pc = exp.pc /\ exp'.i = exp.i /\ exp'.high = exp.high /\ exp'.pref = exp.pref
      /\ exp'.disturbed = IF c.op = "add" THEN exp.disturbed ELSE TRUE
  BY CommitLeaves
<1>8. exp.pc \in Before2 => file'[New] = file[New]
  BY <1>2, <1>5
<1> HIDE DEF c, f
<1>9. ~exp'.disturbed => /\ ~exp.disturbed
                         /\ LiveSame(file[exp.old], file'[exp.old])
                         /\ LiveSame(file[New], file'[New])
  BY <1>5, <1>6
<1> DEFINE o == file[exp.old]
           o2 == file'[exp.old]
           m2 == file'[New]
<1>10. /\ exp'.pc = exp.pc /\ exp'.i = exp.i /\ exp'.high = exp.high /\ exp'.pref = exp.pref
       /\ Grown(file[exp.old], text[exp.old], file'[exp.old], text'[exp.old])
       /\ Grown(file[New], text[New], file'[New], text'[New])
       /\ gone \subseteq gone'
  BY <1>5, <1>6
<1> QED
  BY <1>3, <1>4, <1>8, <1>9, <1>10, GrownRun

\* The answered adds, when a call is answered.
LEMMA CommitAcked ==
  ASSUME IInv, NEW s \in Servers, Commit(s)
  PROVE  /\ AckedBeforeMove' /\ BothThere' /\ FutInv' /\ LookInv'
         /\ acked' \subseteq [n : Nat \ {0}, id : Nat, late : BOOLEAN]
<1> DEFINE c == srv[s]
           f == c.f
           n == c.mem.highest
           late == dir["loc"] # f \/ exp.pc = "rename1"
           new == [n |-> n, id |-> c.id, late |-> late]
<1>1. acked' = IF c.op = "add" THEN acked \cup {new} ELSE acked
  BY DEF Commit
<1>2. dir' = dir /\ Current' = Current /\ exp'.pc = exp.pc /\ exp'.high = exp.high
  BY CommitLeaves
<1>3. /\ Types /\ KeptInv /\ DirInv /\ dir \in [{"loc", "bak", "fut"} -> Files \cup {0}]
      /\ acked \subseteq [n : Nat \ {0}, id : Nat, late : BOOLEAN]
  BY DEF IInv, Types
<1>4. /\ f \in Files /\ f # 0 /\ f # dir["bak"] /\ c.id \in Nat /\ IsFile(c.mem)
      /\ c.op = "add" => n # 0
      /\ gone \subseteq gone'
      /\ file'[f] = c.mem
      /\ \A h \in Files : h # f => file'[h] = file[h]
      /\ \A h \in Kept : /\ Grown(file[h], text[h], file'[h], text'[h]) /\ file'[h].created
      /\ f \in Kept /\ c.op = "add" => n \in Stored(file'[f]) /\ text'[f][n] = c.id
  BY CommitWrites
<1>5. n \in Nat
  BY <1>4 DEF IsFile
<1>6. /\ c.op = "add" => /\ new \in [n : Nat \ {0}, id : Nat, late : BOOLEAN]
                         /\ new.n = n /\ new.id = c.id /\ new.late = late
  BY <1>4, <1>5
<1> HIDE DEF c, f, n, new
<1>7. acked' \subseteq [n : Nat \ {0}, id : Nat, late : BOOLEAN]
  BY <1>1, <1>3, <1>6
\* What was in a meeting is there still.
<1>8. ASSUME NEW h \in Kept, NEW i \in Stored(file[h])
      PROVE  i \in Stored(file'[h]) /\ text'[h][i] = text[h][i]
  <2>1. file[h].highest \in Nat /\ Grown(file[h], text[h], file'[h], text'[h])
    BY <1>4 DEF Grown
  <2>2. i \in Trns(file[h])
    BY <2>1, SetsOf
  <2> QED
    BY <2>1, <2>2 DEF Grown
<1>9. AckedBeforeMove'
  <2>1. Current \in Files /\ Current \in Kept
    <3>1. Current \in {dir["loc"], dir["bak"]} /\ Current # 0
      BY <1>3 DEF Current, DirInv
    <3> QED
      BY <1>3, <3>1 DEF Kept, LeftOver, Named, Current, DirInv
  <2>2. ASSUME NEW a \in acked' PROVE a.late \/ a.id \in gone' \/ InMeeting(a)'
    <3>1. CASE a \in acked
      <4>1. a.late \/ a.id \in gone \/ InMeeting(a)
        BY <3>1 DEF IInv, AckedBeforeMove
      <4>2. InMeeting(a) => InMeeting(a)'
        BY <1>2, <1>8, <2>1 DEF InMeeting
      <4> QED
        BY <1>4, <4>1, <4>2
    <3>2. CASE c.op = "add" /\ a = new /\ ~late
      <4>1. Current = f
        BY <1>4, <3>2 DEF Current
      <4> QED
        BY <1>2, <1>4, <1>6, <2>1, <3>2, <4>1 DEF InMeeting
    <3>3. CASE c.op = "add" /\ a = new /\ late
      BY <1>6, <3>3
    <3> QED
      BY <1>1, <2>2, <3>1, <3>2, <3>3
  <2> QED
    BY <2>2 DEF AckedBeforeMove
<1>10. ASSUME dir["loc"] = 0
       PROVE  /\ file'[dir["bak"]].highest <= file'[dir["fut"]].highest
              /\ Trns(file'[dir["bak"]]) \subseteq Trns(file'[dir["fut"]])
              /\ file'[dir["fut"]].created
              /\ \A a \in acked' :
                    \/ a.late \/ a.id \in gone'
                    \/ a.n \in Stored(file'[dir["fut"]]) /\ text'[dir["fut"]][a.n] = a.id
  <2> DEFINE bak == dir["bak"]
             fut == dir["fut"]
  <2>1. /\ bak # 0 /\ fut # 0 /\ Trns(file[bak]) \subseteq Trns(file[fut])
        /\ file[bak].highest <= file[fut].highest
        /\ \A a \in acked : \/ a.late \/ a.id \in gone
                            \/ a.n \in Stored(file[fut]) /\ text[fut][a.n] = a.id
    BY <1>10 DEF IInv, BothThere, FutInv
  <2>2. bak \in Kept /\ fut \in Kept /\ bak \in Files
    BY <1>3, <1>10, <2>1 DEF Kept, LeftOver, Named
  <2>3. file'[bak] = file[bak]
    BY <1>4, <2>2
  <2> HIDE DEF bak, fut
  <2>4. /\ file[bak].highest \in Nat /\ Grown(file[fut], text[fut], file'[fut], text'[fut])
        /\ file'[fut].created
    BY <1>3, <1>4, <2>2, KeptType
  <2>5. file'[bak].highest <= file'[fut].highest
    BY <2>1, <2>3, <2>4 DEF Grown
  <2>6. Trns(file'[bak]) \subseteq Trns(file'[fut])
    BY <2>1, <2>3, <2>4, SetsOf DEF Grown
  <2>7. ASSUME NEW a \in acked'
        PROVE  \/ a.late \/ a.id \in gone'
               \/ a.n \in Stored(file'[fut]) /\ text'[fut][a.n] = a.id
    <3>1. CASE a \in acked
      BY <1>4, <1>8, <2>1, <2>2, <3>1
    <3>2. CASE c.op = "add" /\ a = new
      BY <1>4, <1>6, <1>10, <3>2
    <3> QED
      BY <1>1, <2>7, <3>1, <3>2
  <2> QED
    BY <2>4, <2>5, <2>6, <2>7 DEF bak, fut
<1>11. FutInv' /\ BothThere'
  <2>1. dir["loc"] = 0 => dir["fut"] # 0 /\ dir["bak"] # 0
    BY <1>3 DEF DirInv
  <2> QED
    BY <1>2, <1>10, <2>1 DEF FutInv, BothThere
<1>12. LookInv'
  <2>1. ASSUME exp.pc = "rename1", NEW a \in acked'
        PROVE  a.late \/ a.id \in gone' \/ a.n <= exp.high
    <3>1. CASE a \in acked
      BY <1>4, <2>1, <3>1 DEF IInv, LookInv
    <3>2. CASE c.op = "add" /\ a = new
      BY <1>6, <2>1, <3>2
    <3> QED
      BY <1>1, <2>1, <3>1, <3>2
  <2> QED
    BY <1>2, <2>1 DEF LookInv
<1> QED
  BY <1>7, <1>9, <1>11, <1>12

\* aclose.
LEMMA CommitKeeps ==
  ASSUME IInv, NEW s \in Servers, Commit(s)
  PROVE  IInv'
<1> DEFINE c == srv[s]
           f == c.f
<1>1. /\ Types /\ KeptInv /\ DirInv /\ DOMAIN srv = Servers
      /\ dir \in [{"loc", "bak", "fut"} -> Files \cup {0}]
  BY DEF IInv, Types
<1>2. /\ f \in Files /\ f # 0 /\ f # dir["bak"] /\ lock[f] = s /\ IsFile(c.mem) /\ c.mem # NoFile
      /\ DOMAIN file' = Files /\ DOMAIN text' = Files
      /\ file'[f] = c.mem
      /\ \A h \in Files : h # f => file'[h] = file[h]
      /\ \A h \in Kept : /\ h \in Files /\ Linked(file'[h]) /\ file'[h].created
                         /\ GoneOf(file'[h], text'[h], gone')
  BY CommitWrites
<1>3. /\ DOMAIN srv' = Servers /\ CallType(srv'[s]) /\ srv'[s].pc = "idle" /\ srv'[s].f = f
      /\ \A p \in Servers : p # s => srv'[p] = srv[p]
      /\ lock' \in [Files -> Servers \cup {Expunger, Nobody}]
      /\ \A h \in Files : h # f => lock'[h] = lock[h]
      /\ dir' = dir /\ started' = started
      /\ RunType(exp') /\ exp'.pc = exp.pc /\ exp'.old = exp.old
      /\ (Copying' <=> Copying)
      /\ \A h : h \in Kept' <=> h \in Kept
  BY CommitLeaves
<1> HIDE DEF c, f
<1>4. acked' \subseteq [n : Nat \ {0}, id : Nat, late : BOOLEAN]
  BY CommitAcked
<1>5. Types'
  <2>1. \A h \in Files : file'[h] # NoFile => IsFile(file'[h])
    BY <1>1, <1>2 DEF Types
  <2>2. \A p \in Servers : CallType(srv'[p])
    BY <1>1, <1>3 DEF Types
  <2>3. dir' \in [{"loc", "bak", "fut"} -> Files \cup {0}] /\ started' \in Nat
    BY <1>1, <1>3 DEF Types
  <2> QED
    BY <1>2, <1>3, <1>4, <2>1, <2>2, <2>3 DEF Types
<1>6. KeptInv' /\ GoneInv'
  <2>1. \A h \in Kept : file'[h] # NoFile
    BY <1>1, <1>2 DEF KeptInv
  <2> QED
    BY <1>2, <1>3, <2>1 DEF KeptInv, GoneInv
<1>7. CallsInv'
  <2>1. ASSUME NEW p \in Servers PROVE CallInv(p)'
    <3>1. CASE p = s
      BY <1>2, <1>3, <3>1 DEF CallInv
    <3>2. CASE p # s
      <4> DEFINE d == srv[p]
      <4>1. srv'[p] = d /\ CallInv(p) /\ CallType(d) /\ d.f \in Files \cup {0}
        BY <1>3, <3>2, CallKnown
      <4>2. /\ d.f # 0 => file'[d.f] # NoFile /\ d.f # dir["bak"]
            /\ d.pc \in {"lock", "close"} => d.f # 0
        BY <1>2, <4>1 DEF CallInv
      <4>3. ASSUME d.pc = "close"
            PROVE  /\ lock'[d.f] = p
                   /\ IsFile(d.mem) /\ (d.op = "add" => d.mem.highest # 0)
                   /\ d.f \in Kept => Allowed(file'[d.f], d) /\ d.mem = Changed(file'[d.f], d)
        <5>1. /\ d.f \in Files /\ lock[d.f] = p
              /\ IsFile(d.mem) /\ (d.op = "add" => d.mem.highest # 0)
              /\ d.f \in Kept => Allowed(file[d.f], d) /\ d.mem = Changed(file[d.f], d)
          BY <4>1, <4>3 DEF CallInv
        <5>2. d.f # f
          BY <1>2, <3>2, <5>1
        <5> QED
          BY <1>2, <1>3, <5>1, <5>2
      <4> HIDE DEF d
      <4> QED
        BY <1>3, <4>1, <4>2, <4>3 DEF CallInv
    <3> QED
      BY <3>1, <3>2
  <2> QED
    BY <2>1 DEF CallsInv
<1>8. DirInv'
  BY <1>1, <1>3 DEF DirInv, Named
<1>10. CopyInv' /\ FutInv' /\ AckedBeforeMove' /\ BothThere' /\ LookInv'
  BY CommitCopy, CommitAcked
<1> QED
  BY <1>5, <1>6, <1>7, <1>8, <1>10 DEF IInv

-----------------------------------------------------------------------------
(* All steps, and what follows                                             *)

\* At the start there is one meeting, which is whole, and nobody does anything yet.
LEMMA Initially == Init => IInv
<1>1. SUFFICES ASSUME Init PROVE IInv
  OBVIOUS
<1>2. PICK start \in Starts :
         LET m == start.meeting
             first == MaxFiles - start.runs
         IN  /\ file = [f \in Files |-> IF f <= first THEN m ELSE NoFile]
             /\ text = [f \in Files |-> IF f <= first THEN [i \in Trns(m) |-> i] ELSE << >>]
             /\ acked = {[n |-> i, id |-> i, late |-> FALSE] : i \in Stored(m)}
             /\ gone = Stored(m) \ Live(m)
             /\ started = MaxCalls - start.calls
             /\ dir = [name \in {"loc", "bak", "fut"} |-> IF name = "loc" THEN first ELSE 0]
  BY <1>1 DEF Init
<1> DEFINE m == start.meeting
           first == MaxFiles - start.runs
<1>3. /\ start.calls \in 0 .. MaxCalls /\ start.runs \in 0 .. MaxFiles - 1
      /\ MtgType(m) /\ m.created /\ Linked(m)
  BY StartsAssumption DEF Linked
<1>4. /\ Files = 1 .. MaxFiles /\ MaxFiles \in Nat /\ MaxCalls \in Nat
  BY FilesAssumption DEF Files
<1>5. first \in Files /\ first # 0 /\ first \in Nat
  BY <1>3, <1>4
<1>6. IsFile(m) /\ m # NoFile /\ m.highest \in Nat
  BY <1>3, MeetingFile, MtgFields
<1>7. /\ lock = [f \in Files |-> Nobody] /\ srv = [s \in Servers |-> NoCall] /\ exp = NoRun
  BY <1>1 DEF Init
<1>8. /\ exp.pc = "start" /\ exp.old = 0 /\ RunType(exp) /\ ~Copying
  BY <1>7, ExitType DEF Copying
<1>9. /\ CallType(NoCall) /\ NoCall.pc = "idle" /\ NoCall.f = 0
  BY NoCallType
<1> HIDE DEF m, first
<1>10. /\ file = [f \in Files |-> IF f <= first THEN m ELSE NoFile]
       /\ text = [f \in Files |-> IF f <= first THEN [i \in Trns(m) |-> i] ELSE << >>]
       /\ acked = {[n |-> i, id |-> i, late |-> FALSE] : i \in Stored(m)}
       /\ gone = Stored(m) \ Live(m)
       /\ started = MaxCalls - start.calls
       /\ dir = [name \in {"loc", "bak", "fut"} |-> IF name = "loc" THEN first ELSE 0]
  BY <1>2 DEF m, first
<1>11. /\ dir["loc"] = first /\ dir["bak"] = 0 /\ dir["fut"] = 0
       /\ dir \in [{"loc", "bak", "fut"} -> Files \cup {0}]
  BY <1>5, <1>10
<1>12. /\ DOMAIN file = Files /\ file[first] = m
       /\ \A f \in Files : file[f] # NoFile => file[f] = m
  BY <1>5, <1>10
<1>13. DOMAIN text = Files /\ text[first] = [i \in Trns(m) |-> i]
  BY <1>5, <1>10
<1>14. \A i \in Stored(m) : i \in Trns(m) /\ i \in Nat /\ i > 0 /\ text[first][i] = i
  BY <1>6, <1>13, SetsOf
<1>15. Kept = {first}
  BY <1>5, <1>8, <1>11, FilesNat DEF Kept, LeftOver, Named
<1>16. Types
  <2>1. acked \subseteq [n : Nat \ {0}, id : Nat, late : BOOLEAN]
    <3>1. SUFFICES ASSUME NEW a \in acked PROVE a \in [n : Nat \ {0}, id : Nat, late : BOOLEAN]
      OBVIOUS
    <3>2. PICK i \in Stored(m) : a = [n |-> i, id |-> i, late |-> FALSE]
      BY <1>10, <3>1
    <3>3. i \in Nat /\ i # 0
      BY <1>14
    <3> QED
      BY <3>2, <3>3
  <2>2. started \in Nat
    BY <1>3, <1>4, <1>10
  <2>3. lock \in [Files -> Servers \cup {Expunger, Nobody}]
    BY <1>7
  <2>4. DOMAIN srv = Servers /\ \A s \in Servers : CallType(srv[s])
    BY <1>7, <1>9
  <2> QED
    BY <1>6, <1>8, <1>11, <1>12, <1>13, <2>1, <2>2, <2>3, <2>4 DEF Types
<1>17. KeptInv
  BY <1>3, <1>6, <1>12, <1>15 DEF KeptInv
<1>18. GoneInv
  <2>1. \A i \in Stored(m) : i \notin Live(m) => i \in gone
    BY <1>10
  <2>2. GoneOf(m, text[first], gone)
    BY <1>14, <2>1 DEF GoneOf
  <2> QED
    BY <1>12, <1>15, <2>2 DEF GoneInv
<1>19. CallsInv
  BY <1>7, <1>9 DEF CallsInv, CallInv
<1>20. DirInv
  BY <1>5, <1>8, <1>11 DEF DirInv, Before1
<1>21. LookInv /\ CopyInv
  BY <1>8 DEF LookInv, CopyInv
<1>22. FutInv /\ BothThere
  BY <1>5, <1>11 DEF FutInv, BothThere
<1>23. AckedBeforeMove
  <2>1. \A a \in acked : a.n \in Stored(m) /\ a.id = a.n
    BY <1>10
  <2>2. Current = first
    BY <1>5, <1>11 DEF Current
  <2> QED
    BY <1>12, <1>14, <2>1, <2>2 DEF AckedBeforeMove, InMeeting
<1> QED
  BY <1>16, <1>17, <1>18, <1>19, <1>20, <1>21, <1>22, <1>23 DEF IInv

\* Killed or not, at any step.
LEMMA ExpungingKeeps ==
  ASSUME IInv, Start \/ Expunging \/ ExpungerDies \/ DiesCopying \/ Rerun
  PROVE  IInv'
<1>1. CASE Start
  BY <1>1, StartKeeps
<1>2. CASE GetInfo
  BY <1>2, GetInfoKeeps
<1>3. CASE CopyHole
  BY <1>3, CopyHoleKeeps
<1>4. CASE GetTrn
  BY <1>4, GetTrnKeeps
<1>5. CASE CopyTrn
  BY <1>5, CopyTrnKeeps
<1>6. CASE Check
  BY <1>6, CheckKeeps
<1>7. CASE LockOld
  BY <1>7, LockOldKeeps
<1>8. CASE Recheck
  BY <1>8, RecheckKeeps
<1>9. CASE Rename1
  BY <1>9, Rename1Keeps
<1>10. CASE Rename2
  BY <1>10, Rename2Keeps
<1>11. CASE RemoveOpen
  BY <1>11, RemoveOpenKeeps
<1>12. CASE RemoveUnlink
  BY <1>12, RemoveUnlinkKeeps
<1>13. CASE RemoveMark
  BY <1>13, RemoveMarkKeeps
<1>14. CASE ExpungerDies
  BY <1>14, ExpungerDiesKeeps
<1>15. CASE Rerun
  BY <1>15, RerunKeeps
<1>16. CASE RecheckOpen
  BY <1>16, RecheckOpenKeeps
<1>17. CASE DiesCopying
  BY <1>17, DiesCopyingKeeps
<1> QED
  BY <1>1, <1>2, <1>3, <1>4, <1>5, <1>6, <1>7, <1>8, <1>9, <1>10, <1>11, <1>12, <1>13,
     <1>14, <1>15, <1>16, <1>17 DEF Expunging

\* Every step of a server or of the program keeps the invariant.
LEMMA StepKeeps == IInv /\ [Next]_vars => IInv'
<1>1. SUFFICES ASSUME IInv, [Next]_vars PROVE IInv'
  OBVIOUS
<1>2. ASSUME NEW s \in Servers, NEW op \in Ops, NEW t \in 0 .. MaxCalls, Call(s, op, t)
      PROVE  IInv'
  BY <1>1, <1>2, CallKeeps
<1>3. ASSUME NEW s \in Servers, ServerStep(s) PROVE IInv'
  BY <1>1, <1>3, OpenMtgKeeps, WorkKeeps, CommitKeeps DEF ServerStep
<1>4. ASSUME NEW s \in Servers, SetAccess(s) \/ ServerDies(s) PROVE IInv'
  BY <1>1, <1>4, SetAccessKeeps, ServerDiesKeeps
<1>5. CASE Start \/ Expunging \/ ExpungerDies \/ DiesCopying \/ Rerun
  BY <1>1, <1>5, ExpungingKeeps
<1>6. CASE UNCHANGED vars
  <2>1. /\ file' = file /\ text' = text /\ dir' = dir /\ lock' = lock /\ srv' = srv /\ exp' = exp
        /\ acked' = acked /\ gone' = gone /\ started' = started
    BY <1>6 DEF vars
  <2>2. /\ New' = New /\ Current' = Current /\ (Copying' <=> Copying)
        /\ \A h : h \in Kept' <=> h \in Kept
    BY <2>1 DEF New, Current, Copying, Kept, LeftOver, Named
  <2>3. /\ lock' \in [Files -> Servers \cup {Expunger, Nobody}] /\ RunType(exp')
        /\ \A s \in Servers : \A f \in Files : lock[f] = s => lock'[f] = s
    BY <1>1, <2>1 DEF IInv, Types
  <2>4. DirInv' /\ LookInv'
    BY <1>1, <2>1, <2>2 DEF IInv, DirInv, LookInv, Named
  <2>5. Copying' => /\ Copying /\ exp'.old = exp.old /\ New' = New
                    /\ RunInv(exp', file[exp.old], file[New], text[exp.old], text[New], gone)
    BY <1>1, <2>1, <2>2 DEF IInv, CopyInv
  <2> QED
    BY <1>1, <2>1, <2>3, <2>4, <2>5, SameNames
<1> QED
  BY <1>1, <1>2, <1>3, <1>4, <1>5, <1>6 DEF Next

\* Nothing is held where the program is not about to move the meetings.
LEMMA HeldNot ==
  ASSUME exp'.pc \notin {"recheck", "reread"} \cup Moving, exp'.mod \in Nat,
         now' \in Nat, acl' \in [Files -> 0 .. now']
  PROVE  HeldInv'
  BY DEF HeldInv, Moving

\* A server does not touch a file that the program has locked, and the acl of a meeting
\* only becomes newer.
LEMMA HeldStays ==
  ASSUME IInv, HeldInv, now' \in Nat, acl' \in [Files -> 0 .. now'],
         exp'.pc = exp.pc, exp'.old = exp.old, exp'.high = exp.high, exp'.mod = exp.mod,
         \A f \in Files : acl'[f] >= acl[f],
         \A f \in Files : lock[f] = Expunger =>
                             lock'[f] = Expunger /\ file'[f].highest = file[f].highest
  PROVE  HeldInv'
<1>1. CASE exp.pc \notin {"recheck", "reread"} \cup Moving
  BY <1>1, HeldNot DEF HeldInv
<1>2. CASE exp.pc \in {"recheck", "reread"} \cup Moving
  <2>1. exp.old \in Files
    BY <1>2, RunFacts DEF IInv, Copying, Moving
  <2>2. /\ acl[exp.old] \in Nat /\ acl'[exp.old] \in Nat /\ acl'[exp.old] >= acl[exp.old]
        /\ exp.mod \in Nat
    BY <2>1 DEF HeldInv
  <2>3. ~AclNewer' => ~AclNewer
    BY <2>2 DEF AclNewer
  <2> QED
    BY <2>1, <2>3 DEF HeldInv
<1> QED
  BY <1>1, <1>2

\* The program takes its steps with its lock.
LEMMA HeldMoves ==
  ASSUME IInv, HeldInv, LockOld \/ RecheckOpen \/ Recheck \/ Rename1 \/ Rename2
  PROVE  HeldInv'
<1>1. /\ acl' = acl /\ now' = now /\ file' = file /\ now \in Nat /\ acl \in [Files -> 0 .. now]
      /\ exp.mod \in Nat
  BY DEF LockOld, RecheckOpen, Recheck, Rename1, Rename2, serverVars, HeldInv
<1>2. RunType(exp) /\ Copying
  BY DEF IInv, Types, LockOld, RecheckOpen, Recheck, Rename1, Rename2, Copying
<1>3. exp.old \in Files /\ lock \in [Files -> Servers \cup {Expunger, Nobody}]
  BY <1>2, RunFacts DEF IInv, Types
<1>4. CASE LockOld
  <2>1. exp'.pc = "recheck" /\ exp'.old = exp.old /\ exp'.mod = exp.mod
    BY <1>2, <1>4 DEF LockOld, RunType
  <2>2. lock'[exp.old] = Expunger
    BY <1>3, <1>4 DEF LockOld
  <2> QED
    BY <1>1, <2>1, <2>2 DEF HeldInv, Moving
<1>5. CASE RecheckOpen
  <2>1. exp.pc = "recheck" /\ exp'.pc = "reread" /\ exp'.old = exp.old /\ exp'.mod = exp.mod
    BY <1>2, <1>5 DEF RecheckOpen, RunType
  <2>2. ~AclNewer' => lock'[exp.old] = Expunger
    BY <1>1, <1>5, <2>1 DEF RecheckOpen, HeldInv, AclNewer
  <2> QED
    BY <1>1, <2>1, <2>2 DEF HeldInv, Moving
<1>6. CASE Recheck
  <2>1. CASE exp' = [exp EXCEPT !.pc = "info", !.high = file[exp.old].highest]
    <3>1. exp'.pc = "info" /\ exp'.mod = exp.mod
      BY <1>2, <2>1 DEF RunType
    <3> QED
      BY <1>1, <3>1, HeldNot DEF Moving
  <2>2. CASE /\ file[exp.old].highest <= exp.high /\ exp' = [exp EXCEPT !.pc = "rename1"]
             /\ lock' = lock
    <3>1. /\ exp.pc = "reread" /\ exp'.pc = "rename1" /\ exp'.old = exp.old
          /\ exp'.mod = exp.mod /\ exp'.high = exp.high
      BY <1>2, <1>6, <2>2 DEF Recheck, RunType
    <3>2. ~AclNewer' => lock'[exp.old] = Expunger
      BY <1>1, <2>2, <3>1 DEF HeldInv, AclNewer
    <3>3. file[exp.old].highest = exp.high
      <4>1. /\ Counted(exp, file[exp.old].highest, file[New].highest)
            /\ file[exp.old].highest \in Nat
        BY <1>2, RunKnown
      <4> QED
        BY <1>2, <2>2, <4>1 DEF Counted, RunType
    <3> QED
      BY <1>1, <3>1, <3>2, <3>3 DEF HeldInv, Moving
  <2> QED
    BY <1>6, <2>1, <2>2 DEF Recheck
<1>7. CASE Rename1 \/ Rename2
  <2>1. CASE exp' = Exit
    <3>1. exp'.pc = "exit" /\ exp'.mod = 0
      BY <2>1 DEF Exit, NoRun
    <3> QED
      BY <1>1, <3>1, HeldNot DEF Moving
  <2>2. CASE \E pc \in {"rename2", "remove"} : exp' = [exp EXCEPT !.pc = pc] /\ lock' = lock
    <3>1. /\ exp.pc \in Moving /\ exp'.pc \in Moving /\ exp'.old = exp.old
          /\ exp'.mod = exp.mod /\ exp'.high = exp.high /\ lock' = lock
      BY <1>2, <1>7, <2>2 DEF Rename1, Rename2, RunType, Moving
    <3>2. AclNewer' <=> AclNewer
      BY <1>1, <3>1 DEF AclNewer
    <3> QED
      BY <1>1, <3>1, <3>2 DEF HeldInv, Moving
  <2> QED
    BY <1>7, <2>1, <2>2 DEF Rename1, Rename2
<1> QED
  BY <1>4, <1>5, <1>6, <1>7

\* The other steps of the program.
LEMMA HeldElsewhere ==
  ASSUME IInv, HeldInv,
         \/ Start \/ GetInfo \/ CopyHole \/ GetTrn \/ CopyTrn \/ Check
         \/ RemoveOpen \/ RemoveUnlink \/ RemoveMark
         \/ ExpungerDies \/ DiesCopying \/ Rerun
  PROVE  HeldInv'
<1>1. now \in Nat /\ acl \in [Files -> 0 .. now] /\ exp.mod \in Nat
  BY DEF HeldInv
<1>2. RunType(exp)
  BY DEF IInv, Types
<1>3. Exit.pc = "exit" /\ Exit.mod = 0 /\ NoRun.pc = "start" /\ NoRun.mod = 0
  BY DEF Exit, NoRun
<1>4. CASE Start
  <2>1. now' \in Nat /\ acl' \in [Files -> 0 .. now']
    <3>1. CASE now' = now /\ acl' = acl
      BY <1>1, <3>1
    <3>2. CASE now' \in {now, now + 1} /\ \E f \in Files : acl' = [acl EXCEPT ![f] = now']
      <4>1. now' \in Nat /\ now' >= now
        BY <1>1, <3>2
      <4>2. \A k \in 0 .. now : k \in 0 .. now'
        BY <1>1, <4>1
      <4>3. now' \in 0 .. now'
        BY <4>1
      <4> QED
        BY <1>1, <3>2, <4>1, <4>2, <4>3
    <3> QED
      BY <1>4, <3>1, <3>2 DEF Start, UnusedFiles
  <2>2. exp'.pc \in {"info", "exit"} /\ exp'.mod = 0
    BY <1>3, <1>4 DEF Start, NoRun
  <2> QED
    BY <2>1, <2>2, HeldNot DEF Moving
<1>5. CASE Check
  <2>1. Copying /\ acl' = acl /\ now' = now
    BY <1>5 DEF Check, Copying, serverVars
  <2>2. acl[exp.old] \in Nat
    <3>1. exp.old \in Files
      BY <2>1, RunFacts DEF IInv
    <3> QED
      BY <1>1, <3>1
  <2>3. exp'.pc \in {"info", "lock"} /\ exp'.mod \in Nat
    BY <1>1, <1>2, <1>5, <2>2 DEF Check, RunType
  <2> QED
    BY <1>1, <2>1, <2>3, HeldNot DEF Moving
<1>6. CASE GetInfo \/ CopyHole \/ GetTrn \/ CopyTrn
  <2>1. acl' = acl /\ now' = now
    BY <1>6 DEF GetInfo, CopyHole, GetTrn, CopyTrn, serverVars
  <2>2. exp'.pc \in {"info", "hole", "text", "add", "exit"} /\ exp'.mod \in Nat
    <3>1. CASE GetInfo
      BY <1>1, <1>2, <3>1 DEF GetInfo, RunType
    <3>2. CASE CopyHole
      BY <1>1, <1>2, <3>2 DEF CopyHole, RunType
    <3>3. CASE GetTrn
      <4>1. exp' = [Exit EXCEPT !.disturbed = exp.disturbed] \/ exp' = [exp EXCEPT !.pc = "add"]
        BY <3>3 DEF GetTrn
      <4>2. CASE exp' = [Exit EXCEPT !.disturbed = exp.disturbed]
        BY <4>2 DEF Exit, NoRun
      <4>3. CASE exp' = [exp EXCEPT !.pc = "add"]
        BY <1>1, <1>2, <4>3 DEF RunType
      <4> QED
        BY <4>1, <4>2, <4>3
    <3>4. CASE CopyTrn
      <4>1. \/ exp' = [Exit EXCEPT !.disturbed = exp.disturbed]
            \/ exp' = [exp EXCEPT !.pc = "info", !.i = @ + 1, !.no_nuke = FALSE]
        BY <3>4 DEF CopyTrn
      <4>2. CASE exp' = [Exit EXCEPT !.disturbed = exp.disturbed]
        BY <4>2 DEF Exit, NoRun
      <4>3. CASE exp' = [exp EXCEPT !.pc = "info", !.i = @ + 1, !.no_nuke = FALSE]
        BY <1>1, <1>2, <4>3 DEF RunType
      <4> QED
        BY <4>1, <4>2, <4>3
    <3> QED
      BY <1>6, <3>1, <3>2, <3>3, <3>4
  <2> QED
    BY <1>1, <2>1, <2>2, HeldNot DEF Moving
<1>7. CASE RemoveOpen \/ RemoveUnlink
  <2>1. acl' = acl /\ now' = now
    BY <1>7 DEF RemoveOpen, RemoveUnlink, serverVars
  <2>2. exp'.pc \in {"unlink", "mark"} /\ exp'.mod \in Nat
    BY <1>1, <1>2, <1>7 DEF RemoveOpen, RemoveUnlink, RunType
  <2> QED
    BY <1>1, <2>1, <2>2, HeldNot DEF Moving
<1>8. CASE RemoveMark \/ ExpungerDies \/ DiesCopying \/ Rerun
  <2>1. acl' = acl /\ now' = now
    BY <1>8 DEF RemoveMark, ExpungerDies, DiesCopying, Rerun, serverVars
  <2>2. exp'.pc \in {"exit", "start"} /\ exp'.mod = 0
    BY <1>3, <1>8 DEF RemoveMark, ExpungerDies, DiesCopying, Rerun
  <2> QED
    BY <1>1, <2>1, <2>2, HeldNot DEF Moving
<1> QED
  BY <1>4, <1>5, <1>6, <1>7, <1>8

\* A server answers a call on a file that it has locked itself.
LEMMA HeldCommit ==
  ASSUME IInv, HeldInv, NEW s \in Servers, Commit(s)
  PROVE  HeldInv'
<1>1. /\ acl' = acl /\ now' = now /\ lock' = [lock EXCEPT ![srv[s].f] = Nobody]
      /\ exp' = IF srv[s].op = "add" THEN exp ELSE [exp EXCEPT !.disturbed = TRUE]
  BY DEF Commit
<1>2. /\ srv[s].f \in Files /\ lock[srv[s].f] = s
      /\ \A h \in Files : h # srv[s].f => file'[h] = file[h]
  BY CommitWrites
<1>3. RunType(exp) /\ lock \in [Files -> Servers \cup {Expunger, Nobody}]
  BY DEF IInv, Types
<1>4. exp'.pc = exp.pc /\ exp'.old = exp.old /\ exp'.high = exp.high /\ exp'.mod = exp.mod
  BY <1>1, <1>3 DEF RunType
<1>5. now \in Nat /\ acl \in [Files -> 0 .. now]
  BY DEF HeldInv
<1>6. \A f \in Files : lock[f] = Expunger =>
                          lock'[f] = Expunger /\ file'[f].highest = file[f].highest
  BY <1>1, <1>2, <1>3, LockersAssumption
<1>7. now' \in Nat /\ acl' \in [Files -> 0 .. now'] /\ \A f \in Files : acl'[f] >= acl[f]
  BY <1>1, <1>5
<1> QED
  BY <1>4, <1>6, <1>7, HeldStays

\* set_access is refused while somebody has the lock, and makes the acl no older.
LEMMA HeldSetAccess ==
  ASSUME IInv, HeldInv, NEW s \in Servers, SetAccess(s)
  PROVE  HeldInv'
<1>1. /\ now' \in {now, now + 1} /\ acl' = [acl EXCEPT ![dir["loc"]] = now']
      /\ exp' = exp /\ lock' = lock /\ file' = file
  BY DEF SetAccess
<1>2. now \in Nat /\ acl \in [Files -> 0 .. now] /\ dir["loc"] \in Files \cup {0}
  BY DEF HeldInv, IInv, Types
<1>3. now' \in Nat /\ now' >= now
  BY <1>1, <1>2
<1>4. \A k \in 0 .. now : k \in 0 .. now' /\ now' >= k /\ k >= k
  BY <1>2, <1>3
<1>5. now' \in 0 .. now'
  BY <1>3
<1>6. acl' \in [Files -> 0 .. now']
  BY <1>1, <1>2, <1>4, <1>5
<1>7. \A f \in Files : acl'[f] >= acl[f]
  BY <1>1, <1>2, <1>4
<1> QED
  BY <1>1, <1>3, <1>6, <1>7, HeldStays

\* Every step keeps the lock of the program with it.
LEMMA HeldKeeps == IInv /\ HeldInv /\ [Next]_vars => HeldInv'
<1>1. SUFFICES ASSUME IInv, HeldInv, [Next]_vars PROVE HeldInv'
  OBVIOUS
<1>2. now \in Nat /\ acl \in [Files -> 0 .. now] /\ \A f \in Files : acl[f] >= acl[f]
  BY <1>1 DEF HeldInv
<1>3. ASSUME acl' = acl, now' = now, exp' = exp, file' = file,
             \A f \in Files : lock[f] = Expunger => lock'[f] = Expunger
      PROVE  HeldInv'
  BY <1>1, <1>2, <1>3, HeldStays
<1>4. lock \in [Files -> Servers \cup {Expunger, Nobody}]
  BY <1>1 DEF IInv, Types
<1>5. ASSUME NEW s \in Servers, NEW op \in Ops, NEW t \in 0 .. MaxCalls, Call(s, op, t)
      PROVE  HeldInv'
  BY <1>3, <1>5 DEF Call
<1>6. ASSUME NEW s \in Servers, ServerStep(s) PROVE HeldInv'
  <2>1. CASE OpenMtg(s)
    BY <1>3, <2>1 DEF OpenMtg
  <2>2. CASE Work(s)
    <3>1. /\ acl' = acl /\ now' = now /\ exp' = exp /\ file' = file
          /\ lock[srv[s].f] = Nobody
          /\ lock' = lock \/ lock' = [lock EXCEPT ![srv[s].f] = s]
      BY <2>2 DEF Work
    <3>2. \A f \in Files : lock[f] = Expunger => lock'[f] = Expunger
      BY <1>4, <3>1, LockersAssumption
    <3> QED
      BY <1>3, <3>1, <3>2
  <2> QED
    BY <1>1, <1>6, <2>1, <2>2, HeldCommit DEF ServerStep
<1>7. ASSUME NEW s \in Servers, SetAccess(s) PROVE HeldInv'
  BY <1>1, <1>7, HeldSetAccess
<1>8. ASSUME NEW s \in Servers, ServerDies(s) PROVE HeldInv'
  <2>1. /\ acl' = acl /\ now' = now /\ exp' = exp /\ file' = file
        /\ lock' = [f \in Files |-> IF lock[f] = s THEN Nobody ELSE lock[f]]
    BY <1>8 DEF ServerDies
  <2>2. \A f \in Files : lock[f] = Expunger => lock'[f] = Expunger
    BY <2>1, LockersAssumption
  <2> QED
    BY <1>3, <2>1, <2>2
<1>9. CASE Start \/ Expunging \/ ExpungerDies \/ DiesCopying \/ Rerun
  BY <1>1, <1>9, HeldMoves, HeldElsewhere DEF Expunging
<1>10. CASE UNCHANGED vars
  BY <1>3, <1>10 DEF vars
<1> QED
  BY <1>1, <1>5, <1>6, <1>7, <1>8, <1>9, <1>10 DEF Next

\* No acl has been changed at the start.
LEMMA HeldInitially == Init => HeldInv
  BY FilesAssumption DEF Init, HeldInv, NoRun, Moving

\* The inductive invariant holds in every reachable state: whatever the servers do to the
\* meeting and to its acl, and wherever the program is killed, what is moved is whole.
THEOREM Invariance == Spec => [](IInv /\ HeldInv)
  BY Initially, StepKeeps, HeldInitially, HeldKeeps, PTL DEF Spec

\* open_mtg and the program always have a file at hand, and the copying goes by
\* transaction numbers.
THEOREM TypeCorrect == Spec => []TypeOK
<1>1. IInv /\ HeldInv => TypeOK
  <2>1. SUFFICES ASSUME IInv, HeldInv PROVE TypeOK
    OBVIOUS
  <2>2. Types /\ RunType(exp) /\ acl \in [Files -> 0 .. now]
    BY <2>1 DEF IInv, Types, HeldInv
  <2>3. \A f \in Files : file[f] # NoFile => file[f].highest \in Nat /\ file[f].created \in BOOLEAN
    BY <2>2 DEF Types, IsFile
  <2>4. \A s \in Servers : /\ srv[s].pc \in {"idle", "open", "lock", "close"}
                           /\ srv[s].f \in Files \cup {0}
    BY <2>2 DEF Types, CallType
  <2>5. /\ exp.pc \in Pcs /\ exp.i \in Nat \ {0} /\ exp.high \in Nat /\ exp.old \in Files \cup {0}
    BY <2>2 DEF RunType
  <2> QED
    BY <2>2, <2>3, <2>4, <2>5 DEF TypeOK, Types, Pcs
<1> QED
  BY <1>1, Invariance, PTL

\* The copy is complete and in order up to the number the program has come to.
THEOREM CopyAlwaysInStep == Spec => []CopyInStep
<1>1. IInv => CopyInStep
  <2>1. SUFFICES ASSUME IInv, Copying
                 PROVE  LET m == file[New]
                        IN  /\ m.highest >= exp.i - 1
                            /\ \A i \in 1 .. exp.i - 1 : i \in Stored(m) =>
                                  /\ i \in Stored(file[exp.old])
                                  /\ text[New][i] = text[exp.old][i]
    BY DEF CopyInStep
  <2>2. /\ RunType(exp) /\ file[New].highest \in Nat
        /\ RunInv(exp, file[exp.old], file[New], text[exp.old], text[New], gone)
    BY <2>1, RunKnown
  <2>3. /\ Counted(exp, file[exp.old].highest, file[New].highest)
        /\ Copied(file[exp.old], file[New], text[exp.old], text[New], exp.i - 1, gone)
    BY <2>2 DEF RunInv
  <2>4. file[New].highest >= exp.i - 1
    BY <2>2, <2>3 DEF Counted, RunType
  <2> QED
    BY <2>3, <2>4 DEF Copied
<1> QED
  BY <1>1, Invariance, PTL

\* add_trn by pref never joins two threads.
THEOREM ThreadsNeverMerged == Spec => []NeverMerged
<1>1. IInv => NeverMerged
  BY RunKnown DEF NeverMerged, RunInv, MergedNone
<1> QED
  BY <1>1, Invariance, PTL

\* If nobody deletes or retrieves meanwhile, the copy has the same threads, and
\* add_trn finds what a transaction was a reply to.
THEOREM UndisturbedIsExact == Spec => []UndisturbedCopy
<1>1. IInv => UndisturbedCopy
  <2>1. SUFFICES ASSUME IInv, Copying, ~exp.disturbed
                 PROVE  /\ SplitNone(file[exp.old], file[New], exp.i - 1)
                        /\ exp.pc = "add" => CanReply(file[New], exp.pref)
    BY DEF UndisturbedCopy, SplitNone
  <2>2. /\ RunType(exp) /\ file[New].highest \in Nat /\ file[exp.old].highest \in Nat
        /\ Linked(file[exp.old]) /\ Linked(file[New])
        /\ RunInv(exp, file[exp.old], file[New], text[exp.old], text[New], gone)
    BY <2>1, RunKnown
  <2>3. exp.pc = "add" => CanReply(file[New], exp.pref)
    BY <2>1, <2>2, RunCanReply DEF RunType
  <2> QED
    BY <2>1, <2>2, <2>3 DEF RunInv
<1> QED
  BY <1>1, Invariance, PTL

\* What is at "loc" and at "fut", and what is being moved, is a meeting whose links are
\* in order, wherever the program is killed.
THEOREM NamedAlwaysLinked == Spec => []NamedLinked
<1>1. IInv => NamedLinked
  <2>1. SUFFICES ASSUME IInv, NEW name \in DOMAIN dir, dir[name] # 0,
                        name = "bak" => exp.pc \in {"rename1", "rename2"} \/ dir["loc"] = 0
                 PROVE  MeetingLinked(file[dir[name]]) /\ ChainsLinked(file[dir[name]])
    BY DEF NamedLinked
  <2>2. /\ name \in {"loc", "bak", "fut"} /\ dir[name] \in Files
    BY <2>1 DEF IInv, Types
  <2>3. ~LeftOver(dir[name])
    <3>1. CASE name = "bak"
      BY <2>1, <3>1 DEF LeftOver, Copying
    <3>2. CASE name # "bak"
      BY <2>1, <2>2, <3>2 DEF LeftOver, IInv, DirInv
    <3> QED
      BY <3>1, <3>2
  <2>4. dir[name] \in Kept
    BY <2>2, <2>3 DEF Kept, Named
  <2> QED
    BY <2>1, <2>4 DEF IInv, KeptInv, Linked
<1> QED
  BY <1>1, Invariance, PTL

\* "We have the old meeting locked": from the check under the lock on, nothing can be
\* added to it that is not in the new one, unless its acl was changed since the check
\* before; then open_mtg has dropped the lock.
THEOREM MoveAlwaysWhole == Spec => []MoveIsWhole
<1>1. IInv /\ HeldInv => MoveIsWhole
  <2>1. SUFFICES ASSUME IInv, HeldInv, exp.pc \in {"rename1", "rename2", "remove"}, ~AclNewer
                 PROVE  /\ lock[exp.old] = Expunger
                        /\ Trns(file[exp.old]) \subseteq Trns(file[New])
    BY DEF MoveIsWhole
  <2>2. Copying /\ exp.pc \in Moving
    BY <2>1 DEF Copying, Moving
  <2>3. lock[exp.old] = Expunger /\ file[exp.old].highest = exp.high
    BY <2>1, <2>2 DEF HeldInv
  <2>4. /\ file[New].highest \in Nat /\ file[exp.old].highest \in Nat /\ RunType(exp)
        /\ Counted(exp, file[exp.old].highest, file[New].highest)
    BY <2>1, <2>2, RunKnown
  <2>5. file[exp.old].highest <= file[New].highest
    BY <2>2, <2>3, <2>4 DEF Counted, RunType
  <2>6. \A i \in Trns(file[exp.old]) : i \in Trns(file[New])
    BY <2>4, <2>5, SetsOf
  <2> QED
    BY <2>3, <2>6
<1> QED
  BY <1>1, Invariance, PTL

\* An add that was answered before the program looked for the last time is not lost,
\* whether or not the program still has its lock while it moves the meetings.
THEOREM AckedAlwaysThere == Spec => []AckedBeforeMove
  BY Invariance, PTL DEF IInv

\* A program killed between its renames leaves the whole old meeting at "fut".
THEOREM BothAlwaysThere == Spec => []BothThere
  BY Invariance, PTL DEF IInv

=============================================================================

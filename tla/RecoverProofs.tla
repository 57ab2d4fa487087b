--------------------------- MODULE RecoverProofs ---------------------------
(***************************************************************************)
(* Proofs about Recover, for any history of the old meeting: whatever the  *)
(* program and users do, the new meeting is one the server can work on     *)
(* (NewLinked), no text is lost if it ends well (TextsKept), and the whole *)
(* meeting is back if nobody was at it meanwhile (RecoveredWhole).         *)
(*                                                                         *)
(* The inductive invariant IInv follows the program: what the old files    *)
(* are like (Recorded), how far the walk has got (WalkInv), what trn_pos   *)
(* holds when it is over (FoundInv), and what was made of it (FromInv,     *)
(* OrderInv, WholeInv).                                                    *)
(***************************************************************************)
EXTENDS Recover, MeetingLemmas, FiniteSetTheorems, SequenceTheorems

OrigPref(m, i) == m.trns[m.blk[i].trn_addr].orig_pref

\* What is behind the last stored transaction: adds that were lost.
Behind(m, k) == k \in 1 .. Len(m.trns) /\ \A i \in Stored(m) : m.blk[i].trn_addr < k

\* What any history of adds, lost adds, holes and deletes makes of the files: numbers
\* and addresses go up together, headers lead back, a lost add behind the last one
\* has the next number and leads to the last one, and the header of the first of a
\* chain, and of no other, leads nowhere.
Recorded(m) ==
    /\ Linked(m) /\ Logged(m)
    /\ m.highest <= MaxTrn
    /\ \A k \in 1 .. Len(m.trns) : m.trns[k].current \in 1 .. MaxTrn /\ m.trns[k].prev_trn < k
    /\ \A i, j \in Stored(m) : i < j => m.blk[i].trn_addr < m.blk[j].trn_addr
    /\ \A k \in 1 .. Len(m.trns) : Behind(m, k) =>
          m.trns[k].current = m.highest + 1 /\ m.trns[k].prev_trn = m.highest_trn_addr
    /\ \A i, j \in Stored(m) :
          OrigPref(m, i) = 0 /\ j < i => m.blk[j].trn_chain # m.blk[i].trn_chain

\* The number the walk has come to.
Reached == IF rec.current_pos = 0 THEN 0 ELSE old.trns[rec.current_pos].current

\* trn_pos has the address of each stored transaction, and perhaps that of a lost add.
FoundAt(i) ==
    IF i \in Stored(old) THEN rec.trn_pos[i] = Addr(i)
    ELSE \/ rec.trn_pos[i] = 0
         \/ i = old.highest + 1 /\ Behind(old, rec.trn_pos[i])

WalkInv ==
    rec.pc = "walk" =>
       /\ Stored(old) \subseteq 1 .. rec.num_trns
       /\ Reached \in 0 .. rec.num_trns
       /\ rec.current_pos # 0 =>
             \/ Reached \in Stored(old) /\ rec.current_pos = Addr(Reached)
             \/ Reached = old.highest + 1 /\ Behind(old, rec.current_pos)
       /\ \A i \in 1 .. rec.num_trns : IF i > Reached THEN FoundAt(i) ELSE rec.trn_pos[i] = 0

FoundInv ==
    rec.pc \in {"save", "done"} =>
       /\ Stored(old) \subseteq 1 .. rec.num_trns
       /\ \A i \in 1 .. rec.num_trns : FoundAt(i)
       /\ rec.pc = "done" => rec.num_trns = 0 \/ rec.i > rec.num_trns

\* Nothing has been made anew before the walk is over.
StartInv ==
    /\ rec.pc = "not started" => new = EmptyMeeting /\ from = << >>
    /\ rec.pc \in {"not started", "scan"} => rec.num_trns = 0
    /\ rec.pc \in {"not started", "scan", "walk"} => rec.i = 0
    /\ rec.pc = "save" => rec.i # 0
    /\ rec.i = 0 \/ rec.i <= rec.num_trns + 1

\* Only what is below i has been made anew; every text of it is there, at its number
\* or above.
FromInv ==
    /\ new.highest >= rec.i - 1
    /\ \A n \in Trns(new) : from[n] # 0 =>
          n \in Stored(new) /\ \E j \in 1 .. rec.i - 1 : from[n] = rec.trn_pos[j]
    /\ \A j \in 1 .. rec.i - 1 : rec.trn_pos[j] # 0 =>
          \E n \in Trns(new) : n >= j /\ from[n] = rec.trn_pos[j]

OrderInv ==
    \A k, n \in Trns(new) : k < n /\ from[k] # 0 /\ from[n] # 0 => from[k] < from[n]

\* Nobody else has been at the new meeting.
Quiet == users.posts = 0 /\ ~users.deleted
UsersType == users \in [posts : 0 .. MaxPosts, deleted : BOOLEAN]

\* Then it is the part of the old one below i.
WholeInv ==
    Quiet =>
       /\ new.highest = IF rec.i = 0 THEN 0 ELSE rec.i - 1
       /\ Live(new) = Stored(new)
       /\ \A n \in Trns(new) : /\ from[n] = rec.trn_pos[n]
                               /\ n \in Stored(new) <=> rec.trn_pos[n] # 0
       /\ \A i, j \in Stored(old) \cap Trns(new) :
             old.blk[i].trn_chain = old.blk[j].trn_chain
               <=> new.blk[i].trn_chain = new.blk[j].trn_chain

IInv == /\ TypeOK /\ Recorded(old) /\ Linked(new) /\ Logged(new)
        /\ StartInv /\ WalkInv /\ FoundInv /\ FromInv /\ OrderInv /\ WholeInv

-----------------------------------------------------------------------------
(* The files of the old meeting.                                           *)

\* Append to a function that is a sequence.
LEMMA AppendFrom ==
  ASSUME NEW n \in Nat, NEW S, NEW f \in [1 .. n -> S], NEW x \in S
  PROVE  /\ Append(f, x) \in [1 .. n + 1 -> S]
         /\ \A k \in 1 .. n : Append(f, x)[k] = f[k]
         /\ Append(f, x)[n + 1] = x
<1>1. f \in Seq(S) /\ Len(f) = n
  OBVIOUS
<1>2. /\ Append(f, x) \in Seq(S) /\ Len(Append(f, x)) = n + 1
      /\ \A k \in 1 .. n : Append(f, x)[k] = f[k]
      /\ Append(f, x)[n + 1] = x
  BY <1>1, AppendProperties
<1> QED
  BY <1>2, LenProperties

\* The fields of a meeting of that kind.
LEMMA RecordedFields ==
  ASSUME NEW m, Recorded(m)
  PROVE  /\ MtgType(m) /\ Linked(m) /\ Logged(m)
         /\ m.highest \in Nat /\ m.highest_chain \in Nat /\ m.highest_trn_addr \in Nat
         /\ m.trns \in Seq(TrnHdr) /\ Len(m.trns) \in Nat
         /\ \A k \in 1 .. Len(m.trns) : m.trns[k] \in TrnHdr
         /\ \A i \in Stored(m) : /\ i \in Trns(m) /\ i \in Nat /\ i > 0 /\ i <= m.highest
                                 /\ m.blk[i].trn_addr \in 1 .. Len(m.trns)
                                 /\ m.blk[i].trn_addr \in Nat
                                 /\ m.trns[m.blk[i].trn_addr].whole
                                 /\ m.trns[m.blk[i].trn_addr].current = i
<1>1. MtgType(m) /\ Linked(m) /\ Logged(m)
  BY DEF Recorded, Linked
<1>2. /\ m.highest \in Nat /\ m.highest_chain \in Nat /\ m.highest_trn_addr \in Nat
      /\ m.trns \in Seq(TrnHdr)
  BY <1>1, MtgFields
<1>3. \A i \in Stored(m) : i \in Trns(m) /\ i \in Nat /\ i > 0 /\ i <= m.highest
  BY <1>2 DEF Stored, Trns
<1>4. \A i \in Stored(m) : /\ m.blk[i].trn_addr \in 1 .. Len(m.trns)
                           /\ m.trns[m.blk[i].trn_addr].whole
                           /\ m.trns[m.blk[i].trn_addr].current = i
  <2>1. \A i \in Stored(m) : i # 0
    BY <1>3
  <2> QED
    BY <1>1, <2>1, Zenon DEF Logged, TrnLog
<1>5. /\ Len(m.trns) \in Nat /\ \A k \in 1 .. Len(m.trns) : m.trns[k] \in TrnHdr
  BY <1>2
<1>6. \A i \in Stored(m) : m.blk[i].trn_addr \in Nat
  BY <1>4, <1>5
<1> QED
  BY <1>1, <1>2, <1>3, <1>4, <1>5, <1>6

\* A transaction added to such a meeting.
LEMMA AddRecorded ==
  ASSUME NEW m, Recorded(m), NEW reply \in Nat, CanReply(m, reply), NEW flags \in TrnFlags,
         m.highest < MaxTrn
  PROVE  Recorded(AddTrn(m, reply, flags))
<1> DEFINE r == AddTrn(m, reply, flags)
           n == m.highest + 1
           a == Len(m.trns) + 1
           pref == AddPref(m, reply)
           ca == AddChain(m, reply)
<1>1. /\ MtgType(m) /\ Linked(m) /\ m.highest \in Nat /\ m.highest_trn_addr \in Nat
      /\ Len(m.trns) \in Nat /\ m.trns \in Seq(TrnHdr) /\ m.highest_chain \in Nat
  BY RecordedFields
<1>2. Linked(r) /\ Logged(r) /\ Keeps(m, r)
  BY AddLinked, AddLogged, AddKeeps DEF Recorded
<1>3. /\ m.last <= m.highest /\ pref \in 0 .. m.highest
  BY <1>1, AddSets DEF Linked
<1>4. OneMore(Stored(m), n, Stored(r))
  BY AddChainNumbers, <1>1 DEF Linked
<1>5. /\ r.blk[n].trn_addr = a /\ r.blk[n].trn_chain = ca
  BY <1>1, <1>3, AddNewBlk
<1>6. /\ r.highest_trn_addr = a /\ r.trns = Append(m.trns, AddHdr(m, reply)) /\ r.highest = n
  BY <1>1 DEF AddTrn, MtgType
<1>7. /\ Len(r.trns) = a /\ r.trns[a] = AddHdr(m, reply)
      /\ \A k \in 1 .. Len(m.trns) : r.trns[k] = m.trns[k]
  BY <1>1, <1>6, AppendKeeps
<1>8. /\ r.trns[a].current = n /\ r.trns[a].orig_pref = pref
      /\ r.trns[a].prev_trn = m.highest_trn_addr
  BY <1>7 DEF AddHdr
<1>9. pref = 0 => ca = m.highest_chain + 1
  BY <1>1, AddChainFacts DEF Linked, AddChain
<1>10. \A i \in Stored(m) : m.blk[i].trn_chain \in 1 .. m.highest_chain
  BY <1>1 DEF Linked, ChainNumbers
<1>11. m.highest_trn_addr <= Len(m.trns)
  <2>1. PICK l \in Stored(m) \cup {0} :
             m.highest_trn_addr = IF l = 0 THEN 0 ELSE m.blk[l].trn_addr
    BY DEF Recorded, Logged, TrnLog
  <2> QED
    BY <2>1, <1>1, RecordedFields
<1> HIDE DEF r, n, a, pref, ca
<1>12. \A i \in Stored(m) : /\ i \in Nat /\ i < n /\ i \in Trns(m)
                            /\ m.blk[i].trn_addr \in 1 .. Len(m.trns) /\ m.blk[i].trn_addr < a
                            /\ r.blk[i].trn_addr = m.blk[i].trn_addr
                            /\ r.blk[i].trn_chain = m.blk[i].trn_chain
  BY <1>1, <1>2, RecordedFields DEF Keeps, n, a
<1>13. \A i \in Stored(r) : i = n \/ i \in Stored(m)
  BY <1>4 DEF OneMore
<1>14. n \in Nat /\ n \in 1 .. MaxTrn /\ a \in Nat /\ a = Len(m.trns) + 1 /\ n \in Stored(r)
  BY <1>1, <1>4, BoundsAssumption DEF n, a, OneMore
<1>15. \A k \in 1 .. Len(r.trns) : r.trns[k].current \in 1 .. MaxTrn /\ r.trns[k].prev_trn < k
  <2> SUFFICES ASSUME NEW k \in 1 .. a
               PROVE  r.trns[k].current \in 1 .. MaxTrn /\ r.trns[k].prev_trn < k
    BY <1>7
  <2>1. CASE k = a
    BY <2>1, <1>1, <1>8, <1>11, <1>14
  <2>2. CASE k \in 1 .. Len(m.trns)
    BY <2>2, <1>7 DEF Recorded
  <2> QED
    BY <2>1, <2>2, <1>1, <1>14
<1>16. \A i, j \in Stored(r) : i < j => r.blk[i].trn_addr < r.blk[j].trn_addr
  BY <1>5, <1>12, <1>13, <1>14 DEF Recorded
<1>17. \A k \in 1 .. Len(r.trns) : ~Behind(r, k)
  BY <1>5, <1>7, <1>14 DEF Behind
<1>18. ASSUME NEW i \in Stored(r), NEW j \in Stored(r), OrigPref(r, i) = 0, j < i
       PROVE  r.blk[j].trn_chain # r.blk[i].trn_chain
  <2>1. j \in Stored(m)
    <3>1. CASE i = n
      BY <3>1, <1>13, <1>14, <1>18
    <3>2. CASE i \in Stored(m)
      <4>1. i < n /\ i \in Nat
        BY <3>2, <1>12
      <4> QED
        BY <4>1, <1>13, <1>14, <1>18
    <3> QED
      BY <3>1, <3>2, <1>13
  <2>2. CASE i = n
    <3>1. pref = 0
      BY <1>5, <1>8, <1>18, <2>2 DEF OrigPref
    <3> QED
      BY <3>1, <2>1, <2>2, <1>1, <1>5, <1>9, <1>10, <1>12
  <2>3. CASE i \in Stored(m)
    <3>1. OrigPref(m, i) = OrigPref(r, i)
      BY <2>3, <1>7, <1>12 DEF OrigPref
    <3> QED
      BY <3>1, <2>1, <2>3, <1>12, <1>18 DEF Recorded
  <2> QED
    BY <2>2, <2>3, <1>13
<1>19. r.highest <= MaxTrn
  BY <1>6, <1>14
<1> QED
  BY <1>2, <1>15, <1>16, <1>17, <1>18, <1>19 DEF Recorded, r

\* An operation that adds no transaction and no number.
LEMMA SameRecorded ==
  ASSUME NEW m, Recorded(m), NEW r, Linked(r), NoneAdded(m, r), r.highest = m.highest,
         r.trns = m.trns
  PROVE  Recorded(r)
<1>1. Logged(r)
  BY NoneAddedLogged DEF Recorded
<1>2. /\ Stored(r) = Stored(m) /\ r.highest_trn_addr = m.highest_trn_addr
      /\ \A i \in Stored(m) : /\ r.blk[i].trn_addr = m.blk[i].trn_addr
                              /\ r.blk[i].trn_chain = m.blk[i].trn_chain
  BY RecordedFields DEF NoneAdded, Keeps
<1>3. \A k \in 1 .. Len(m.trns) : Behind(r, k) <=> Behind(m, k)
  BY <1>2 DEF Behind
<1>4. \A i \in Stored(m) : OrigPref(r, i) = OrigPref(m, i)
  BY <1>2 DEF OrigPref
<1> QED
  BY <1>1, <1>2, <1>3, <1>4 DEF Recorded

\* An add that is lost.
LEMMA AbortRecorded ==
  ASSUME NEW m, Recorded(m), NEW reply \in Nat, CanReply(m, reply), NEW whole \in BOOLEAN,
         m.highest < MaxTrn
  PROVE  Recorded(AbortAdd(m, reply, whole))
<1> DEFINE r == AbortAdd(m, reply, whole)
           h == [AddHdr(m, reply) EXCEPT !.whole = whole]
           a == Len(m.trns) + 1
<1>1. /\ MtgType(m) /\ Linked(m) /\ m.highest \in Nat /\ m.highest_trn_addr \in Nat
      /\ Len(m.trns) \in Nat /\ m.trns \in Seq(TrnHdr)
  BY RecordedFields
<1>2. Linked(r) /\ NoneAdded(m, r)
  BY <1>1, AbortLinked, AbortKeeps
<1>3. Logged(r)
  BY <1>2, NoneAddedLogged DEF Recorded
<1>4. /\ r.trns = Append(m.trns, h) /\ r.highest = m.highest
  BY <1>1 DEF AbortAdd, MtgType
<1>5. h.current = m.highest + 1 /\ h.prev_trn = m.highest_trn_addr
  BY DEF AddHdr
<1> HIDE DEF r, h
<1>6. /\ Len(r.trns) = a /\ r.trns[a] = h /\ a \in Nat
      /\ \A k \in 1 .. Len(m.trns) : r.trns[k] = m.trns[k]
  BY <1>1, <1>4, AppendKeeps
<1>7. m.highest_trn_addr <= Len(m.trns)
  <2>1. PICK l \in Stored(m) \cup {0} :
             m.highest_trn_addr = IF l = 0 THEN 0 ELSE m.blk[l].trn_addr
    BY DEF Recorded, Logged, TrnLog
  <2> QED
    BY <2>1, <1>1, RecordedFields
<1>8. /\ Stored(r) = Stored(m) /\ r.highest_trn_addr = m.highest_trn_addr
      /\ \A i \in Stored(m) : /\ r.blk[i].trn_addr = m.blk[i].trn_addr
                              /\ r.blk[i].trn_chain = m.blk[i].trn_chain
                              /\ m.blk[i].trn_addr \in 1 .. Len(m.trns)
  BY <1>2, RecordedFields DEF NoneAdded, Keeps
<1>9. \A k \in 1 .. a : k = a \/ k \in 1 .. Len(m.trns)
  BY <1>1
<1>10. \A k \in 1 .. Len(m.trns) : Behind(r, k) => Behind(m, k)
  BY <1>8 DEF Behind
<1>11. \A k \in 1 .. Len(r.trns) : r.trns[k].current \in 1 .. MaxTrn /\ r.trns[k].prev_trn < k
  <2> SUFFICES ASSUME NEW k \in 1 .. a
               PROVE  r.trns[k].current \in 1 .. MaxTrn /\ r.trns[k].prev_trn < k
    BY <1>6
  <2>1. CASE k = a
    BY <2>1, <1>1, <1>5, <1>6, <1>7, BoundsAssumption
  <2>2. CASE k \in 1 .. Len(m.trns)
    BY <2>2, <1>6 DEF Recorded
  <2> QED
    BY <2>1, <2>2, <1>9
<1>12. \A k \in 1 .. Len(r.trns) : Behind(r, k) =>
          r.trns[k].current = r.highest + 1 /\ r.trns[k].prev_trn = r.highest_trn_addr
  BY <1>4, <1>5, <1>6, <1>8, <1>9, <1>10 DEF Recorded
<1>13. \A i \in Stored(m) : OrigPref(r, i) = OrigPref(m, i)
  BY <1>6, <1>8 DEF OrigPref
<1> QED
  BY <1>2, <1>3, <1>4, <1>8, <1>11, <1>12, <1>13 DEF Recorded, r

\* If the file has as many entries as there are transactions, there is nothing behind
\* the last of them.
LEMMA NothingBehind ==
  ASSUME NEW m, Recorded(m), Len(m.trns) = Cardinality(Stored(m)), NEW k
  PROVE  ~Behind(m, k)
<1> SUFFICES ASSUME Behind(m, k) PROVE FALSE
  OBVIOUS
<1> DEFINE L == Len(m.trns)
           f == [i \in Stored(m) |-> m.blk[i].trn_addr]
<1>1. /\ m.highest \in Nat /\ L \in Nat /\ k \in 1 .. L
      /\ \A i \in Stored(m) : /\ m.blk[i].trn_addr \in 1 .. L
                              /\ m.trns[m.blk[i].trn_addr].current = i
  BY RecordedFields DEF Behind
<1>2. f \in [Stored(m) -> 1 .. L - 1]
  BY <1>1 DEF Behind
<1>3. IsFiniteSet(1 .. L - 1) /\ Cardinality(1 .. L - 1) = L - 1
  <2>1. ASSUME NEW b \in Nat PROVE IsFiniteSet(1 .. b) /\ Cardinality(1 .. b) = b
    <3>1. b \in Int /\ 1 \in Int
      OBVIOUS
    <3>2. IsFiniteSet(1 .. b) /\ Cardinality(1 .. b) = IF 1 > b THEN 0 ELSE b - 1 + 1
      BY <3>1, FS_Interval
    <3> QED
      BY <3>2
  <2>2. L - 1 \in Nat
    BY <1>1
  <2> QED
    BY <2>1, <2>2
<1>4. IsFiniteSet(Stored(m))
  <2>1. IsFiniteSet(1 .. m.highest) /\ Stored(m) \subseteq 1 .. m.highest
    <3>1. Stored(m) \subseteq 1 .. m.highest
      BY DEF Stored, Trns
    <3>2. m.highest \in Int
      BY <1>1
    <3> QED
      BY <3>1, <3>2, FS_Interval
  <2> QED
    BY <2>1, FS_Subset
<1>5. L - 1 < Cardinality(Stored(m))
  BY <1>1
<1> HIDE DEF f
<1>6. PICK i, j \in Stored(m) : i # j /\ f[i] = f[j]
  BY <1>2, <1>3, <1>4, <1>5, FS_PigeonHole
<1> QED
  BY <1>1, <1>6 DEF f

\* A number left out.
LEMMA HoleRecorded ==
  ASSUME NEW m, Recorded(m), NEW pref \in Int, NEW chain \in Int, NEW flags \in TrnFlags,
         m.highest < MaxTrn, Len(m.trns) = Cardinality(Stored(m))
  PROVE  Recorded(ExpungeTrn(m, pref, chain, flags))
<1> DEFINE r == ExpungeTrn(m, pref, chain, flags)
<1>1. /\ MtgType(m) /\ Linked(m) /\ m.highest \in Nat /\ m.trns \in Seq(TrnHdr)
  BY RecordedFields
<1>2. Linked(r) /\ NoneAdded(m, r) /\ r.highest = m.highest + 1
  BY <1>1, ExpungeLinked, ExpungeKeeps
<1>3. r.trns = m.trns
  BY <1>1 DEF ExpungeTrn, MtgType
<1> HIDE DEF r
<1>4. Logged(r)
  BY <1>2, NoneAddedLogged DEF Recorded
<1>5. /\ Stored(r) = Stored(m) /\ r.highest_trn_addr = m.highest_trn_addr
      /\ \A i \in Stored(m) : /\ r.blk[i].trn_addr = m.blk[i].trn_addr
                              /\ r.blk[i].trn_chain = m.blk[i].trn_chain
  BY <1>2, RecordedFields DEF NoneAdded, Keeps
<1>6. \A k \in 1 .. Len(r.trns) : ~Behind(r, k)
  BY <1>3, <1>5, NothingBehind DEF Behind
<1>7. \A i \in Stored(m) : OrigPref(r, i) = OrigPref(m, i)
  BY <1>3, <1>5 DEF OrigPref
<1>8. r.highest <= MaxTrn
  BY <1>1, <1>2, BoundsAssumption
<1> QED
  BY <1>2, <1>3, <1>4, <1>5, <1>6, <1>7, <1>8 DEF Recorded, r

\* A transaction deleted.
LEMMA DeleteRecorded ==
  ASSUME NEW m, Recorded(m), NEW t, CanDelete(m, t)
  PROVE  Recorded(DeleteTrn(m, t))
<1>1. Linked(m) /\ MtgType(m) /\ t \in Trns(m)
  BY RecordedFields DEF CanDelete
<1> QED
  BY <1>1, DeleteLinked, DeleteKeeps, DeleteFields, SameRecorded

\* A new meeting.
LEMMA EmptyRecorded == Recorded(EmptyMeeting)
<1> DEFINE m == EmptyMeeting
<1>1. Linked(m) /\ Stored(m) = {} /\ m.highest_trn_addr = 0 /\ m.highest = 0 /\ m.trns = << >>
  BY EmptyLinked DEF EmptyMeeting
<1> HIDE DEF m
<1>2. Logged(m)
  BY <1>1 DEF Logged, TrnLog, ChainsRecorded, IsLast
<1> QED
  BY <1>1, <1>2, BoundsAssumption DEF Recorded, m

-----------------------------------------------------------------------------
(* Before the walk.                                                        *)

\* The fields of the program's state, and of from.
LEMMA Fields ==
  ASSUME IInv
  PROVE  /\ MtgType(old) /\ Len(old.trns) \in Nat /\ old.trns \in Seq(TrnHdr)
         /\ MtgType(new) /\ new.highest \in Nat /\ Trns(new) = 1 .. new.highest
         /\ rec.current_pos \in 0 .. Len(old.trns) /\ rec.num_trns \in 0 .. MaxTrn
         /\ rec.num_trns \in Nat
         /\ rec.trn_pos \in [1 .. rec.num_trns -> 0 .. Len(old.trns)]
         /\ rec.i \in 0 .. MaxTrn + 1 /\ rec.i \in Nat
         /\ from \in [Trns(new) -> 0 .. Len(old.trns)]
         /\ \A k \in 1 .. Len(old.trns) : old.trns[k] \in TrnHdr
         /\ \A n \in Trns(new) : from[n] \in Nat
         /\ \A j \in 1 .. rec.num_trns : rec.trn_pos[j] \in Nat
<1>1. MtgType(old) /\ Len(old.trns) \in Nat /\ old.trns \in Seq(TrnHdr)
  BY RecordedFields DEF IInv
<1>2. MtgType(new) /\ new.highest \in Nat /\ Trns(new) = 1 .. new.highest
  BY MtgFields DEF Trns, IInv, TypeOK
<1>3. /\ rec.current_pos \in 0 .. Len(old.trns) /\ rec.num_trns \in 0 .. MaxTrn
      /\ rec.trn_pos \in [1 .. rec.num_trns -> 0 .. Len(old.trns)]
      /\ rec.i \in 0 .. MaxTrn + 1
  BY DEF IInv, TypeOK
<1>4. rec.num_trns \in Nat /\ rec.i \in Nat
  BY <1>3, BoundsAssumption
<1>5. from \in [Trns(new) -> 0 .. Len(old.trns)]
  BY DEF IInv, TypeOK
<1>6. \A k \in 1 .. Len(old.trns) : old.trns[k] \in TrnHdr
  BY <1>1
<1>7. \A n \in Trns(new) : from[n] \in Nat
  BY <1>1, <1>5
<1>8. \A j \in 1 .. rec.num_trns : rec.trn_pos[j] \in Nat
  BY <1>1, <1>3
<1> QED
  BY <1>1, <1>2, <1>3, <1>4, <1>5, <1>6, <1>7, <1>8

\* The program goes to pc.
LEMMA PcType ==
  ASSUME TypeOK, NEW pc \in {"not started", "scan", "walk", "save", "done", "failed"},
         rec' = [rec EXCEPT !.pc = pc], old' = old
  PROVE  /\ rec' \in [pc : {"not started", "scan", "walk", "save", "done", "failed"},
                      current_pos : 0 .. Len(old'.trns), num_trns : 0 .. MaxTrn,
                      trn_pos : [1 .. rec'.num_trns -> 0 .. Len(old'.trns)], i : 0 .. MaxTrn + 1]
         /\ rec'.pc = pc /\ rec'.current_pos = rec.current_pos /\ rec'.num_trns = rec.num_trns
         /\ rec'.trn_pos = rec.trn_pos /\ rec'.i = rec.i
  BY DEF TypeOK

\* A new meeting has no numbers.
LEMMA EmptyTrns == EmptyMeeting.highest = 0 /\ Trns(EmptyMeeting) = {}
<1>1. EmptyMeeting.highest = 0
  BY DEF EmptyMeeting
<1> QED
  BY <1>1 DEF Trns

\* Nothing that is known of the program changes while the old meeting lives.
LEMMA HistoryStep ==
  ASSUME IInv, Lives, Recorded(old'), Len(old'.trns) >= Len(old.trns)
  PROVE  IInv'
<1>1. /\ rec.pc = "not started" /\ new = EmptyMeeting /\ from = << >>
      /\ rec.num_trns = 0 /\ rec.i = 0
      /\ rec' = rec /\ new' = new /\ from' = from /\ users' = users
  BY DEF Lives, IInv, StartInv
<1>2. Trns(new) = {}
  BY <1>1, EmptyTrns
<1>3. Len(old.trns) \in Nat /\ Len(old'.trns) \in Nat /\ MtgType(old')
  BY Fields, RecordedFields
<1>4. TypeOK'
  <2>1. 0 .. Len(old.trns) \subseteq 0 .. Len(old'.trns)
    BY <1>3
  <2> QED
    BY <1>1, <1>2, <1>3, <2>1 DEF IInv, TypeOK, Trns
<1>5. StartInv' /\ WalkInv' /\ FoundInv' /\ FromInv' /\ OrderInv' /\ WholeInv'
  BY <1>1, <1>2 DEF IInv, StartInv, WalkInv, FoundInv, FromInv, OrderInv, WholeInv, Trns, Stored,
     Live, EmptyMeeting
<1> QED
  BY <1>1, <1>4, <1>5 DEF IInv

\* The program ends without having made the whole meeting, perhaps in an add that
\* fails.
LEMMA Quits ==
  ASSUME IInv, rec' = [rec EXCEPT !.pc = "failed"], UNCHANGED <<old, from, users>>,
         Linked(new'), NoneAdded(new, new'), new'.highest = new.highest,
         Live(new') = Live(new)
  PROVE  IInv'
<1>1. /\ rec'.pc = "failed" /\ rec'.num_trns = rec.num_trns
      /\ rec'.trn_pos = rec.trn_pos /\ rec'.i = rec.i
  BY PcType DEF IInv
<1>2. /\ Trns(new') = Trns(new) /\ Stored(new') = Stored(new)
      /\ \A n \in Trns(new) : new'.blk[n].trn_chain = new.blk[n].trn_chain
  BY DEF Trns, NoneAdded, Keeps
<1>3. TypeOK'
  BY <1>2, PcType DEF IInv, TypeOK, Linked
<1>4. Logged(new')
  BY NoneAddedLogged DEF IInv
<1>5. StartInv' /\ WalkInv' /\ FoundInv'
  BY <1>1 DEF IInv, StartInv, WalkInv, FoundInv
<1>6. FromInv' /\ OrderInv' /\ WholeInv'
  BY <1>1, <1>2 DEF IInv, FromInv, OrderInv, WholeInv, Quiet, Addr
<1> QED
  BY <1>3, <1>4, <1>5, <1>6 DEF IInv

\* A meeting that stays as it is.
LEMMA NoChange ==
  ASSUME NEW m, Linked(m) PROVE NoneAdded(m, m)
<1>1. m.highest \in Nat /\ Len(m.trns) \in Nat
  BY MtgFields DEF Linked
<1> QED
  BY <1>1 DEF NoneAdded, Keeps

\* create_mtg: nothing is there yet.
LEMMA CreateMtgStep == ASSUME IInv, CreateMtg PROVE IInv'
<1> DEFINE pc == IF old.trns = << >> THEN "done" ELSE "scan"
<1>1. /\ rec.pc = "not started" /\ new = EmptyMeeting /\ from = << >>
      /\ rec.num_trns = 0 /\ rec.i = 0
      /\ UNCHANGED <<old, new, from, users>> /\ rec' = [rec EXCEPT !.pc = pc]
  BY DEF CreateMtg, Exits, IInv, StartInv
<1>2. /\ rec'.pc = pc /\ rec'.num_trns = 0 /\ rec'.i = 0
  BY <1>1, PcType DEF IInv
<1>3. TypeOK'
  BY <1>1, PcType DEF IInv, TypeOK
<1>4. Trns(new) = {} /\ new.highest = 0
  BY <1>1, EmptyTrns
<1>7. pc \in {"done", "scan"} /\ (pc = "done" => old.trns = << >>)
  OBVIOUS
<1> HIDE DEF pc
<1>5. old.trns = << >> => Stored(old) = {}
  BY RecordedFields DEF IInv
<1>6. StartInv' /\ WalkInv' /\ FoundInv' /\ FromInv' /\ OrderInv' /\ WholeInv'
  <2>1. StartInv' /\ WalkInv'
    BY <1>1, <1>2, <1>7 DEF StartInv, WalkInv
  <2>2. FoundInv'
    <3>1. 1 .. rec'.num_trns = {}
      BY <1>2
    <3> QED
      BY <1>1, <1>2, <1>5, <1>7, <3>1 DEF FoundInv
  <2>3. FromInv' /\ OrderInv'
    <3>1. 1 .. rec'.i - 1 = {}
      BY <1>2
    <3>2. Trns(new') = {}
      BY <1>1, <1>4
    <3>3. new'.highest >= rec'.i - 1
      <4>1. new' = new
        BY <1>1
      <4>2. new'.highest = 0 /\ rec'.i = 0
        BY <4>1, <1>2, <1>4
      <4> QED
        BY <4>2
    <3> QED
      BY <3>1, <3>2, <3>3 DEF FromInv, OrderInv
  <2>4. WholeInv'
    <3>1. Live(new) = {} /\ Stored(new) = {}
      BY <1>1, EmptyLinked
    <3> QED
      BY <1>1, <1>2, <1>4, <3>1, EmptyTrns DEF WholeInv
  <2> QED
    BY <2>1, <2>2, <2>3, <2>4
<1> QED
  BY <1>1, <1>3, <1>6 DEF IInv

\* What read_last_trn finds is the last transaction or a lost add behind it.
LEMMA ReadLastTrnStep == ASSUME IInv, ReadLastTrn PROVE IInv'
<1>1. PICK k \in MayLookWhole :
          rec' = [rec EXCEPT !.pc = "walk", !.current_pos = k,
                             !.num_trns = old.trns[k].current,
                             !.trn_pos = [i \in 1 .. old.trns[k].current |-> 0]]
  BY DEF ReadLastTrn
<1> DEFINE t == old.trns[k].current
<1>2. /\ rec.pc = "scan" /\ rec.i = 0 /\ UNCHANGED <<old, new, from, users>>
  BY DEF ReadLastTrn, IInv, StartInv
<1>3. /\ Recorded(old) /\ k \in 1 .. Len(old.trns) /\ Len(old.trns) \in Nat
      /\ \A i \in Stored(old) : Addr(i) <= k
  BY Fields DEF IInv, MayLookWhole, Addresses
<1>4. t \in 1 .. MaxTrn
  BY <1>3 DEF Recorded
<1>5. /\ rec'.pc = "walk" /\ rec'.current_pos = k /\ rec'.num_trns = t /\ rec'.i = 0
      /\ rec'.trn_pos = [i \in 1 .. t |-> 0]
  BY <1>1, <1>2 DEF IInv, TypeOK
<1>6. \/ t \in Stored(old) /\ k = Addr(t)
      \/ t = old.highest + 1 /\ Behind(old, k)
  <2>1. CASE \E i \in Stored(old) : Addr(i) = k
    BY <2>1, <1>3, RecordedFields DEF Addr
  <2>2. CASE ~\E i \in Stored(old) : Addr(i) = k
    <3>1. \A i \in Stored(old) : Addr(i) < k
      BY <1>3, <2>2, RecordedFields DEF Addr
    <3>2. Behind(old, k)
      BY <1>3, <3>1 DEF Behind, Addr
    <3> QED
      BY <1>3, <3>2 DEF Recorded
  <2> QED
    BY <2>1, <2>2
<1>7. Stored(old) \subseteq 1 .. t
  <2> SUFFICES ASSUME NEW i \in Stored(old) PROVE i \in 1 .. t
    OBVIOUS
  <2>1. i \in Nat /\ i > 0 /\ i <= old.highest /\ Addr(i) \in Nat /\ Addr(i) <= k
    BY <1>3, RecordedFields DEF Addr
  <2>2. CASE t \in Stored(old) /\ k = Addr(t)
    <3>1. t \in Nat /\ Addr(t) \in Nat
      BY <1>3, <2>2, RecordedFields DEF Addr
    <3>2. ~(t < i)
      BY <2>1, <2>2, <3>1, <1>3 DEF Recorded, Addr
    <3> QED
      BY <2>1, <3>1, <3>2
  <2>3. CASE t = old.highest + 1
    BY <2>1, <2>3, <1>3, RecordedFields
  <2> QED
    BY <2>2, <2>3, <1>6
<1> HIDE DEF t
<1>8. TypeOK'
  <2>1. [i \in 1 .. t |-> 0] \in [1 .. t -> 0 .. Len(old.trns)]
    BY <1>3
  <2>2. k \in 0 .. Len(old.trns) /\ t \in 0 .. MaxTrn
    BY <1>3, <1>4
  <2> QED
    BY <1>1, <1>2, <1>5, <2>1, <2>2 DEF IInv, TypeOK, t
<1>9. Reached' = t
  BY <1>2, <1>3, <1>5 DEF Reached, t
<1>10. WalkInv'
  BY <1>2, <1>3, <1>4, <1>5, <1>6, <1>7, <1>9 DEF WalkInv, FoundAt, Addr
<1>11. StartInv' /\ FoundInv'
  BY <1>2, <1>5 DEF IInv, StartInv, FoundInv
<1>12. FromInv' /\ OrderInv'
  BY <1>2, <1>5 DEF IInv, FromInv, OrderInv
<1>13. WholeInv'
  <2>1. Quiet => Trns(new) = {}
    BY <1>2 DEF IInv, WholeInv, Trns
  <2> QED
    BY <1>2, <1>5, <2>1 DEF IInv, WholeInv, Quiet
<1> QED
  BY <1>2, <1>8, <1>10, <1>11, <1>12, <1>13 DEF IInv

-----------------------------------------------------------------------------
(* The walk.                                                               *)

\* The header at the address reached leads to the stored transaction before it.
LEMMA WalkBack ==
  ASSUME IInv, rec.pc = "walk", rec.current_pos # 0
  PROVE  LET th == old.trns[rec.current_pos] IN
         \E q \in Stored(old) \cup {0} :
            /\ q < Reached /\ th.prev_trn = IF q = 0 THEN 0 ELSE Addr(q)
            /\ \A i \in Stored(old) : i < Reached => i <= q
<1> DEFINE t == Reached
           p == rec.current_pos
           S == Stored(old)
<1>1. Recorded(old) /\ p \in 1 .. Len(old.trns) /\ p \in Nat /\ Len(old.trns) \in Nat
  BY Fields DEF IInv
<1>2. \A i \in S : i \in Nat /\ i > 0 /\ i <= old.highest /\ i # 0
  BY <1>1, RecordedFields
<1>3. \/ t \in S /\ p = Addr(t)
      \/ t = old.highest + 1 /\ Behind(old, p)
  BY DEF IInv, WalkInv
<1>4. old.highest \in Nat /\ t \in Nat /\ t > 0
  BY <1>1, <1>2, <1>3, RecordedFields
<1> HIDE DEF t
<1>5. CASE t \in S /\ p = Addr(t)
  <2>1. PICK q \in S \cup {0} : /\ IsPred(S, t, q)
                                /\ old.trns[p].prev_trn = IF q = 0 THEN 0 ELSE Addr(q)
    <3>1. t # 0
      BY <1>4
    <3> QED
      BY <1>1, <1>5, <3>1 DEF Recorded, Logged, TrnLog, Addr
  <2>2. q < t /\ \A i \in S : i < t => i <= q
    BY <2>1, <1>2, <1>4 DEF IsPred
  <2> QED
    BY <2>1, <2>2 DEF t
<1>6. CASE t = old.highest + 1 /\ Behind(old, p)
  <2>1. old.trns[p].prev_trn = old.highest_trn_addr
    BY <1>1, <1>6 DEF Recorded
  <2>2. PICK q \in S \cup {0} : /\ IsLast(S, q)
                                /\ old.highest_trn_addr = IF q = 0 THEN 0 ELSE Addr(q)
    BY <1>1 DEF Recorded, Logged, TrnLog, Addr
  <2>3. q < t /\ \A i \in S : i < t => i <= q
    BY <2>2, <1>2, <1>4, <1>6 DEF IsLast
  <2> QED
    BY <2>1, <2>2, <2>3 DEF t
<1> QED
  BY <1>3, <1>5, <1>6

\* One turn of the loop that fills trn_pos.
LEMMA TurnStep ==
  ASSUME IInv, rec.pc = "walk", rec.current_pos # 0, UNCHANGED <<old, new, from, users>>,
         rec' = [rec EXCEPT !.trn_pos[old.trns[rec.current_pos].current] = rec.current_pos,
                            !.current_pos = old.trns[rec.current_pos].prev_trn]
  PROVE  IInv'
<1> DEFINE p == rec.current_pos
           t == Reached
           S == Stored(old)
<1>1. /\ Recorded(old) /\ p \in 1 .. Len(old.trns) /\ p \in Nat /\ Len(old.trns) \in Nat
      /\ rec.num_trns \in Nat /\ t \in 0 .. rec.num_trns /\ rec.i = 0
      /\ rec.trn_pos \in [1 .. rec.num_trns -> 0 .. Len(old.trns)]
      /\ t = old.trns[p].current /\ t > 0
  BY Fields, WalkBack DEF IInv, WalkInv, StartInv, Reached, Recorded
<1>2. PICK q \in S \cup {0} :
            /\ q < t /\ old.trns[p].prev_trn = IF q = 0 THEN 0 ELSE Addr(q)
            /\ \A i \in S : i < t => i <= q
  BY WalkBack
<1>3. /\ rec'.pc = "walk" /\ rec'.current_pos = old.trns[p].prev_trn
      /\ rec'.num_trns = rec.num_trns /\ rec'.i = rec.i
      /\ rec'.trn_pos = [rec.trn_pos EXCEPT ![t] = p]
  BY <1>1 DEF IInv, TypeOK
<1>4. \A i \in S : /\ i \in Nat /\ i > 0 /\ i <= old.highest
                   /\ Addr(i) \in 1 .. Len(old.trns) /\ Addr(i) # 0
                   /\ old.trns[Addr(i)].current = i
  BY <1>1, RecordedFields DEF Addr
<1>5. /\ \/ t \in S /\ p = Addr(t)
         \/ t = old.highest + 1 /\ Behind(old, p)
      /\ S \subseteq 1 .. rec.num_trns
      /\ \A i \in 1 .. rec.num_trns : IF i > t THEN FoundAt(i) ELSE rec.trn_pos[i] = 0
  BY DEF IInv, WalkInv
<1> HIDE DEF t
<1>6. /\ old' = old /\ new' = new /\ from' = from /\ users' = users
  OBVIOUS
<1>7. TypeOK'
  <2>1. [rec.trn_pos EXCEPT ![t] = p] \in [1 .. rec.num_trns -> 0 .. Len(old.trns)]
    BY <1>1
  <2>2. old.trns[p].prev_trn \in 0 .. Len(old.trns)
    BY <1>1, <1>2, <1>4
  <2>3. rec' = [rec EXCEPT !.trn_pos = [rec.trn_pos EXCEPT ![t] = p],
                           !.current_pos = old.trns[p].prev_trn]
    BY <1>1 DEF IInv, TypeOK
  <2> QED
    BY <1>6, <2>1, <2>2, <2>3 DEF IInv, TypeOK
<1>8. Reached' = q
  BY <1>2, <1>3, <1>4, <1>6 DEF Reached
<1>9. /\ \A i \in 1 .. rec.num_trns : i # t => rec'.trn_pos[i] = rec.trn_pos[i]
      /\ rec'.trn_pos[t] = p
  BY <1>1, <1>3
<1>10. WalkInv'
  <2>1. q \in 0 .. rec.num_trns
    BY <1>1, <1>2, <1>5
  <2>2. q # 0 => q \in S /\ rec'.current_pos = Addr(q)
    BY <1>2, <1>3
  <2>3. rec'.current_pos # 0 => q # 0
    BY <1>2, <1>3
  <2>4. ASSUME NEW i \in 1 .. rec.num_trns
        PROVE  IF i > q THEN FoundAt(i)' ELSE rec'.trn_pos[i] = 0
    <3>1. CASE i = t
      <4>1. rec'.trn_pos[i] = p /\ i > q
        BY <3>1, <1>2, <1>9
      <4>2. CASE t \in S /\ p = Addr(t)
        BY <3>1, <4>1, <4>2, <1>6 DEF FoundAt, Addr
      <4>3. CASE t = old.highest + 1 /\ Behind(old, p)
        <5>1. t \notin S
          BY <4>3, <1>4, RecordedFields, <1>1
        <5> QED
          BY <3>1, <4>1, <4>3, <5>1, <1>6 DEF FoundAt
      <4> QED
        BY <4>2, <4>3, <1>5
    <3>2. CASE i > t
      <4>1. i # t /\ i > q
        BY <3>2, <1>1, <1>2, <2>1
      <4>2. FoundAt(i) /\ rec'.trn_pos[i] = rec.trn_pos[i]
        BY <3>2, <4>1, <1>5, <1>9, Zenon
      <4>3. FoundAt(i)'
        BY <4>2, <1>6, Zenon DEF FoundAt, Addr, Behind, Stored, Trns
      <4> QED
        BY <4>1, <4>3, Zenon
    <3>3. CASE i < t /\ i > q
      <4>1. i \notin S
        BY <3>3, <1>2, <2>1
      <4>2. rec'.trn_pos[i] = 0
        BY <3>3, <1>1, <1>5, <1>9
      <4> QED
        BY <3>3, <4>1, <4>2, <1>6 DEF FoundAt
    <3>4. CASE i < t /\ i <= q
      BY <3>4, <1>1, <1>5, <1>9, <2>1
    <3> QED
      BY <3>1, <3>2, <3>3, <3>4, <1>1, <2>1
  <2> QED
    BY <1>3, <1>5, <1>6, <1>8, <2>1, <2>2, <2>3, <2>4 DEF WalkInv, Addr
<1>11. StartInv' /\ FoundInv' /\ OrderInv'
  BY <1>1, <1>3, <1>6 DEF IInv, StartInv, FoundInv, OrderInv
<1>12. FromInv'
  BY <1>1, <1>3, <1>6 DEF IInv, FromInv
<1>13. WholeInv'
  <2>1. Quiet => Trns(new) = {}
    BY <1>1 DEF IInv, WholeInv, Trns
  <2> QED
    BY <1>1, <1>3, <1>6, <2>1 DEF IInv, WholeInv, Quiet
<1> QED
  BY <1>6, <1>7, <1>10, <1>11, <1>12, <1>13 DEF IInv

\* The loop is over.
LEMMA WalkedStep ==
  ASSUME IInv, rec.pc = "walk", rec.current_pos = 0, UNCHANGED <<old, new, from, users>>,
         rec' = [rec EXCEPT !.pc = "save", !.i = 1]
  PROVE  IInv'
<1>1. rec.i = 0 /\ rec.num_trns \in Nat /\ new.highest \in Nat
  BY Fields DEF IInv, StartInv
<1>2. /\ rec'.pc = "save" /\ rec'.i = 1 /\ rec'.num_trns = rec.num_trns
      /\ rec'.trn_pos = rec.trn_pos /\ rec'.current_pos = rec.current_pos
  BY DEF IInv, TypeOK
<1>3. old' = old /\ new' = new /\ from' = from /\ users' = users
  OBVIOUS
<1>4. TypeOK'
  <2>1. 1 \in 0 .. MaxTrn + 1
    BY BoundsAssumption
  <2> QED
    BY <1>3, <2>1 DEF IInv, TypeOK
<1>5. StartInv' /\ WalkInv'
  BY <1>1, <1>2 DEF StartInv, WalkInv
<1>6. FoundInv'
  BY <1>1, <1>2, <1>3 DEF IInv, WalkInv, FoundInv, Reached, FoundAt, Addr
<1>7. FromInv' /\ OrderInv'
  <2>1. 1 .. rec'.i - 1 = {} /\ \A n \in Trns(new) : from[n] = 0
    BY <1>1, <1>2 DEF IInv, FromInv
  <2>2. new.highest >= rec'.i - 1
    BY <1>1, <1>2
  <2> QED
    BY <2>1, <2>2, <1>3 DEF FromInv, OrderInv
<1>8. WholeInv'
  BY <1>1, <1>2, <1>3 DEF IInv, WholeInv, Quiet, Addr
<1> QED
  BY <1>3, <1>4, <1>5, <1>6, <1>7, <1>8 DEF IInv

\* A step of the loop that fills trn_pos.
LEMMA WalkStep == ASSUME IInv, Walk PROVE IInv'
<1>1. CASE rec.current_pos = 0
  BY <1>1, WalkedStep DEF Walk
<1>2. CASE rec.current_pos # 0 /\ old.trns[rec.current_pos].whole
  BY <1>2, TurnStep DEF Walk
<1>3. CASE rec.current_pos # 0 /\ ~old.trns[rec.current_pos].whole
  <2>1. Linked(new) /\ rec' = [rec EXCEPT !.pc = "failed"] /\ UNCHANGED <<old, new, from, users>>
    BY <1>3 DEF Walk, Exits, IInv
  <2> QED
    BY <2>1, Quits, NoChange
<1> QED
  BY <1>1, <1>2, <1>3

\* The program ends before the walk, or is killed.
LEMMA NothingFoundStep == ASSUME IInv, NothingFound \/ Killed PROVE IInv'
<1>1. Linked(new) /\ rec' = [rec EXCEPT !.pc = "failed"] /\ UNCHANGED <<old, new, from, users>>
  BY DEF NothingFound, Killed, Exits, IInv
<1> QED
  BY <1>1, Quits, NoChange

\* Every number is done.
LEMMA FinishStep == ASSUME IInv, Finish PROVE IInv'
<1>1. /\ rec.pc = "save" /\ rec.i > rec.num_trns /\ rec' = [rec EXCEPT !.pc = "done"]
      /\ old' = old /\ new' = new /\ from' = from /\ users' = users
  BY DEF Finish, Exits
<1>2. /\ rec'.pc = "done" /\ rec'.i = rec.i /\ rec'.num_trns = rec.num_trns
      /\ rec'.trn_pos = rec.trn_pos /\ rec'.current_pos = rec.current_pos
  BY <1>1, PcType DEF IInv
<1>3. TypeOK'
  BY <1>1, PcType DEF IInv, TypeOK
<1>4. StartInv' /\ WalkInv' /\ FoundInv'
  BY <1>1, <1>2 DEF IInv, StartInv, WalkInv, FoundInv, FoundAt, Addr
<1>5. FromInv' /\ OrderInv' /\ WholeInv'
  BY <1>1, <1>2 DEF IInv, FromInv, OrderInv, WholeInv, Quiet, Addr
<1> QED
  BY <1>1, <1>3, <1>4, <1>5 DEF IInv

-----------------------------------------------------------------------------
(* What users do, and a number saved.                                      *)

\* Positions found go up with the numbers.
LEMMA FoundOrder ==
  ASSUME IInv, NEW j \in 1 .. rec.num_trns, NEW l \in 1 .. rec.num_trns, j < l,
         FoundAt(j), FoundAt(l), rec.trn_pos[j] # 0, rec.trn_pos[l] # 0
  PROVE  rec.trn_pos[j] < rec.trn_pos[l]
<1>1. Recorded(old) /\ rec.num_trns \in Nat /\ j \in Nat /\ l \in Nat
  BY Fields DEF IInv
<1>2. \A i \in Stored(old) : i <= old.highest /\ i \in Nat /\ old.highest \in Nat
  BY <1>1, RecordedFields
<1>3. j \in Stored(old)
  <2>1. CASE l \in Stored(old)
    BY <2>1, <1>1, <1>2 DEF FoundAt
  <2>2. CASE l \notin Stored(old)
    BY <2>2, <1>1, <1>2 DEF FoundAt
  <2> QED
    BY <2>1, <2>2
<1>4. CASE l \in Stored(old)
  BY <1>1, <1>3, <1>4 DEF FoundAt, Addr, Recorded
<1>5. CASE l \notin Stored(old)
  BY <1>3, <1>5 DEF FoundAt, Behind, Addr
<1> QED
  BY <1>4, <1>5

\* One more entry of from.
LEMMA AppendedFrom ==
  ASSUME IInv, NEW x \in 0 .. Len(old.trns)
  PROVE  /\ Append(from, x) \in [1 .. new.highest + 1 -> 0 .. Len(old.trns)]
         /\ \A k \in 1 .. new.highest : Append(from, x)[k] = from[k]
         /\ Append(from, x)[new.highest + 1] = x
<1>1. from \in [1 .. new.highest -> 0 .. Len(old.trns)] /\ new.highest \in Nat
  BY Fields DEF Trns
<1> DEFINE S == 0 .. Len(old.trns)
<1> HIDE DEF S
<1>2. from \in [1 .. new.highest -> S] /\ x \in S
  BY <1>1 DEF S
<1>3. Append(from, x) \in [1 .. new.highest + 1 -> S]
  BY <1>1, <1>2, AppendFrom
<1>4. Append(from, x)[new.highest + 1] = x
  BY <1>1, <1>2, AppendFrom
<1>5. \A k \in 1 .. new.highest : Append(from, x)[k] = from[k]
  BY <1>1, <1>2, AppendFrom
<1> QED
  BY <1>3, <1>4, <1>5 DEF S

\* One more number in the new meeting, made from entry x or from none.
LEMMA FromGrows ==
  ASSUME IInv, NEW x \in 0 .. Len(old.trns), from' = Append(from, x),
         MtgType(new'), new'.highest = new.highest + 1, Keeps(new, new'), old' = old
  PROVE  LET n == new.highest + 1 IN
         /\ from' \in [Trns(new') -> 0 .. Len(old'.trns)]
         /\ from'[n] = x
         /\ n \in Trns(new') /\ n \notin Trns(new) /\ n \in Nat
         /\ \A k \in Trns(new') : k = n \/ (k \in Trns(new) /\ k < n)
         /\ \A k \in Trns(new) : k \in Trns(new') /\ k < n /\ from'[k] = from[k] /\ k \in Nat
         /\ \A k \in Trns(new) : k \in Stored(new') <=> k \in Stored(new)
<1> DEFINE n == new.highest + 1
<1>1. /\ from \in [1 .. new.highest -> 0 .. Len(old.trns)] /\ new.highest \in Nat
      /\ Trns(new) = 1 .. new.highest /\ Trns(new') = 1 .. n
  BY Fields DEF Trns
<1>2. /\ from' \in [1 .. n -> 0 .. Len(old.trns)]
      /\ \A k \in 1 .. new.highest : from'[k] = from[k]
      /\ from'[n] = x
  BY <1>1, AppendedFrom
<1>3. \A k \in Trns(new) : k \in Stored(new') <=> k \in Stored(new)
  BY DEF Keeps, Stored
<1> QED
  BY <1>1, <1>2, <1>3

\* A number that no entry of the old file is behind, or none.
UsersNumber == \/ from' = from /\ new'.highest = new.highest
               \/ from' = Append(from, 0) /\ new'.highest = new.highest + 1

\* 0 stands for no entry.
LEMMA NoEntry == ASSUME IInv PROVE 0 \in 0 .. Len(old.trns)
<1>1. Len(old.trns) \in Nat
  BY Fields
<1> QED
  BY <1>1

\* The new meeting has at least the numbers below i.
LEMMA HighestGrows ==
  ASSUME IInv, new'.highest \in Nat, UsersNumber
  PROVE  new'.highest >= rec.i - 1
<1>1. new.highest \in Nat /\ rec.i \in Nat /\ new.highest >= rec.i - 1
  BY Fields DEF IInv, FromInv
<1> QED
  BY <1>1 DEF UsersNumber

\* A user's transaction changes nothing of what is known of the program's own.
LEMMA PostedStep ==
  ASSUME IInv, old' = old, rec' = rec, rec.pc # "not started", UsersType', ~Quiet',
         Linked(new'), Logged(new'), Keeps(new, new'),
         UsersNumber
  PROVE  IInv'
<1>1. /\ old' = old /\ rec' = rec /\ MtgType(new') /\ new.highest \in Nat /\ new'.highest \in Nat
      /\ rec.i \in Nat /\ 0 \in 0 .. Len(old.trns)
  <2>1. new.highest \in Nat /\ rec.i \in Nat /\ Len(old.trns) \in Nat
    BY Fields
  <2>2. MtgType(new')
    BY DEF Linked
  <2>3. new'.highest \in Nat
    BY <2>2, MtgFields
  <2> QED
    BY <2>1, <2>2, <2>3, NoEntry, Zenon
<1>2. /\ from' \in [Trns(new') -> 0 .. Len(old.trns)]
      /\ \A k \in Trns(new') : \/ from'[k] = 0
                               \/ k \in Trns(new) /\ from'[k] = from[k]
                                  /\ (k \in Stored(new') <=> k \in Stored(new))
      /\ \A k \in Trns(new) : k \in Trns(new') /\ from'[k] = from[k]
  <2>1. CASE from' = from /\ new'.highest = new.highest
    <3>1. Trns(new') = Trns(new) /\ from \in [Trns(new) -> 0 .. Len(old.trns)]
      BY <2>1, Fields DEF Trns
    <3> QED
      BY <2>1, <3>1 DEF Keeps, Stored
  <2>2. CASE from' = Append(from, 0) /\ new'.highest = new.highest + 1
    BY <2>2, <1>1, FromGrows
  <2> QED
    BY <2>1, <2>2 DEF UsersNumber
<1>3. TypeOK'
  BY <1>1, <1>2 DEF IInv, TypeOK, UsersType
<1>4. StartInv' /\ WalkInv' /\ FoundInv'
  BY <1>1 DEF IInv, StartInv, WalkInv, FoundInv, Reached, FoundAt, Addr
<1>5. FromInv'
  <2>1. new'.highest >= rec.i - 1
    BY <1>1, HighestGrows
  <2>2. ASSUME NEW n \in Trns(new'), from'[n] # 0
        PROVE  n \in Stored(new') /\ \E j \in 1 .. rec.i - 1 : from'[n] = rec.trn_pos[j]
    <3>1. n \in Trns(new) /\ from[n] # 0 /\ from'[n] = from[n]
          /\ (n \in Stored(new') <=> n \in Stored(new))
      BY <1>2, <2>2, Zenon
    <3> QED
      BY <3>1, Zenon DEF IInv, FromInv
  <2>3. ASSUME NEW j \in 1 .. rec.i - 1, rec.trn_pos[j] # 0
        PROVE  \E n \in Trns(new') : n >= j /\ from'[n] = rec.trn_pos[j]
    <3>1. PICK n \in Trns(new) : n >= j /\ from[n] = rec.trn_pos[j]
      BY <2>3, Zenon DEF IInv, FromInv
    <3> QED
      BY <1>2, <3>1, Zenon
  <2>4. rec'.i = rec.i /\ rec'.trn_pos = rec.trn_pos
    BY <1>1
  <2> QED
    BY <2>1, <2>2, <2>3, <2>4 DEF FromInv
<1>6. OrderInv'
  BY <1>2 DEF IInv, OrderInv
<1>7. WholeInv'
  BY DEF WholeInv
<1> QED
  BY <1>1, <1>3, <1>4, <1>5, <1>6, <1>7 DEF IInv

\* A user posts to the new meeting.
LEMMA PostStep ==
  ASSUME IInv, NEW reply \in Live(new) \cup {0}, NEW flags \in TrnFlags, Post(reply, flags)
  PROVE  IInv'
<1>1. /\ Linked(new) /\ Logged(new) /\ CanReply(new, reply) /\ new' = AddTrn(new, reply, flags)
      /\ from' = Append(from, 0) /\ rec.pc # "not started" /\ old' = old /\ rec' = rec
      /\ users.posts < MaxPosts /\ users' = [users EXCEPT !.posts = @ + 1]
  BY DEF Post, IInv
<1>2. reply \in Nat /\ MtgType(new)
  <2>1. MtgType(new) /\ new.highest \in Nat
    BY <1>1, MtgFields DEF Linked
  <2>2. \A k \in Live(new) : k \in Nat
    BY <2>1 DEF Live, Trns
  <2> QED
    BY <2>1, <2>2
<1>3. Linked(new') /\ Logged(new') /\ Keeps(new, new')
  BY <1>1, <1>2, AddLinked, AddLogged, AddKeeps
<1>4. new'.highest = new.highest + 1
  <2>1. AddTrn(new, reply, flags).highest = new.highest + 1
    BY <1>2, MtgFields DEF AddTrn, MtgType
  <2> QED
    BY <1>1, <2>1, Zenon
<1>5. UsersType' /\ ~Quiet'
  <2>1. users \in [posts : 0 .. MaxPosts, deleted : BOOLEAN]
    BY DEF IInv, TypeOK
  <2>2. users.posts + 1 \in 0 .. MaxPosts /\ users.posts + 1 # 0
    <3>1. users.posts \in 0 .. MaxPosts
      BY <2>1
    <3>2. users.posts < MaxPosts
      BY <1>1
    <3> QED
      BY <3>1, <3>2, BoundsAssumption
  <2>3. users'.posts # 0 /\ users' \in [posts : 0 .. MaxPosts, deleted : BOOLEAN]
    BY <1>1, <2>1, <2>2
  <2> QED
    BY <2>3 DEF UsersType, Quiet
<1> QED
  BY <1>1, <1>3, <1>4, <1>5, PostedStep DEF UsersNumber

\* A user deletes from it.
LEMMA PostDeleteStep ==
  ASSUME IInv, NEW t \in Trns(new), PostDelete(t)
  PROVE  IInv'
<1>1. /\ Linked(new) /\ Logged(new) /\ CanDelete(new, t) /\ new' = DeleteTrn(new, t)
      /\ from' = from /\ rec.pc # "not started" /\ old' = old /\ rec' = rec
      /\ users' = [users EXCEPT !.deleted = TRUE]
  BY DEF PostDelete, IInv
<1>2. Linked(new') /\ NoneAdded(new, new') /\ new'.highest = new.highest
  BY <1>1, DeleteLinked, DeleteKeeps
<1>3. Logged(new') /\ Keeps(new, new')
  BY <1>1, <1>2, NoneAddedLogged DEF NoneAdded
<1>4. UsersType' /\ ~Quiet'
  BY <1>1 DEF IInv, TypeOK, UsersType, Quiet
<1> QED
  BY <1>1, <1>2, <1>3, <1>4, PostedStep DEF UsersNumber

\* What a step that saves number i does to the program's state.
LEMMA Saves ==
  ASSUME IInv, Saving, NextNumber, old' = old
  PROVE  /\ rec.i \in 1 .. rec.num_trns /\ rec.i \in Nat /\ rec.i - 1 \in Nat
         /\ FoundAt(rec.i) /\ \A j \in 1 .. rec.i : j \in 1 .. rec.num_trns /\ FoundAt(j)
         /\ rec'.pc = "save" /\ rec'.i = rec.i + 1 /\ rec'.num_trns = rec.num_trns
         /\ rec'.trn_pos = rec.trn_pos /\ rec'.current_pos = rec.current_pos
         /\ rec' \in [pc : {"not started", "scan", "walk", "save", "done", "failed"},
                      current_pos : 0 .. Len(old'.trns), num_trns : 0 .. MaxTrn,
                      trn_pos : [1 .. rec'.num_trns -> 0 .. Len(old'.trns)], i : 0 .. MaxTrn + 1]
         /\ StartInv' /\ WalkInv' /\ FoundInv'
<1>1. /\ rec.pc = "save" /\ rec.i <= rec.num_trns /\ rec' = [rec EXCEPT !.i = rec.i + 1]
      /\ rec.i # 0
  BY DEF Saving, NextNumber, IInv, StartInv
<1>2. rec.i \in Nat /\ rec.num_trns \in Nat /\ rec.num_trns <= MaxTrn
  BY Fields, BoundsAssumption
<1>3. /\ rec.i \in 1 .. rec.num_trns /\ rec.i - 1 \in Nat /\ rec.i + 1 \in 0 .. MaxTrn + 1
  BY <1>1, <1>2, BoundsAssumption
<1>4. \A j \in 1 .. rec.num_trns : FoundAt(j)
  BY <1>1 DEF IInv, FoundInv
<1>5. \A j \in 1 .. rec.i : j \in 1 .. rec.num_trns /\ FoundAt(j)
  BY <1>2, <1>3, <1>4
<1>6. /\ rec'.pc = "save" /\ rec'.i = rec.i + 1 /\ rec'.num_trns = rec.num_trns
      /\ rec'.trn_pos = rec.trn_pos /\ rec'.current_pos = rec.current_pos
      /\ rec' \in [pc : {"not started", "scan", "walk", "save", "done", "failed"},
                   current_pos : 0 .. Len(old'.trns), num_trns : 0 .. MaxTrn,
                   trn_pos : [1 .. rec'.num_trns -> 0 .. Len(old'.trns)], i : 0 .. MaxTrn + 1]
  BY <1>1, <1>3 DEF IInv, TypeOK
<1>7. StartInv' /\ WalkInv'
  <2>1. rec.i + 1 # 0 /\ rec.i + 1 <= rec.num_trns + 1
    BY <1>1, <1>2
  <2> QED
    BY <2>1, <1>6 DEF StartInv, WalkInv
<1>8. FoundInv'
  BY <1>1, <1>6 DEF IInv, FoundInv, FoundAt, Addr
<1> QED
  BY <1>2, <1>3, <1>4, <1>5, <1>6, <1>7, <1>8

\* Saving the number i: the new meeting gets one number, made from trn_pos[i].
LEMMA SavedStep ==
  ASSUME IInv, Saving, NextNumber, UNCHANGED <<old, users>>,
         from' = Append(from, rec.trn_pos[rec.i]),
         Linked(new'), Logged(new'), Keeps(new, new'), new'.highest = new.highest + 1,
         new.highest + 1 \in Stored(new') <=> rec.trn_pos[rec.i] # 0
  PROVE  /\ TypeOK' /\ StartInv' /\ WalkInv' /\ FoundInv' /\ FromInv' /\ OrderInv'
<1> DEFINE n == new.highest + 1
           x == rec.trn_pos[rec.i]
<1>1. /\ old' = old /\ users' = users /\ MtgType(new') /\ new.highest \in Nat
  BY Fields DEF Linked
<1>2. /\ rec.i \in 1 .. rec.num_trns /\ rec.i \in Nat /\ rec.i - 1 \in Nat
      /\ rec'.i = rec.i + 1 /\ rec'.num_trns = rec.num_trns /\ rec'.trn_pos = rec.trn_pos
      /\ StartInv' /\ WalkInv' /\ FoundInv'
  BY Saves
<1>3. x \in 0 .. Len(old.trns) /\ x \in Nat
  BY <1>2, Fields
<1>4. /\ from' \in [Trns(new') -> 0 .. Len(old'.trns)]
      /\ from'[n] = x
      /\ n \in Trns(new') /\ n \notin Trns(new) /\ n \in Nat
      /\ \A k \in Trns(new') : k = n \/ (k \in Trns(new) /\ k < n)
      /\ \A k \in Trns(new) : k \in Trns(new') /\ k < n /\ from'[k] = from[k] /\ k \in Nat
      /\ \A k \in Trns(new) : k \in Stored(new') <=> k \in Stored(new)
  BY <1>1, <1>3, FromGrows
<1> HIDE DEF n, x
<1>5. TypeOK'
  BY <1>1, <1>4, Saves DEF IInv, TypeOK
<1>6. FromInv'
  <2>1. new'.highest >= rec'.i - 1 /\ n >= rec.i
    BY <1>1, <1>2 DEF IInv, FromInv, n
  <2>2. ASSUME NEW k \in Trns(new'), from'[k] # 0
        PROVE  k \in Stored(new') /\ \E j \in 1 .. rec'.i - 1 : from'[k] = rec'.trn_pos[j]
    <3>1. CASE k = n
      <4>1. rec.i \in 1 .. rec'.i - 1
        BY <1>2
      <4> QED
        BY <3>1, <4>1, <1>2, <1>4, <2>2 DEF n, x
    <3>2. CASE k \in Trns(new)
      <4>1. k \in Stored(new) /\ \E j \in 1 .. rec.i - 1 : from[k] = rec.trn_pos[j]
        BY <3>2, <2>2, <1>4 DEF IInv, FromInv
      <4>2. \A j \in 1 .. rec.i - 1 : j \in 1 .. rec'.i - 1
        BY <1>2
      <4> QED
        BY <3>2, <4>1, <4>2, <1>2, <1>4
    <3> QED
      BY <3>1, <3>2, <1>4
  <2>3. ASSUME NEW j \in 1 .. rec'.i - 1, rec'.trn_pos[j] # 0
        PROVE  \E k \in Trns(new') : k >= j /\ from'[k] = rec'.trn_pos[j]
    <3>1. CASE j = rec.i
      BY <3>1, <2>1, <1>2, <1>4 DEF x
    <3>2. CASE j \in 1 .. rec.i - 1
      <4>1. PICK k \in Trns(new) : k >= j /\ from[k] = rec.trn_pos[j]
        BY <3>2, <2>3, <1>2 DEF IInv, FromInv
      <4> QED
        BY <4>1, <1>2, <1>4
    <3>3. j = rec.i \/ j \in 1 .. rec.i - 1
      <4>1. 1 .. rec'.i - 1 = 1 .. rec.i
        BY <1>2
      <4>2. j \in 1 .. rec.i
        BY <4>1
      <4> QED
        BY <4>2, <1>2
    <3> QED
      BY <3>1, <3>2, <3>3
  <2> QED
    BY <2>1, <2>2, <2>3 DEF FromInv
<1>7. OrderInv'
  <2> SUFFICES ASSUME NEW k \in Trns(new'), NEW l \in Trns(new'), k < l, from'[k] # 0, from'[l] # 0
               PROVE  from'[k] < from'[l]
    BY DEF OrderInv
  <2>1. k \in Trns(new) /\ k \in Nat
    <3>1. \A a \in Trns(new') : a <= n
      BY <1>4
    <3>2. k # n
      BY <3>1, <1>4
    <3> QED
      BY <3>2, <1>4
  <2>2. CASE l \in Trns(new)
    BY <2>1, <2>2, <1>4 DEF IInv, OrderInv
  <2>3. CASE l = n
    <3>1. PICK j \in 1 .. rec.i - 1 : from[k] = rec.trn_pos[j]
      BY <2>1, <1>4 DEF IInv, FromInv
    <3>2. j < rec.i /\ j \in 1 .. rec.i
      BY <3>1, <1>2
    <3>3. rec.trn_pos[j] < rec.trn_pos[rec.i]
      BY <3>1, <3>2, <2>1, <2>3, <1>1, <1>2, <1>4, Saves, FoundOrder DEF x
    <3> QED
      BY <3>1, <3>3, <2>1, <2>3, <1>4 DEF x
  <2> QED
    BY <2>2, <2>3, <1>4
<1> QED
  BY <1>2, <1>5, <1>6, <1>7

\* With nobody else at it, the number that is saved next is i, and what is below it is
\* what was found.
LEMMA QuietSaves ==
  ASSUME IInv, Saving, Quiet
  PROVE  /\ new.highest + 1 = rec.i /\ rec.i \in 1 .. rec.num_trns
         /\ Live(new) = Stored(new)
         /\ \A j \in 1 .. rec.i : j \in Stored(old) =>
               /\ rec.trn_pos[j] = Addr(j) /\ rec.trn_pos[j] # 0
               /\ j # rec.i => j \in Trns(new) /\ j \in Stored(new)
<1>1. /\ rec.i # 0 /\ rec.i \in Nat /\ rec.num_trns \in Nat /\ new.highest \in Nat
      /\ rec.i <= rec.num_trns /\ rec.pc = "save" /\ Trns(new) = 1 .. new.highest
  BY Fields DEF Saving, IInv, StartInv
<1>2. new.highest = rec.i - 1 /\ Live(new) = Stored(new)
  BY <1>1 DEF IInv, WholeInv
<1>3. ASSUME NEW j \in 1 .. rec.i, j \in Stored(old)
      PROVE  /\ rec.trn_pos[j] = Addr(j) /\ rec.trn_pos[j] # 0
             /\ j # rec.i => j \in Trns(new) /\ j \in Stored(new)
  <2>1. j \in 1 .. rec.num_trns
    BY <1>1
  <2>2. rec.trn_pos[j] = Addr(j)
    BY <1>1, <1>3, <2>1 DEF IInv, FoundInv, FoundAt
  <2>3. Addr(j) # 0
    BY <1>3 DEF Stored, Addr
  <2>4. j # rec.i => j \in Trns(new)
    BY <1>1, <1>2
  <2>5. j # rec.i => j \in Stored(new)
    BY <2>2, <2>3, <2>4 DEF IInv, WholeInv
  <2> QED
    BY <2>2, <2>3, <2>4, <2>5
<1>4. new.highest + 1 = rec.i /\ rec.i \in 1 .. rec.num_trns
  BY <1>1, <1>2
<1> QED
  BY <1>2, <1>3, <1>4

\* Saving keeps the new meeting the part of the old one below i.
LEMMA SavedWhole ==
  ASSUME IInv, Saving, NextNumber, old' = old, users' = users,
         from' = Append(from, rec.trn_pos[rec.i]),
         Linked(new'), Keeps(new, new'), new'.highest = new.highest + 1,
         new.highest + 1 \in Stored(new') <=> rec.trn_pos[rec.i] # 0,
         Quiet => Live(new') = Stored(new'),
         Quiet /\ rec.i \in Stored(old) =>
            \A j \in Stored(old) \cap Trns(new) :
               old.blk[j].trn_chain = old.blk[rec.i].trn_chain
                 <=> new'.blk[j].trn_chain = new'.blk[rec.i].trn_chain
  PROVE  WholeInv'
<1> SUFFICES ASSUME Quiet PROVE WholeInv'
  BY DEF WholeInv, Quiet
<1> DEFINE n == rec.i
<1>1. /\ new.highest + 1 = n /\ n \in 1 .. rec.num_trns
  BY QuietSaves
<1>2. rec'.i = n + 1 /\ rec'.trn_pos = rec.trn_pos /\ n \in Nat
  BY Saves
<1>3. MtgType(new')
  BY DEF Linked
<1>4. rec.trn_pos[n] \in 0 .. Len(old.trns)
  BY <1>1, Fields
<1>5. /\ from'[n] = rec.trn_pos[n] /\ n \in Trns(new') /\ n \notin Trns(new)
      /\ \A k \in Trns(new') : k = n \/ k \in Trns(new)
      /\ \A k \in Trns(new) : k \in Trns(new') /\ from'[k] = from[k]
      /\ \A k \in Trns(new) : k \in Stored(new') <=> k \in Stored(new)
  BY <1>1, <1>3, <1>4, FromGrows, Zenon
<1>6. new'.highest = IF rec'.i = 0 THEN 0 ELSE rec'.i - 1
  <2>1. new'.highest = n
    BY <1>1
  <2>2. n + 1 # 0 /\ (n + 1) - 1 = n
    BY <1>2
  <2> QED
    BY <1>2, <2>1, <2>2
<1>7. \A k \in Trns(new) : from[k] = rec.trn_pos[k] /\ (k \in Stored(new) <=> rec.trn_pos[k] # 0)
  BY DEF IInv, WholeInv
<1>8. n \in Stored(new') <=> rec.trn_pos[n] # 0
  BY <1>1
<1>9. \A k \in Trns(new') : /\ from'[k] = rec'.trn_pos[k]
                            /\ k \in Stored(new') <=> rec'.trn_pos[k] # 0
  BY <1>2, <1>5, <1>7, <1>8, Zenon
<1>10. ASSUME NEW i \in Stored(old) \cap Trns(new'), NEW j \in Stored(old) \cap Trns(new')
       PROVE  old.blk[i].trn_chain = old.blk[j].trn_chain
                <=> new'.blk[i].trn_chain = new'.blk[j].trn_chain
  <2>1. CASE i \in Trns(new) /\ j \in Trns(new)
    <3>1. /\ new'.blk[i].trn_chain = new.blk[i].trn_chain
          /\ new'.blk[j].trn_chain = new.blk[j].trn_chain
      BY <2>1 DEF Keeps
    <3>2. old.blk[i].trn_chain = old.blk[j].trn_chain
            <=> new.blk[i].trn_chain = new.blk[j].trn_chain
      BY <2>1 DEF IInv, WholeInv
    <3> QED
      BY <3>1, <3>2
  <2>2. CASE i = n /\ j = n
    BY <2>2
  <2>3. CASE i = n /\ j \in Trns(new)
    <3>1. n \in Stored(old) /\ j \in Stored(old) \cap Trns(new)
      BY <2>3
    <3>2. old.blk[j].trn_chain = old.blk[n].trn_chain
            <=> new'.blk[j].trn_chain = new'.blk[n].trn_chain
      BY <3>1
    <3> QED
      BY <2>3, <3>2
  <2>4. CASE i \in Trns(new) /\ j = n
    <3>1. n \in Stored(old) /\ i \in Stored(old) \cap Trns(new)
      BY <2>4
    <3> QED
      BY <2>4, <3>1
  <2> QED
    BY <1>5, <2>1, <2>2, <2>3, <2>4
<1>11. Live(new') = Stored(new')
  OBVIOUS
<1>12. \A i, j \in Stored(old') \cap Trns(new') :
             old'.blk[i].trn_chain = old'.blk[j].trn_chain
               <=> new'.blk[i].trn_chain = new'.blk[j].trn_chain
  BY <1>10
<1> HIDE DEF n
<1> QED
  BY <1>6, <1>9, <1>11, <1>12 DEF WholeInv

\* The header that is saved: of a transaction of the old meeting, or of a lost add.
LEMMA HdrFields ==
  ASSUME IInv, Saving, rec.trn_pos[rec.i] # 0
  PROVE  /\ Hdr.orig_pref \in Nat
         /\ rec.i \in Stored(old) => Hdr.orig_pref = OrigPref(old, rec.i)
<1>1. /\ rec.i # 0 /\ rec.i \in Nat /\ rec.num_trns \in Nat
      /\ rec.i <= rec.num_trns /\ rec.pc = "save"
  BY Fields DEF Saving, IInv, StartInv
<1>2. rec.i \in 1 .. rec.num_trns
  BY <1>1
<1>3. rec.trn_pos[rec.i] \in 0 .. Len(old.trns) /\ Len(old.trns) \in Nat
  BY <1>2, Fields
<1>4. rec.trn_pos[rec.i] \in 1 .. Len(old.trns)
  BY <1>3
<1>5. Hdr \in TrnHdr
  BY <1>4, Fields DEF Hdr
<1>6. rec.i \in Stored(old) => rec.trn_pos[rec.i] = Addr(rec.i)
  BY <1>1, <1>2 DEF IInv, FoundInv, FoundAt
<1> QED
  BY <1>5, <1>6 DEF TrnHdr, Hdr, OrigPref, Addr

\* The thread a transaction is added to.
LEMMA AddedThread ==
  ASSUME NEW m, Linked(m), NEW reply \in Nat, CanReply(m, reply), NEW flags
  PROVE  LET r == AddTrn(m, reply, flags)
             n == m.highest + 1
         IN  /\ r.highest = n /\ n \in Stored(r)
             /\ Live(m) = Stored(m) => Live(r) = Stored(r)
             /\ reply = 0 =>
                  \A j \in Stored(m) : r.blk[j].trn_chain # r.blk[n].trn_chain
             /\ reply # 0 => reply \in Live(m) /\ r.blk[n].trn_chain = m.blk[reply].trn_chain
<1> DEFINE r == AddTrn(m, reply, flags)
           n == m.highest + 1
<1>1. /\ MtgType(m) /\ ChainNumbers(m) /\ ChainsLinked(m) /\ MeetingLinked(m)
      /\ m.highest_chain \in Nat
  BY MtgFields DEF Linked
<1>2. /\ m.last <= m.highest /\ AddPref(m, reply) \in 0 .. m.highest
      /\ OneMore(Live(m), n, Live(r))
  BY <1>1, AddSets
<1>3. OneMore(Stored(m), n, Stored(r))
  BY <1>1, AddChainNumbers
<1>4. r.blk[n].trn_chain = AddChain(m, reply)
  BY <1>1, <1>2, AddNewBlk
<1>5. r.highest = n
  BY <1>1 DEF AddTrn, MtgType
<1>6. \A j \in Stored(m) : /\ r.blk[j].trn_chain = m.blk[j].trn_chain
                           /\ m.blk[j].trn_chain \in 1 .. m.highest_chain
  <2>1. \A j \in Trns(m) : r.blk[j].trn_chain = m.blk[j].trn_chain
    BY <1>1, AddOldBlk
  <2> QED
    BY <1>1, <2>1 DEF ChainNumbers, Stored
<1> HIDE DEF r, n
<1>7. n \in Stored(r)
  BY <1>3 DEF OneMore
<1>8. Live(m) = Stored(m) => Live(r) = Stored(r)
  <2>1. \A j : j \in Live(r) <=> j = n \/ j \in Live(m)
    BY <1>2, Zenon DEF OneMore
  <2>2. \A j : j \in Stored(r) <=> j = n \/ j \in Stored(m)
    BY <1>3, Zenon DEF OneMore
  <2> QED
    BY <2>1, <2>2
<1>9. reply = 0 => \A j \in Stored(m) : r.blk[j].trn_chain # r.blk[n].trn_chain
  <2>1. reply = 0 => AddChain(m, reply) = m.highest_chain + 1
    BY DEF AddChain
  <2> QED
    BY <1>1, <1>4, <1>6, <2>1
<1>10. reply # 0 => reply \in Live(m) /\ r.blk[n].trn_chain = m.blk[reply].trn_chain
  BY <1>4 DEF CanReply, AddChain
<1> QED
  BY <1>5, <1>7, <1>8, <1>9, <1>10 DEF r, n

\* save_trn: the thread is that of the header's orig_pref, or a new one.
LEMMA SaveTrnStep == ASSUME IInv, SaveTrn PROVE IInv'
<1> DEFINE n == new.highest + 1
           p == Hdr.orig_pref
<1>1. /\ Saving /\ NextNumber /\ old' = old /\ users' = users
      /\ rec.trn_pos[rec.i] # 0 /\ from' = Append(from, rec.trn_pos[rec.i])
      /\ CanReply(new, p) /\ new' = AddTrn(new, p, 0)
      /\ Linked(new) /\ Logged(new) /\ Recorded(old)
  BY DEF SaveTrn, IInv
<1>2. p \in Nat /\ (rec.i \in Stored(old) => p = OrigPref(old, rec.i))
  BY <1>1, HdrFields
<1>3. Linked(new') /\ Logged(new') /\ Keeps(new, new')
  BY <1>1, <1>2, NoFlagsAssumption, AddLinked, AddLogged, AddKeeps
<1>4. /\ new'.highest = n /\ n \in Stored(new')
      /\ Live(new) = Stored(new) => Live(new') = Stored(new')
      /\ p = 0 => \A j \in Stored(new) : new'.blk[j].trn_chain # new'.blk[n].trn_chain
      /\ p # 0 => new'.blk[n].trn_chain = new.blk[p].trn_chain
  BY <1>1, <1>2, AddedThread
<1> HIDE DEF n, p
<1>5. Quiet => Live(new') = Stored(new')
  BY <1>1, <1>4, QuietSaves
<1>6. ASSUME Quiet, rec.i \in Stored(old), NEW j \in Stored(old) \cap Trns(new)
      PROVE  old.blk[j].trn_chain = old.blk[rec.i].trn_chain
               <=> new'.blk[j].trn_chain = new'.blk[rec.i].trn_chain
  <2>1. /\ n = rec.i /\ Trns(new) = 1 .. new.highest /\ new.highest \in Nat
        /\ rec.i \in Nat
    BY <1>1, <1>6, QuietSaves, Fields DEF n
  <2>2. j \in Nat /\ j < rec.i /\ j \in 1 .. rec.i /\ j # rec.i
    BY <2>1 DEF n
  <2>3. j \in Stored(new)
    BY <1>1, <1>6, <2>2, QuietSaves
  <2>4. new'.blk[j].trn_chain = new.blk[j].trn_chain
    BY <1>3 DEF Keeps
  <2>5. CASE p = 0
    <3>1. old.blk[j].trn_chain # old.blk[rec.i].trn_chain
      BY <1>1, <1>2, <1>6, <2>2, <2>5 DEF Recorded
    <3> QED
      BY <1>4, <2>1, <2>3, <2>5, <3>1
  <2>6. CASE p # 0
    <3>1. /\ p < rec.i /\ p \in Stored(old)
          /\ old.blk[p].trn_chain = old.blk[rec.i].trn_chain
      <4>1. p = OrigPref(old, rec.i)
        BY <1>2, <1>6
      <4>2. OrigPref(old, rec.i) # 0 =>
              /\ OrigPref(old, rec.i) < rec.i /\ OrigPref(old, rec.i) \in Stored(old)
              /\ old.blk[OrigPref(old, rec.i)].trn_chain = old.blk[rec.i].trn_chain
        BY <1>1, <1>6, Zenon DEF Recorded, Logged, ChainsRecorded, OrigPref
      <4> QED
        BY <2>6, <4>1, <4>2
    <3>2. p \in Trns(new)
      BY <1>2, <2>1, <2>6, <3>1 DEF n
    <3>3. old.blk[j].trn_chain = old.blk[p].trn_chain
            <=> new.blk[j].trn_chain = new.blk[p].trn_chain
      BY <1>6, <3>1, <3>2 DEF IInv, WholeInv
    <3> QED
      BY <1>4, <2>1, <2>4, <2>6, <3>1, <3>3
  <2> QED
    BY <2>5, <2>6
<1>7. n \in Stored(new') <=> rec.trn_pos[rec.i] # 0
  BY <1>1, <1>4
<1>8. WholeInv'
  BY <1>1, <1>3, <1>4, <1>5, <1>6, <1>7, SavedWhole DEF n
<1>9. TypeOK' /\ StartInv' /\ WalkInv' /\ FoundInv' /\ FromInv' /\ OrderInv'
  BY <1>1, <1>3, <1>4, <1>7, SavedStep DEF n
<1> QED
  BY <1>1, <1>3, <1>8, <1>9 DEF IInv

\* A chain block for a number that was not found.
LEMMA SaveHoleStep ==
  ASSUME IInv, NEW pref \in Junk, NEW chain \in Junk, NEW flags \in TrnFlags,
         SaveHole(pref, chain, flags)
  PROVE  IInv'
<1> DEFINE n == new.highest + 1
<1>1. /\ Saving /\ NextNumber /\ old' = old /\ users' = users
      /\ rec.trn_pos[rec.i] = 0 /\ from' = Append(from, rec.trn_pos[rec.i])
      /\ new' = ExpungeTrn(new, pref, chain, flags)
      /\ Linked(new) /\ Logged(new) /\ Recorded(old)
  BY DEF SaveHole, IInv
<1>2. /\ Linked(new') /\ Live(new') = Live(new) /\ NoneAdded(new, new')
      /\ new'.highest = n /\ new'.blk[n].trn_addr = 0
  BY <1>1, JunkAssumption, ExpungeLinked, ExpungeKeeps
<1>3. Logged(new') /\ Keeps(new, new') /\ Stored(new') = Stored(new)
  BY <1>1, <1>2, NoneAddedLogged DEF NoneAdded
<1>4. Quiet => Live(new') = Stored(new')
  BY <1>1, <1>2, <1>3, QuietSaves
<1>5. ~(n \in Stored(new'))
  BY <1>2 DEF Stored
<1>6. ~(Quiet /\ rec.i \in Stored(old))
  <2> SUFFICES ASSUME Quiet, rec.i \in Stored(old) PROVE FALSE
    OBVIOUS
  <2>1. rec.i \in 1 .. rec.i
    BY <1>1, QuietSaves, Fields
  <2> QED
    BY <1>1, <2>1, QuietSaves
<1> HIDE DEF n
<1>7. n \in Stored(new') <=> rec.trn_pos[rec.i] # 0
  BY <1>1, <1>5
<1>8. WholeInv'
  BY <1>1, <1>2, <1>3, <1>4, <1>6, <1>7, SavedWhole DEF n
<1>9. TypeOK' /\ StartInv' /\ WalkInv' /\ FoundInv' /\ FromInv' /\ OrderInv'
  BY <1>1, <1>2, <1>3, <1>7, SavedStep DEF n
<1> QED
  BY <1>1, <1>2, <1>3, <1>8, <1>9 DEF IInv

\* save_trn fails, and the program with it.
LEMMA SaveFailsStep == ASSUME IInv, SaveFails PROVE IInv'
<1>1. /\ Saving /\ rec.trn_pos[rec.i] # 0 /\ rec' = [rec EXCEPT !.pc = "failed"]
      /\ UNCHANGED <<old, from, users>> /\ Linked(new)
  BY DEF SaveFails, Exits, IInv
<1>2. Linked(new') /\ NoneAdded(new, new') /\ new'.highest = new.highest /\ Live(new') = Live(new)
  <2>1. CASE new' = new
    BY <1>1, <2>1, NoChange
  <2>2. CASE CanReply(new, Hdr.orig_pref)
             /\ \E whole \in BOOLEAN : new' = AbortAdd(new, Hdr.orig_pref, whole)
    <3>1. PICK whole \in BOOLEAN : new' = AbortAdd(new, Hdr.orig_pref, whole)
      BY <2>2
    <3>2. Hdr.orig_pref \in Nat
      BY <1>1, HdrFields
    <3>3. Linked(new') /\ Live(new') = Live(new)
      BY <1>1, <2>2, <3>1, <3>2, AbortLinked
    <3>4. NoneAdded(new, new')
      BY <1>1, <2>2, <3>1, <3>2, AbortKeeps
    <3>5. new'.highest = new.highest
      BY <1>1, <3>1 DEF AbortAdd, Linked, MtgType
    <3> QED
      BY <3>3, <3>4, <3>5
  <2> QED
    BY <2>1, <2>2 DEF SaveFails
<1> QED
  BY <1>1, <1>2, Quits

-----------------------------------------------------------------------------
(* All steps.                                                              *)

\* The old meeting lives.
LEMMA HistorySteps == ASSUME IInv, History PROVE IInv'
<1>1. /\ Recorded(old) /\ MtgType(old) /\ Linked(old) /\ old.highest \in Nat
      /\ \A i \in Live(old) \cup {0} : i \in Nat
  <2>1. Recorded(old)
    BY DEF IInv
  <2>2. MtgType(old) /\ Linked(old) /\ old.highest \in Nat
    BY <2>1, RecordedFields
  <2> QED
    BY <2>1, <2>2 DEF Live, Trns
<1>2. ASSUME NEW reply \in Live(old) \cup {0}, NEW f \in TrnFlags, Add(reply, f)
      PROVE  IInv'
  <2>1. /\ reply \in Nat /\ CanReply(old, reply) /\ old' = AddTrn(old, reply, f) /\ Lives
        /\ old.highest < MaxTrn
    BY <1>1, <1>2 DEF Add, Room
  <2>2. Recorded(old')
    BY <1>1, <2>1, AddRecorded
  <2>3. Keeps(old, old')
    BY <1>1, <2>1, AddKeeps
  <2> QED
    BY <2>1, <2>2, <2>3, HistoryStep DEF Keeps
<1>3. ASSUME NEW reply \in Live(old) \cup {0}, NEW whole \in BOOLEAN, LostAdd(reply, whole)
      PROVE  IInv'
  <2>1. /\ reply \in Nat /\ CanReply(old, reply) /\ old' = AbortAdd(old, reply, whole) /\ Lives
        /\ old.highest < MaxTrn
    BY <1>1, <1>3 DEF LostAdd, Room
  <2>2. Recorded(old')
    BY <1>1, <2>1, AbortRecorded
  <2>3. NoneAdded(old, old')
    BY <1>1, <2>1, AbortKeeps
  <2> QED
    BY <2>1, <2>2, <2>3, HistoryStep DEF NoneAdded, Keeps
<1>4. ASSUME NEW p \in Junk, NEW c \in Junk, NEW f \in TrnFlags, Hole(p, c, f)
      PROVE  IInv'
  <2>1. /\ p \in Int /\ c \in Int /\ old' = ExpungeTrn(old, p, c, f) /\ Lives
        /\ old.highest < MaxTrn /\ Len(old.trns) = Cardinality(Stored(old))
    BY <1>4, JunkAssumption DEF Hole
  <2>2. Recorded(old')
    BY <1>1, <2>1, HoleRecorded
  <2>3. NoneAdded(old, old')
    BY <1>1, <2>1, ExpungeKeeps
  <2> QED
    BY <2>1, <2>2, <2>3, HistoryStep DEF NoneAdded, Keeps
<1>5. ASSUME NEW t \in Trns(old), Delete(t)
      PROVE  IInv'
  <2>1. CanDelete(old, t) /\ old' = DeleteTrn(old, t) /\ Lives
    BY <1>5 DEF Delete
  <2>2. Recorded(old')
    BY <1>1, <2>1, DeleteRecorded
  <2>3. NoneAdded(old, old')
    BY <1>1, <2>1, DeleteKeeps
  <2> QED
    BY <2>1, <2>2, <2>3, HistoryStep DEF NoneAdded, Keeps
<1> QED
  BY <1>2, <1>3, <1>4, <1>5 DEF History

\* The inductive invariant holds at first ...
LEMMA Initially == ASSUME Init PROVE IInv
<1>1. /\ old = EmptyMeeting /\ new = EmptyMeeting /\ from = << >>
      /\ rec = [pc |-> "not started", current_pos |-> 0, num_trns |-> 0, trn_pos |-> << >>, i |-> 0]
      /\ users = [posts |-> 0, deleted |-> FALSE]
  BY DEF Init
<1>2. Recorded(old)
  BY <1>1, EmptyRecorded
<1>3. Linked(new) /\ Logged(new)
  BY <1>1, <1>2, EmptyLinked DEF Recorded
<1>4. Trns(new) = {} /\ new.highest = 0 /\ Live(new) = {} /\ Stored(new) = {}
  BY <1>1, EmptyTrns, EmptyLinked
<1>5. rec.pc = "not started" /\ rec.num_trns = 0 /\ rec.i = 0
  BY <1>1
<1>6. TypeOK
  <2>1. MtgType(old) /\ MtgType(new) /\ Len(old.trns) \in Nat
    BY <1>2, <1>3, RecordedFields DEF Linked
  <2>2. rec \in [pc : {"not started", "scan", "walk", "save", "done", "failed"},
                current_pos : 0 .. Len(old.trns), num_trns : 0 .. MaxTrn,
                trn_pos : [1 .. rec.num_trns -> 0 .. Len(old.trns)], i : 0 .. MaxTrn + 1]
    <3>1. << >> \in [1 .. 0 -> 0 .. Len(old.trns)]
      OBVIOUS
    <3>2. 0 \in 0 .. Len(old.trns) /\ 0 \in 0 .. MaxTrn /\ 0 \in 0 .. MaxTrn + 1
      BY <2>1, BoundsAssumption
    <3> QED
      BY <1>1, <3>1, <3>2
  <2>3. from \in [Trns(new) -> 0 .. Len(old.trns)]
    <3>1. << >> \in [{} -> 0 .. Len(old.trns)]
      OBVIOUS
    <3> QED
      BY <1>1, <1>4, <3>1, Zenon
  <2>4. users \in [posts : 0 .. MaxPosts, deleted : BOOLEAN]
    <3>1. 0 \in 0 .. MaxPosts
      BY BoundsAssumption
    <3>2. [posts |-> 0, deleted |-> FALSE] \in [posts : 0 .. MaxPosts, deleted : BOOLEAN]
      BY <3>1
    <3> QED
      BY <1>1, <3>2, Zenon
  <2> QED
    BY <2>1, <2>2, <2>3, <2>4 DEF TypeOK
<1>7. StartInv /\ WalkInv /\ FoundInv
  BY <1>1, <1>5 DEF StartInv, WalkInv, FoundInv
<1>8. FromInv /\ OrderInv /\ WholeInv
  <2>1. 1 .. rec.i - 1 = {}
    <3>1. 1 .. 0 - 1 = {}
      OBVIOUS
    <3> QED
      BY <1>5, <3>1, Zenon
  <2>2. new.highest >= rec.i - 1
    <3>1. 0 >= 0 - 1
      OBVIOUS
    <3> QED
      BY <1>4, <1>5, <3>1, Zenon
  <2>3. FromInv /\ OrderInv
    BY <1>4, <2>1, <2>2 DEF FromInv, OrderInv
  <2>4. WholeInv
    BY <1>4, <1>5 DEF WholeInv
  <2> QED
    BY <2>3, <2>4
<1> QED
  BY <1>2, <1>3, <1>6, <1>7, <1>8 DEF IInv

\* A step that changes nothing.
LEMMA Stutters == ASSUME IInv, UNCHANGED vars PROVE IInv'
<1>1. old' = old /\ rec' = rec /\ new' = new /\ from' = from /\ users' = users
  BY DEF vars
<1>2. TypeOK' /\ Recorded(old') /\ Linked(new') /\ Logged(new')
  BY <1>1 DEF IInv, TypeOK
<1>3. StartInv' /\ WalkInv' /\ FoundInv'
  BY <1>1 DEF IInv, StartInv, WalkInv, FoundInv, Reached, FoundAt, Addr
<1>4. FromInv' /\ OrderInv' /\ WholeInv'
  BY <1>1 DEF IInv, FromInv, OrderInv, WholeInv, Quiet
<1> QED
  BY <1>2, <1>3, <1>4 DEF IInv

\* ... and every step keeps it.
LEMMA StepKeeps == ASSUME IInv, [Next]_vars PROVE IInv'
<1>1. CASE History
  BY <1>1, HistorySteps
<1>2. CASE Recovery
  <2>1. CASE CreateMtg
    BY <2>1, CreateMtgStep
  <2>2. CASE ReadLastTrn
    BY <2>2, ReadLastTrnStep
  <2>3. CASE NothingFound \/ Killed
    BY <2>3, NothingFoundStep
  <2>4. CASE Walk
    BY <2>4, WalkStep
  <2>5. CASE SaveTrn
    BY <2>5, SaveTrnStep
  <2>6. CASE SaveFails
    BY <2>6, SaveFailsStep
  <2>7. CASE \E p, c \in Junk, f \in TrnFlags : SaveHole(p, c, f)
    BY <2>7, SaveHoleStep
  <2>8. CASE Finish
    BY <2>8, FinishStep
  <2> QED
    BY <1>2, <2>1, <2>2, <2>3, <2>4, <2>5, <2>6, <2>7, <2>8 DEF Recovery
<1>3. CASE Users
  <2>1. CASE \E reply \in Live(new) \cup {0}, f \in TrnFlags : Post(reply, f)
    BY <2>1, PostStep
  <2>2. CASE \E t \in Trns(new) : PostDelete(t)
    BY <2>2, PostDeleteStep
  <2> QED
    BY <1>3, <2>1, <2>2 DEF Users
<1>4. CASE UNCHANGED vars
  BY <1>4, Stutters
<1> QED
  BY <1>1, <1>2, <1>3, <1>4 DEF Next

\* What is known of the program at every step of every run of it.
THEOREM Invariance == Spec => []IInv
<1>1. Init => IInv
  BY Initially
<1>2. IInv /\ [Next]_vars => IInv'
  BY StepKeeps
<1> QED
  BY <1>1, <1>2, PTL DEF Spec

\* The positions that recover.c goes to are inside the transactions file.
THEOREM TypeCorrect == Spec => []TypeOK
<1>1. IInv => TypeOK
  BY DEF IInv
<1> QED
  BY <1>1, Invariance, PTL

\* Whenever the program stops, and whatever users do meanwhile, the new meeting is one
\* the server can work on, and could be recovered in turn.
THEOREM NewAlwaysLinked == Spec => []NewLinked
<1>1. IInv => NewLinked
  BY DEF IInv, NewLinked, Linked, Logged
<1> QED
  BY <1>1, Invariance, PTL

\* When the program has ended well, trn_pos had every stored transaction.
LEMMA Ended ==
  ASSUME IInv, rec.pc = "done", NEW i \in Stored(old)
  PROVE  /\ i \in 1 .. rec.i - 1 /\ i \in 1 .. rec.num_trns /\ i \in Nat
         /\ rec.trn_pos[i] = Addr(i) /\ Addr(i) # 0
         /\ rec.num_trns # 0 /\ rec.i = rec.num_trns + 1
<1>1. rec.num_trns \in Nat /\ rec.i \in Nat
  BY Fields
<1>2. i \in 1 .. rec.num_trns /\ FoundAt(i)
  BY DEF IInv, FoundInv
<1>3. rec.num_trns # 0
  BY <1>1, <1>2
<1>4. rec.i > rec.num_trns /\ (rec.i = 0 \/ rec.i <= rec.num_trns + 1)
  BY <1>3 DEF IInv, FoundInv, StartInv
<1>5. Addr(i) # 0
  BY DEF Stored, Addr
<1>6. rec.i = rec.num_trns + 1
  BY <1>1, <1>4
<1> QED
  BY <1>1, <1>2, <1>3, <1>5, <1>6 DEF FoundAt

\* If the program ends well, each text is there once, in the old order, whatever users
\* do meanwhile: save_trn for all of trn_pos.
THEOREM TextsAreKept == Spec => []TextsKept
<1>1. ASSUME IInv PROVE TextsKept
  <2> SUFFICES ASSUME rec.pc = "done", NEW i \in Stored(old)
               PROVE  \E n \in Stored(new) :
                        /\ from[n] = Addr(i) /\ n >= i
                        /\ \A k \in Trns(new) : from[k] # 0 =>
                              /\ (k < n => from[k] < from[n])
                              /\ (k > n => from[k] > from[n])
    BY DEF TextsKept
  <2>1. i \in 1 .. rec.i - 1 /\ rec.trn_pos[i] = Addr(i) /\ Addr(i) # 0
    BY <1>1, Ended
  <2>2. PICK n \in Trns(new) : n >= i /\ from[n] = Addr(i)
    BY <1>1, <2>1 DEF IInv, FromInv
  <2>3. n \in Stored(new)
    BY <1>1, <2>1, <2>2 DEF IInv, FromInv
  <2>4. ASSUME NEW k \in Trns(new), from[k] # 0
        PROVE  /\ (k < n => from[k] < from[n])
               /\ (k > n => from[k] > from[n])
    <3>1. k \in Nat /\ n \in Nat /\ from[k] \in Nat /\ from[n] \in Nat
      BY <1>1, Fields
    <3>2. k < n => from[k] < from[n]
      BY <1>1, <2>1, <2>2, <2>4 DEF IInv, OrderInv
    <3>3. n < k => from[n] < from[k]
      BY <1>1, <2>1, <2>2, <2>4 DEF IInv, OrderInv
    <3> QED
      BY <3>1, <3>2, <3>3
  <2> QED
    BY <2>2, <2>3, <2>4
<1>2. IInv => TextsKept
  BY <1>1
<1> QED
  BY <1>2, Invariance, PTL

\* If nobody is at the new meeting meanwhile, the transactions have their numbers and
\* threads back (mtg.h: orig_pref is kept "so that chains can be reconstructed").
THEOREM RecoveredIsWhole == Spec => []RecoveredWhole
<1>1. ASSUME IInv PROVE RecoveredWhole
  <2> SUFFICES ASSUME rec.pc = "done", Quiet
               PROVE  /\ Stored(old) \subseteq Live(new)
                      /\ \A i \in Stored(old) : from[i] = Addr(i)
                      /\ \A i, j \in Stored(old) :
                            old.blk[i].trn_chain = old.blk[j].trn_chain
                              <=> new.blk[i].trn_chain = new.blk[j].trn_chain
                      /\ Stored(new) \ Stored(old) \subseteq {old.highest + 1}
    BY DEF RecoveredWhole, Quiet
  <2>1. /\ new.highest \in Nat /\ rec.i \in Nat /\ rec.num_trns \in Nat
        /\ new.highest = (IF rec.i = 0 THEN 0 ELSE rec.i - 1) /\ Trns(new) = 1 .. new.highest
    BY <1>1, Fields DEF IInv, WholeInv
  <2>2. /\ Live(new) = Stored(new)
        /\ \A n \in Trns(new) : /\ from[n] = rec.trn_pos[n]
                                /\ n \in Stored(new) <=> rec.trn_pos[n] # 0
    BY <1>1 DEF IInv, WholeInv
  <2>3. ASSUME NEW i \in Stored(old)
        PROVE  i \in Trns(new) /\ i \in Stored(new) /\ from[i] = Addr(i)
    <3>1. /\ i \in 1 .. rec.i - 1 /\ i \in Nat /\ rec.trn_pos[i] = Addr(i) /\ Addr(i) # 0
          /\ rec.num_trns # 0 /\ rec.i = rec.num_trns + 1
      BY <1>1, Ended
    <3>2. i \in Trns(new)
      BY <2>1, <3>1
    <3> QED
      BY <2>2, <3>1, <3>2
  <2>4. ASSUME NEW i \in Stored(old), NEW j \in Stored(old)
        PROVE  old.blk[i].trn_chain = old.blk[j].trn_chain
                 <=> new.blk[i].trn_chain = new.blk[j].trn_chain
    <3>1. i \in Stored(old) \cap Trns(new) /\ j \in Stored(old) \cap Trns(new)
      BY <2>3
    <3> QED
      BY <1>1, <3>1 DEF IInv, WholeInv
  <2>5. ASSUME NEW n \in Stored(new), n \notin Stored(old)
        PROVE  n = old.highest + 1
    <3>1. n \in Trns(new) /\ n \in Nat /\ n > 0
      BY <2>1 DEF Stored
    <3>2. rec.trn_pos[n] # 0
      BY <2>2, <3>1
    <3>3. rec.i = 0 \/ rec.i <= rec.num_trns + 1
      BY <1>1 DEF IInv, StartInv
    <3>4. n \in 1 .. rec.num_trns
      BY <2>1, <3>1, <3>3
    <3>5. FoundAt(n)
      BY <1>1, <3>4 DEF IInv, FoundInv
    <3> QED
      BY <2>5, <3>2, <3>5 DEF FoundAt
  <2> QED
    BY <2>2, <2>3, <2>4, <2>5
<1>2. IInv => RecoveredWhole
  BY <1>1
<1> QED
  BY <1>2, Invariance, PTL

=============================================================================

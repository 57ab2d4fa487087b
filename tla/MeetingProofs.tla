--------------------------- MODULE MeetingProofs ---------------------------
(***************************************************************************)
(* What core.c promises of a meeting, proved for any number of             *)
(* transactions.  The inductive invariant is that the meeting is Linked    *)
(* and that a retrieve in progress is on its way to the neighbours of its  *)
(* transaction (SearchInv): the links alone are not inductive, since       *)
(* FinishRetrieve writes whatever the searches have found.  From what the  *)
(* operations leave alone three results follow: numbers are for good, the  *)
(* transactions file records the meeting, and a meeting is a Conference.   *)
(***************************************************************************)
EXTENDS Meeting, MeetingLemmas

-----------------------------------------------------------------------------
(* retrieve_trn's searches *)

\* The inductive invariant.
IInv == Linked(mtg) /\ op \in OpType /\ SearchInv

\* Of the transaction that is being retrieved: its chain's block exists, and it is
\* not itself among the transactions the searches compare it with.
LEMMA Retrieving ==
  ASSUME NEW m, Linked(m), NEW t, CanRetrieve(m, t)
  PROVE  /\ t \in Trns(m) /\ t \in Nat /\ t > 0
         /\ m.blk[t].trn_chain \in Trns(m)
         /\ t \notin Live(m) /\ t \notin ChainMembers(m, m.blk[t].trn_chain)
<1>1. m.highest \in Nat /\ m.highest_chain \in Nat /\ m.highest_chain <= m.highest
  BY MtgFields DEF Linked, ChainNumbers
<1>2. t \in Trns(m) /\ m.blk[t].deleted /\ t \in Stored(m)
  BY DEF CanRetrieve, Stored
<1>3. m.blk[t].trn_chain \in 1 .. m.highest_chain
  BY <1>2 DEF Linked, ChainNumbers
<1> QED
  BY <1>1, <1>2, <1>3 DEF Trns, Live, ChainMembers

\* At the start nothing has been missed on either side.
LEMMA StartSearch ==
  ASSUME Linked(mtg), op \in OpType, NEW t, StartRetrieve(t)
  PROVE  op' \in OpType /\ SearchInv'
<1> DEFINE C == ChainMembers(mtg, mtg.blk[t].trn_chain)
           L == Live(mtg)
           ch == mtg.blk[mtg.blk[t].trn_chain]
           pref == IF ch.chain_fref > t THEN 0 ELSE ch.chain_fref
           nref == IF ch.chain_lref < t THEN 0 ELSE ch.chain_lref
           prev == IF mtg.first > t \/ mtg.first = 0 THEN 0 ELSE t - 1
           next == IF mtg.last < t THEN 0 ELSE t + 1
<1>1. /\ CanRetrieve(mtg, t) /\ mtg' = mtg
      /\ op' = [pc |-> "pref", t |-> t, pref |-> pref, nref |-> nref,
                prev |-> prev, next |-> next]
  BY DEF StartRetrieve
<1>2. /\ t \in Nat /\ t > 0 /\ mtg.blk[t].trn_chain \in Trns(mtg)
      /\ t \notin L /\ t \notin C
  BY <1>1, Retrieving
<1>3. /\ mtg.first \in Nat /\ mtg.last \in Nat
      /\ ch.chain_fref \in Nat /\ ch.chain_lref \in Nat
      /\ \A j \in L : j \in Nat /\ j > 0
      /\ \A j \in C : j \in Nat /\ j > 0
  BY <1>2, MtgFields, BlkFields, LivePositive DEF Linked, Positive
<1>4. IsFirst(C, ch.chain_fref) /\ IsLast(C, ch.chain_lref)
  BY <1>2 DEF Linked, ChainsLinked
<1>5. IsFirst(L, mtg.first) /\ IsLast(L, mtg.last)
  BY DEF Linked, MeetingLinked
<1> HIDE DEF C, L, ch
<1>6. pref \in Nat /\ nref \in Nat /\ prev \in Nat /\ next \in Nat
  BY <1>2, <1>3
<1>7. \/ pref = 0 /\ \A j \in C : j >= t
      \/ pref \in C /\ pref < t
  BY <1>2, <1>3, <1>4 DEF IsFirst
<1>8. \/ nref = 0 /\ \A j \in C : j <= t
      \/ nref \in C /\ nref > t
  BY <1>2, <1>3, <1>4 DEF IsLast
<1>9. prev < t /\ \A j \in L : j < t => j <= prev
  BY <1>2, <1>3, <1>5 DEF IsFirst
<1>10. \/ next = 0 /\ \A j \in L : j <= t
       \/ next \in t + 1 .. mtg.last /\ \A j \in L : j > t => j >= next
  BY <1>2, <1>3, <1>5 DEF IsLast
<1> HIDE DEF pref, nref, prev, next
<1>11. /\ op'.pc = "pref" /\ op'.t = t /\ op'.pref = pref /\ op'.nref = nref
       /\ op'.prev = prev /\ op'.next = next
  BY <1>1
<1>12. op' \in OpType
  BY <1>1, <1>2, <1>6 DEF OpType
<1>13. SearchInv'
  BY <1>1, <1>7, <1>8, <1>9, <1>10, <1>11 DEF SearchInv, C, L
<1> QED
  BY <1>12, <1>13

\* One turn of the loop that goes up the chain.
LEMMA PrefStep ==
  ASSUME IInv, SearchPref
  PROVE  op' \in OpType /\ SearchInv'
<1> DEFINE t == op.t
           C == ChainMembers(mtg, mtg.blk[t].trn_chain)
           nref == mtg.blk[op.pref].nref
<1>1. /\ op.pc = "pref" /\ mtg' = mtg /\ op \in OpType
      /\ CanRetrieve(mtg, t) /\ Linked(mtg)
      /\ \/ op.pref = 0 /\ \A j \in C : j >= t
         \/ op.pref \in C /\ op.pref < t
  BY DEF IInv, SearchInv, SearchPref, Unlocked
<1>2. /\ t \in Nat /\ t > 0 /\ t \notin C
      /\ \A j \in C : j \in Nat /\ j > 0
  BY <1>1, Retrieving, LivePositive DEF Positive, Linked
<1>3. op.pref # 0 => IsSucc(C, op.pref, nref) /\ nref \in Nat
  <2> HAVE op.pref # 0
  <2>1. op.pref \in Live(mtg) /\ mtg.blk[op.pref].trn_chain = mtg.blk[t].trn_chain
    BY <1>1 DEF ChainMembers
  <2>2. op.pref \in Trns(mtg)
    BY <2>1 DEF Live
  <2>3. nref \in Nat
    BY <2>2, <1>1, BlkFields DEF Linked
  <2> QED
    BY <2>1, <2>3, <1>1 DEF Linked, ChainsLinked
<1>4. CASE op.pref # 0 /\ nref <= t /\ nref # 0
  <2>1. op' = [op EXCEPT !.pref = nref]
    BY <1>4 DEF SearchPref
  <2>2. nref \in C /\ nref < t /\ nref \in Nat
    BY <1>2, <1>3, <1>4 DEF IsSucc
  <2> HIDE DEF C, nref
  <2>3. /\ op' \in OpType /\ op'.pc = op.pc /\ op'.t = op.t /\ op'.pref = nref
        /\ op'.nref = op.nref /\ op'.prev = op.prev /\ op'.next = op.next
    BY <2>1, <2>2, <1>1 DEF OpType
  <2> QED
    BY <1>1, <2>2, <2>3 DEF IInv, SearchInv, Unlocked, C
<1>5. CASE ~(op.pref # 0 /\ nref <= t /\ nref # 0)
  <2>1. op' = [op EXCEPT !.pc = "nref"]
    BY <1>5, <1>1 DEF SearchPref
  <2>2. IsPred(C, t, op.pref)
    BY <1>1, <1>2, <1>3, <1>5 DEF IsSucc, IsPred
  <2> HIDE DEF C, nref
  <2>3. /\ op' \in OpType /\ op'.pc = "nref" /\ op'.t = op.t /\ op'.pref = op.pref
        /\ op'.nref = op.nref /\ op'.prev = op.prev /\ op'.next = op.next
    BY <2>1, <1>1 DEF OpType
  <2> QED
    BY <1>1, <2>2, <2>3 DEF IInv, SearchInv, Unlocked, C
<1> QED
  BY <1>4, <1>5

\* One turn of the loop that goes down the chain.
LEMMA NrefStep ==
  ASSUME IInv, SearchNref
  PROVE  op' \in OpType /\ SearchInv'
<1> DEFINE t == op.t
           C == ChainMembers(mtg, mtg.blk[t].trn_chain)
           pref == mtg.blk[op.nref].pref
<1>1. /\ op.pc = "nref" /\ mtg' = mtg /\ op \in OpType
      /\ CanRetrieve(mtg, t) /\ Linked(mtg)
      /\ \/ op.nref = 0 /\ \A j \in C : j <= t
         \/ op.nref \in C /\ op.nref > t
  BY DEF IInv, SearchInv, SearchNref, Unlocked
<1>2. /\ t \in Nat /\ t > 0 /\ t \notin C
      /\ \A j \in C : j \in Nat /\ j > 0
  BY <1>1, Retrieving, LivePositive DEF Positive, Linked
<1>3. op.nref # 0 => IsPred(C, op.nref, pref) /\ pref \in Int
  <2> HAVE op.nref # 0
  <2>1. op.nref \in Live(mtg) /\ mtg.blk[op.nref].trn_chain = mtg.blk[t].trn_chain
    BY <1>1 DEF ChainMembers
  <2>2. op.nref \in Trns(mtg)
    BY <2>1 DEF Live
  <2>3. pref \in Int
    BY <2>2, <1>1, BlkFields DEF Linked
  <2> QED
    BY <2>1, <2>3, <1>1 DEF Linked, ChainsLinked
<1>4. CASE op.nref # 0 /\ pref >= t
  <2>1. op' = [op EXCEPT !.nref = pref]
    BY <1>4 DEF SearchNref
  <2>2. pref \in C /\ pref > t /\ pref \in Nat
    BY <1>2, <1>3, <1>4 DEF IsPred
  <2> HIDE DEF C, pref
  <2>3. /\ op' \in OpType /\ op'.pc = op.pc /\ op'.t = op.t /\ op'.nref = pref
        /\ op'.pref = op.pref /\ op'.prev = op.prev /\ op'.next = op.next
    BY <2>1, <2>2, <1>1 DEF OpType
  <2> QED
    BY <1>1, <2>2, <2>3 DEF IInv, SearchInv, Unlocked, C
<1>5. CASE ~(op.nref # 0 /\ pref >= t)
  <2>1. op' = [op EXCEPT !.pc = "prev"]
    BY <1>5, <1>1 DEF SearchNref
  <2>2. IsSucc(C, t, op.nref)
    BY <1>1, <1>2, <1>3, <1>5 DEF IsSucc, IsPred
  <2> HIDE DEF C, pref
  <2>3. /\ op' \in OpType /\ op'.pc = "prev" /\ op'.t = op.t /\ op'.pref = op.pref
        /\ op'.nref = op.nref /\ op'.prev = op.prev /\ op'.next = op.next
    BY <2>1, <1>1 DEF OpType
  <2> QED
    BY <1>1, <2>2, <2>3 DEF IInv, SearchInv, Unlocked, C
<1> QED
  BY <1>4, <1>5

\* One turn of the loop that goes down over deleted transactions.
LEMMA PrevStep ==
  ASSUME IInv, SearchPrev
  PROVE  op' \in OpType /\ SearchInv'
<1> DEFINE t == op.t
           L == Live(mtg)
<1>1. /\ op.pc = "prev" /\ mtg' = mtg /\ op \in OpType
      /\ CanRetrieve(mtg, t) /\ Linked(mtg)
      /\ op.prev < t /\ \A j \in L : j < t => j <= op.prev
  BY DEF IInv, SearchInv, SearchPrev, Unlocked
<1>2. /\ t \in Nat /\ t > 0 /\ t \in Trns(mtg) /\ op.prev \in Nat /\ mtg.highest \in Nat
      /\ \A j \in L : j \in Nat /\ j > 0
  BY <1>1, Retrieving, LivePositive, MtgFields DEF Positive, Linked, OpType
<1>3. op.prev # 0 => op.prev \in Trns(mtg)
  BY <1>1, <1>2 DEF Trns
<1>4. CASE op.prev # 0 /\ mtg.blk[op.prev].deleted
  <2>1. op' = [op EXCEPT !.prev = op.prev - 1]
    BY <1>4 DEF SearchPrev
  <2>2. op.prev \notin L
    BY <1>4 DEF Live
  <2>3. /\ op.prev - 1 \in Nat /\ op.prev - 1 < t
        /\ \A j \in L : j < t => j <= op.prev - 1
    BY <1>1, <1>2, <1>4, <2>2
  <2> HIDE DEF L
  <2>4. /\ op' \in OpType /\ op'.pc = op.pc /\ op'.t = op.t /\ op'.nref = op.nref
        /\ op'.pref = op.pref /\ op'.prev = op.prev - 1 /\ op'.next = op.next
    BY <2>1, <2>3, <1>1 DEF OpType
  <2> QED
    BY <1>1, <2>3, <2>4 DEF IInv, SearchInv, Unlocked, L
<1>5. CASE ~(op.prev # 0 /\ mtg.blk[op.prev].deleted)
  <2>1. op' = [op EXCEPT !.pc = "next"]
    BY <1>5, <1>1 DEF SearchPrev
  <2>2. op.prev # 0 => op.prev \in L
    BY <1>3, <1>5 DEF Live
  <2>3. IsPred(L, t, op.prev)
    BY <1>1, <1>2, <2>2 DEF IsPred
  <2> HIDE DEF L
  <2>4. /\ op' \in OpType /\ op'.pc = "next" /\ op'.t = op.t /\ op'.pref = op.pref
        /\ op'.nref = op.nref /\ op'.prev = op.prev /\ op'.next = op.next
    BY <2>1, <1>1 DEF OpType
  <2> QED
    BY <1>1, <2>3, <2>4 DEF IInv, SearchInv, Unlocked, L
<1> QED
  BY <1>4, <1>5

\* One turn of the loop that goes up over deleted transactions: last, which is
\* not deleted, stops it.
LEMMA NextStep ==
  ASSUME IInv, SearchNext
  PROVE  op' \in OpType /\ SearchInv'
<1> DEFINE t == op.t
           L == Live(mtg)
<1>1. /\ op.pc = "next" /\ mtg' = mtg /\ op \in OpType
      /\ CanRetrieve(mtg, t) /\ Linked(mtg)
      /\ \/ op.next = 0 /\ \A j \in L : j <= t
         \/ op.next \in t + 1 .. mtg.last /\ \A j \in L : j > t => j >= op.next
  BY DEF IInv, SearchInv, SearchNext, Unlocked
<1>2. /\ t \in Nat /\ t > 0 /\ op.next \in Nat /\ mtg.highest \in Nat /\ mtg.last \in Nat
      /\ \A j \in L : j \in Nat /\ j > 0
  BY <1>1, Retrieving, LivePositive, MtgFields DEF Positive, Linked, OpType
<1>3. op.next # 0 => /\ mtg.last \in L /\ op.next <= mtg.last /\ op.next > t
                     /\ op.next \in Trns(mtg) /\ \A j \in L : j > t => j >= op.next
  <2> HAVE op.next # 0
  <2>1. op.next \in t + 1 .. mtg.last /\ \A j \in L : j > t => j >= op.next
    BY <1>1
  <2>2. mtg.last \in L
    BY <2>1, <1>1, <1>2 DEF Linked, MeetingLinked, IsLast
  <2>3. mtg.last <= mtg.highest
    BY <2>2, <1>2 DEF Live, Trns
  <2> QED
    BY <2>1, <2>2, <2>3, <1>2 DEF Trns
<1>4. CASE op.next # 0 /\ mtg.blk[op.next].deleted
  <2>1. op' = [op EXCEPT !.next = op.next + 1]
    BY <1>4 DEF SearchNext
  <2>2. op.next \notin L
    BY <1>4 DEF Live
  <2>3. op.next + 1 \in t + 1 .. mtg.last /\ \A j \in L : j > t => j >= op.next + 1
    BY <1>2, <1>3, <1>4, <2>2
  <2>4. op.next + 1 \in Nat
    BY <1>2
  <2> HIDE DEF L
  <2>5. /\ op' \in OpType /\ op'.pc = op.pc /\ op'.t = op.t /\ op'.nref = op.nref
        /\ op'.pref = op.pref /\ op'.prev = op.prev /\ op'.next = op.next + 1
    BY <2>1, <2>4, <1>1 DEF OpType
  <2> QED
    BY <1>1, <2>3, <2>5 DEF IInv, SearchInv, Unlocked, L
<1>5. CASE ~(op.next # 0 /\ mtg.blk[op.next].deleted)
  <2>1. op' = [op EXCEPT !.pc = "write"]
    BY <1>5, <1>1 DEF SearchNext
  <2>2. op.next # 0 => op.next \in L
    BY <1>3, <1>5 DEF Live
  <2>3. IsSucc(L, t, op.next)
    BY <1>1, <1>2, <1>3, <2>2 DEF IsSucc
  <2> HIDE DEF L
  <2>4. /\ op' \in OpType /\ op'.pc = "write" /\ op'.t = op.t /\ op'.pref = op.pref
        /\ op'.nref = op.nref /\ op'.prev = op.prev /\ op'.next = op.next
    BY <2>1, <1>1 DEF OpType
  <2> QED
    BY <1>1, <2>3, <2>4 DEF IInv, SearchInv, Unlocked, L
<1> QED
  BY <1>4, <1>5

\* When the searches are over they have found the neighbours.
LEMMA SearchFound ==
  ASSUME IInv, op.pc = "write"
  PROVE  CanRetrieve(mtg, op.t) /\ Neighbours(mtg, op.t, op)
  BY DEF IInv, SearchInv, Unlocked, Neighbours, OpType

-----------------------------------------------------------------------------
(* The invariants *)

\* The inductive invariant holds of every reachable state: every operation of
\* core.c leaves the meeting linked, and every turn of retrieve_trn's loops keeps
\* the search on course.
THEOREM Invariance == Spec => []IInv
<1> USE BoundsAssumption, JunkAssumption
<1>1. Init => IInv
  <2> HAVE Init
  <2>1. Linked(mtg) /\ op = Idle
    BY EmptyLinked DEF Init
  <2>2. op.pc = "idle" /\ op \in OpType
    BY <2>1 DEF Idle, OpType
  <2> QED
    BY <2>1, <2>2 DEF IInv, SearchInv, Unlocked
<1>2. IInv /\ [Next]_vars => IInv'
  <2> SUFFICES ASSUME IInv, [Next]_vars PROVE IInv'
    OBVIOUS
  <2>0. Linked(mtg) /\ op \in OpType /\ SearchInv
    BY DEF IInv
  <2>a. ASSUME Unlocked, UNCHANGED op, Linked(mtg') PROVE IInv'
    BY <2>0, <2>a DEF IInv, SearchInv, Unlocked, OpType
  <2>1. ASSUME NEW reply \in 0 .. MaxTrn, NEW flags \in TrnFlags, Add(reply, flags) PROVE IInv'
    BY <2>0, <2>1, <2>a, AddLinked DEF Add
  <2>2. ASSUME NEW reply \in 0 .. MaxTrn, NEW whole \in BOOLEAN, FailAdd(reply, whole) PROVE IInv'
    BY <2>0, <2>2, <2>a, AbortLinked DEF FailAdd
  <2>3. ASSUME NEW pref \in Junk, NEW chain \in Junk, NEW flags \in TrnFlags,
               Expunge(pref, chain, flags)
        PROVE  IInv'
    BY <2>0, <2>3, <2>a, ExpungeLinked DEF Expunge
  <2>4. ASSUME NEW t \in 1 .. MaxTrn, NEW flags \in TrnFlags, SetFlags(t, flags) PROVE IInv'
    BY <2>0, <2>4, <2>a, SetFlagsLinked DEF SetFlags, CanDelete
  <2>5. ASSUME NEW t \in 1 .. MaxTrn, Delete(t) PROVE IInv'
    BY <2>0, <2>5, <2>a, DeleteLinked DEF Delete
  <2>6. ASSUME NEW t \in 1 .. MaxTrn, StartRetrieve(t) PROVE IInv'
    BY <2>0, <2>6, StartSearch DEF IInv, StartRetrieve
  <2>7. CASE SearchPref
    BY <2>0, <2>7, PrefStep DEF IInv, SearchPref
  <2>8. CASE SearchNref
    BY <2>0, <2>8, NrefStep DEF IInv, SearchNref
  <2>9. CASE SearchPrev
    BY <2>0, <2>9, PrevStep DEF IInv, SearchPrev
  <2>10. CASE SearchNext
    BY <2>0, <2>10, NextStep DEF IInv, SearchNext
  <2>b. ASSUME op' = Idle, Linked(mtg') PROVE IInv'
    <3>1. op'.pc = "idle" /\ op' \in OpType
      BY <2>b DEF Idle, OpType
    <3> QED
      BY <2>b, <3>1 DEF IInv, SearchInv, Unlocked, OpType
  <2>11. CASE FinishRetrieve
    <3>1. op.pc = "write" /\ mtg' = RelinkTrn(mtg, op.t, op) /\ op' = Idle
      BY <2>11 DEF FinishRetrieve
    <3> QED
      BY <2>0, <2>b, <3>1, SearchFound, RelinkLinked
  <2>12. CASE ServerDies
    BY <2>0, <2>12, <2>b DEF ServerDies
  <2>13. CASE UNCHANGED vars
    BY <2>0, <2>13 DEF IInv, vars, SearchInv, Unlocked, OpType
  <2> QED
    BY <2>1, <2>2, <2>3, <2>4, <2>5, <2>6, <2>7, <2>8, <2>9, <2>10, <2>11, <2>12, <2>13
    DEF Next, Search
<1> QED
  BY <1>1, <1>2, PTL DEF Spec

\* The files of a meeting, and the call in progress, always have their types: in
\* particular no operation reads a block that does not exist.
THEOREM TypeCorrect == Spec => []TypeOK
<1>1. IInv => TypeOK
  BY DEF IInv, TypeOK, Linked
<1> QED
  BY <1>1, Invariance, PTL

\* After any sequence of adds, failed adds, expunged numbers, deletes, retrieves
\* and crashes, the transactions that are not deleted are linked in order, in the
\* meeting and in each chain.
THEOREM LinksAlwaysOK == Spec => []LinksOK
<1>1. IInv => LinksOK
  BY DEF IInv, LinksOK, Linked
<1> QED
  BY <1>1, Invariance, PTL

\* There are never more chains than transactions, so that block k can describe
\* chain k, and everything that is not deleted has text and a chain.
THEOREM ChainNumbersAlwaysOK == Spec => []ChainNumbersOK
<1>1. IInv => ChainNumbersOK
  BY DEF IInv, ChainNumbersOK, Linked
<1> QED
  BY <1>1, Invariance, PTL

\* retrieve_trn is always on course, and reads only blocks that exist.
THEOREM SearchAlwaysOK == Spec => []SearchOK
<1>1. IInv => SearchOK
  <2> SUFFICES ASSUME IInv, ~Unlocked PROVE SearchInRange
    BY DEF IInv, SearchOK, SearchInRange
  <2> DEFINE t == op.t
             C == ChainMembers(mtg, mtg.blk[t].trn_chain)
             L == Live(mtg)
  <2>1. /\ t \in Trns(mtg) /\ t \in Nat /\ mtg.highest \in Nat /\ mtg.last \in Nat
        /\ C \subseteq Trns(mtg) /\ L \subseteq Trns(mtg)
        /\ op.prev \in Nat /\ op.next \in Nat
    BY Retrieving, MtgFields DEF IInv, SearchInv, Linked, OpType, ChainMembers, Live
  <2>2. mtg.last <= mtg.highest
    BY <2>1 DEF IInv, Linked, MeetingLinked, IsLast, Trns
  <2>3. op.pref \in C \cup {0} /\ op.nref \in C \cup {0}
    BY DEF IInv, SearchInv, IsPred, IsSucc
  <2>4. op.prev \in L \cup {0} \/ op.prev < t
    BY DEF IInv, SearchInv, IsPred
  <2>5. op.next \in L \cup {0} \/ op.next \in t + 1 .. mtg.last
    BY DEF IInv, SearchInv, IsSucc
  <2> HIDE DEF C, L, t
  <2>6. op.pref \in 0 .. mtg.highest /\ op.nref \in 0 .. mtg.highest
    <3>1. \A x \in C \cup {0} : x \in 0 .. mtg.highest
      BY <2>1 DEF Trns
    <3> QED
      BY <2>3, <3>1
  <2>7. op.prev \in 0 .. mtg.highest
    BY <2>1, <2>4 DEF Trns
  <2>8. op.next \in 0 .. mtg.highest
    BY <2>1, <2>2, <2>5 DEF Trns
  <2> QED
    BY <2>6, <2>7, <2>8 DEF SearchInRange
<1> QED
  BY <1>1, Invariance, PTL

-----------------------------------------------------------------------------
(* The transactions file, and numbers *)

\* What each step does to the two files: it adds a transaction, or adds none.
StepKeeps ==
    \/ \E reply \in Nat, flags \in TrnFlags :
          CanReply(mtg, reply) /\ mtg' = AddTrn(mtg, reply, flags)
    \/ NoneAdded(mtg, mtg')

\* Every step of the specification is one or the other.
LEMMA NextKeeps ==
  ASSUME IInv, Next
  PROVE  StepKeeps
<1> USE BoundsAssumption, JunkAssumption
<1>0. Linked(mtg) /\ MtgType(mtg)
  BY DEF IInv, Linked
<1>1. ASSUME NEW reply \in 0 .. MaxTrn, NEW flags \in TrnFlags, Add(reply, flags) PROVE StepKeeps
  BY <1>1 DEF Add, StepKeeps
<1>2. ASSUME NEW reply \in 0 .. MaxTrn, NEW whole \in BOOLEAN, FailAdd(reply, whole) PROVE StepKeeps
  BY <1>0, <1>2, AbortKeeps DEF FailAdd, StepKeeps
<1>3. ASSUME NEW pref \in Junk, NEW chain \in Junk, NEW flags \in TrnFlags,
             Expunge(pref, chain, flags)
      PROVE  StepKeeps
  BY <1>0, <1>3, ExpungeKeeps DEF Expunge, StepKeeps
<1>4. ASSUME NEW t \in 1 .. MaxTrn, NEW flags \in TrnFlags, SetFlags(t, flags) PROVE StepKeeps
  BY <1>0, <1>4, SetFlagsKeeps DEF SetFlags, CanDelete, StepKeeps
<1>5. ASSUME NEW t \in 1 .. MaxTrn, Delete(t) PROVE StepKeeps
  BY <1>0, <1>5, DeleteKeeps DEF Delete, StepKeeps
<1>6. NoneAdded(mtg, mtg)
  <2>1. mtg.highest \in Nat /\ Len(mtg.trns) \in Nat
    BY <1>0, MtgFields
  <2> QED
    BY <2>1 DEF NoneAdded, Keeps
<1>7. CASE FinishRetrieve
  BY <1>0, <1>7, SearchFound, RelinkKeeps DEF FinishRetrieve, StepKeeps
<1>8. ASSUME mtg' = mtg PROVE StepKeeps
  BY <1>6, <1>8 DEF StepKeeps
<1> QED
  BY <1>1, <1>2, <1>3, <1>4, <1>5, <1>7, <1>8
  DEF Next, Search, StartRetrieve, SearchPref, SearchNref, SearchPrev, SearchNext, ServerDies

\* The transactions file records the meeting, whatever failed adds leave in it:
\* recover.c can walk it back from the last transaction to the first, and can
\* rebuild the chains from the headers alone.
THEOREM LogAlwaysOK == Spec => []LogOK
<1>1. Init => LogOK
  <2> HAVE Init
  <2>1. Stored(mtg) = {} /\ mtg.highest_trn_addr = 0
    BY EmptyLinked DEF Init, EmptyMeeting
  <2> QED
    BY <2>1 DEF LogOK, TrnLog, ChainsRecorded, IsLast
<1>2. IInv /\ LogOK /\ [Next]_vars => LogOK'
  <2> SUFFICES ASSUME IInv, LogOK, [Next]_vars PROVE LogOK'
    OBVIOUS
  <2>1. Logged(mtg) /\ Linked(mtg)
    BY DEF LogOK, Logged, IInv
  <2>2. CASE Next
    <3>1. StepKeeps
      BY <2>2, NextKeeps
    <3>2. Logged(mtg')
      BY <2>1, <3>1, AddLogged, NoneAddedLogged DEF StepKeeps
    <3> QED
      BY <3>2 DEF LogOK, Logged
  <2>3. CASE UNCHANGED vars
    BY <2>3 DEF LogOK, vars
  <2> QED
    BY <2>2, <2>3
<1> QED
  BY <1>1, <1>2, Invariance, PTL DEF Spec

\* A number once given out is never given out again and keeps its chain, its
\* address and the text at that address.
THEOREM NumbersForGood == Spec => NumbersAreForGood
<1> DEFINE Good == /\ mtg'.highest >= mtg.highest
                   /\ \A i \in Trns(mtg) : /\ mtg'.blk[i].trn_addr = mtg.blk[i].trn_addr
                                           /\ mtg'.blk[i].trn_chain = mtg.blk[i].trn_chain
                   /\ \A i \in Stored(mtg) :
                        mtg'.trns[mtg.blk[i].trn_addr] = mtg.trns[mtg.blk[i].trn_addr]
<1>1. IInv /\ LogOK /\ [Next]_vars => [Good]_mtg
  <2> SUFFICES ASSUME IInv, LogOK, Next PROVE Good
    BY DEF vars
  <2>1. Linked(mtg) /\ StepKeeps
    BY NextKeeps DEF IInv
  <2>2. Keeps(mtg, mtg')
    BY <2>1, AddKeeps DEF StepKeeps, NoneAdded
  <2>3. \A i \in Stored(mtg) : mtg.blk[i].trn_addr \in 1 .. Len(mtg.trns)
    <3>1. \A i \in Stored(mtg) : i # 0
      BY <2>2 DEF Stored, Trns, Keeps
    <3> QED
      BY <3>1 DEF LogOK, TrnLog
  <2> QED
    BY <2>2, <2>3 DEF Keeps
<1> QED
  BY <1>1, Invariance, LogAlwaysOK, PTL DEF Spec, NumbersAreForGood


-----------------------------------------------------------------------------
(* A meeting is a Conference *)

\* Numbers keep their threads.
LEMMA KeepsThreads ==
  ASSUME NEW m, NEW r, Keeps(m, r)
  PROVE  \A i \in Trns(m) : Threads(r)[i] = Threads(m)[i]
  BY DEF Keeps, Threads

\* If no number is given out, the threads stay the same.
LEMMA SameThreads ==
  ASSUME NEW m, NEW r, Keeps(m, r), r.highest = m.highest
  PROVE  Threads(r) = Threads(m)
<1>1. Trns(r) = Trns(m)
  BY DEF Trns
<1> QED
  BY <1>1 DEF Keeps, Threads

\* If one is, it gets its thread and the others keep theirs.
LEMMA OneMoreThread ==
  ASSUME NEW m, NEW r, Keeps(m, r), r.highest = m.highest + 1, NEW c,
         Threads(r)[m.highest + 1] = c
  PROVE  Threads(r) = [i \in 1 .. m.highest + 1 |-> IF i = m.highest + 1 THEN c ELSE Threads(m)[i]]
<1> DEFINE n == m.highest + 1
           f == Threads(r)
           g == [i \in 1 .. n |-> IF i = n THEN c ELSE Threads(m)[i]]
<1>1. m.highest \in Nat /\ Trns(r) = 1 .. n
  BY DEF Trns, Keeps
<1>2. \A i \in 1 .. n : i # n => i \in Trns(m)
  BY <1>1 DEF Trns
<1>3. \A i \in Trns(m) : f[i] = Threads(m)[i]
  BY KeepsThreads
<1>4. \A i \in 1 .. n : f[i] = g[i]
  BY <1>2, <1>3
<1>5. f = [i \in 1 .. n |-> f[i]]
  BY <1>1 DEF Threads
<1> QED
  BY <1>4, <1>5

\* add_trn posts a transaction in a new thread, or replies in an old one.
LEMMA AddIsPost ==
  ASSUME Linked(mtg), NEW reply \in Nat, CanReply(mtg, reply), NEW flags \in TrnFlags,
         mtg' = AddTrn(mtg, reply, flags)
  PROVE  Conf!ConfNext
<1> DEFINE n == mtg.highest + 1
           ca == AddChain(mtg, reply)
<1>1. MtgType(mtg) /\ mtg.highest \in Nat /\ mtg.highest_chain \in Nat /\ Len(mtg.trns) \in Nat
  BY MtgFields DEF Linked
<1>2. mtg'.highest = n
  BY <1>1 DEF AddTrn, MtgType
<1>3. Keeps(mtg, mtg')
  BY AddKeeps
<1>4. /\ mtg.last <= mtg.highest /\ AddPref(mtg, reply) \in 0 .. mtg.highest
      /\ OneMore(Live(mtg), n, Live(mtg'))
  BY AddSets DEF Linked
<1>5. mtg'.blk[n].trn_addr = Len(mtg.trns) + 1 /\ mtg'.blk[n].trn_chain = ca
  BY <1>1, <1>4, AddNewBlk
<1>6. Threads(mtg')[n] = ca
  <2>1. n \in Trns(mtg') /\ Len(mtg.trns) + 1 # 0
    BY <1>1, <1>2 DEF Trns
  <2> QED
    BY <1>5, <2>1 DEF Threads
<1>7. Conf!GiveOut(ca)
  BY <1>2, <1>3, <1>6, OneMoreThread DEF Conf!GiveOut
<1>8. Live(mtg') = Live(mtg) \cup {n}
  BY <1>4 DEF OneMore
<1>9. CASE reply = 0
  <2>1. ca = mtg.highest_chain + 1 /\ ca \in 1 .. n
    BY <1>1, <1>9 DEF AddChain, Linked, ChainNumbers
  <2>2. \A i \in 1 .. mtg.highest : Threads(mtg)[i] # ca
    <3> SUFFICES ASSUME NEW i \in 1 .. mtg.highest PROVE Threads(mtg)[i] # ca
      OBVIOUS
    <3>1. i \in Trns(mtg)
      BY DEF Trns
    <3>2. CASE i \in Stored(mtg)
      BY <1>1, <2>1, <3>1, <3>2 DEF Threads, Stored, Linked, ChainNumbers
    <3>3. CASE i \notin Stored(mtg)
      BY <1>1, <2>1, <3>1, <3>3 DEF Threads, Stored
    <3> QED
      BY <3>2, <3>3
  <2>3. Conf!Post(ca)
    BY <1>7, <1>8, <2>2 DEF Conf!Post
  <2> QED
    BY <2>1, <2>3 DEF Conf!ConfNext
<1>10. CASE reply # 0
  <2>1. reply \in Live(mtg) /\ reply \in Trns(mtg)
    BY <1>10 DEF CanReply, Live
  <2>2. Threads(mtg)[reply] = ca
    BY <1>10, <2>1 DEF Threads, Linked, ChainNumbers, Stored, AddChain
  <2>3. Conf!Reply(reply)
    BY <1>7, <1>8, <2>1, <2>2 DEF Conf!Reply
  <2> QED
    BY <2>1, <2>3 DEF Conf!ConfNext, Trns
<1> QED
  BY <1>9, <1>10

\* The specification of core.c implements the Conference: every step of a search
\* is invisible, and a retrieve brings back one transaction in its own thread.
THEOREM MeetingIsConference == Spec => IsConference
<1> USE BoundsAssumption, JunkAssumption
<1>1. Init => Conf!ConfInit
  <2> HAVE Init
  <2>1. mtg.highest = 0 /\ Live(mtg) = {}
    BY EmptyLinked DEF Init, EmptyMeeting
  <2>2. Threads(mtg) = [i \in 1 .. 0 |-> 0]
    BY <2>1 DEF Threads, Trns
  <2> QED
    BY <2>1, <2>2 DEF Conf!ConfInit, Conf!NoThread
<1>2. IInv /\ [Next]_vars => [Conf!ConfNext]_(Conf!confVars)
  <2> SUFFICES ASSUME IInv, [Next]_vars
               PROVE  Conf!ConfNext \/ UNCHANGED Conf!confVars
    OBVIOUS
  <2>0. Linked(mtg)
    BY DEF IInv
  <2>a. ASSUME mtg'.highest = mtg.highest, Live(mtg') = Live(mtg), Keeps(mtg, mtg')
        PROVE  UNCHANGED Conf!confVars
    BY <2>a, SameThreads DEF Conf!confVars
  <2>b. ASSUME mtg' = mtg PROVE UNCHANGED Conf!confVars
    BY <2>b DEF Conf!confVars
  <2>1. ASSUME NEW reply \in 0 .. MaxTrn, NEW flags \in TrnFlags, Add(reply, flags)
        PROVE  Conf!ConfNext
    BY <2>0, <2>1, AddIsPost DEF Add
  <2>2. ASSUME NEW reply \in 0 .. MaxTrn, NEW whole \in BOOLEAN, FailAdd(reply, whole)
        PROVE  UNCHANGED Conf!confVars
    <3>1. CanReply(mtg, reply) /\ mtg' = AbortAdd(mtg, reply, whole)
      BY <2>2 DEF FailAdd
    <3>2. mtg'.highest = mtg.highest
      BY <2>0, <3>1 DEF AbortAdd, Linked, MtgType
    <3> QED
      BY <2>0, <2>a, <3>1, <3>2, AbortLinked, AbortKeeps DEF NoneAdded
  <2>3. ASSUME NEW pref \in Junk, NEW chain \in Junk, NEW flags \in TrnFlags,
               Expunge(pref, chain, flags)
        PROVE  Conf!ConfNext
    <3>1. mtg' = ExpungeTrn(mtg, pref, chain, flags)
      BY <2>3 DEF Expunge
    <3>2. /\ Keeps(mtg, mtg') /\ mtg'.highest = mtg.highest + 1
          /\ mtg'.blk[mtg.highest + 1].trn_addr = 0
          /\ Live(mtg') = Live(mtg)
      BY <2>0, <3>1, ExpungeKeeps, ExpungeLinked DEF NoneAdded
    <3>3. Threads(mtg')[mtg.highest + 1] = 0
      <4>1. mtg.highest + 1 \in Trns(mtg')
        BY <3>2 DEF Trns, Keeps
      <4> QED
        BY <3>2, <4>1 DEF Threads
    <3>4. Conf!Hole
      BY <3>2, <3>3, OneMoreThread DEF Conf!Hole, Conf!GiveOut, Conf!NoThread
    <3> QED
      BY <3>4 DEF Conf!ConfNext
  <2>4. ASSUME NEW t \in 1 .. MaxTrn, NEW flags \in TrnFlags, SetFlags(t, flags)
        PROVE  UNCHANGED Conf!confVars
    BY <2>0, <2>4, <2>a, SetFlagsKeeps, SetFlagsLinked DEF SetFlags, CanDelete, NoneAdded
  <2>5. ASSUME NEW t \in 1 .. MaxTrn, Delete(t)
        PROVE  Conf!ConfNext
    <3>1. CanDelete(mtg, t) /\ mtg' = DeleteTrn(mtg, t)
      BY <2>5 DEF Delete
    <3>2. OneMore(Live(mtg'), t, Live(mtg))
      BY <2>0, <3>1, DeleteSets DEF Linked
    <3>3. mtg'.highest = mtg.highest /\ Threads(mtg') = Threads(mtg)
      BY <2>0, <3>1, DeleteKeeps, SameThreads DEF NoneAdded
    <3>4. t \in Live(mtg) /\ Live(mtg') = Live(mtg) \ {t} /\ t \in 1 .. mtg.highest
      BY <3>1, <3>2 DEF OneMore, CanDelete, Live, Trns
    <3>5. Conf!Remove(t)
      BY <3>3, <3>4 DEF Conf!Remove
    <3> QED
      BY <3>4, <3>5 DEF Conf!ConfNext
  <2>6. CASE FinishRetrieve
    <3> DEFINE t == op.t
    <3>1. CanRetrieve(mtg, t) /\ mtg' = RelinkTrn(mtg, t, op)
      BY <2>6, SearchFound DEF FinishRetrieve
    <3>2. OneMore(Live(mtg), t, Live(mtg'))
      BY <2>0, <3>1, RelinkSets DEF Linked
    <3>3. mtg'.highest = mtg.highest /\ Threads(mtg') = Threads(mtg)
      BY <2>0, <3>1, RelinkKeeps, SameThreads DEF NoneAdded
    <3>4. /\ t \notin Live(mtg) /\ Live(mtg') = Live(mtg) \cup {t} /\ t \in 1 .. mtg.highest
          /\ t \in Stored(mtg)
      BY <3>1, <3>2 DEF OneMore, CanRetrieve, Live, Trns, Stored
    <3>5. Threads(mtg)[t] # 0
      <4>1. mtg.blk[t].trn_chain \in 1 .. mtg.highest_chain /\ mtg.highest_chain \in Nat
        BY <2>0, <3>4, MtgFields DEF Linked, ChainNumbers
      <4> QED
        BY <3>4, <4>1 DEF Threads, Stored
    <3>6. Conf!Restore(t)
      BY <3>3, <3>4, <3>5 DEF Conf!Restore, Conf!NoThread
    <3> QED
      BY <3>4, <3>6 DEF Conf!ConfNext
  <2> QED
    BY <2>1, <2>2, <2>3, <2>4, <2>5, <2>6, <2>b
    DEF Next, Search, StartRetrieve, SearchPref, SearchNref, SearchPrev, SearchNext,
        ServerDies, vars
<1> QED
  BY <1>1, <1>2, Invariance, PTL DEF Spec, IsConference, Conf!ConfSpec

=============================================================================

--------------------------- MODULE MeetingLemmas ---------------------------
(***************************************************************************)
(* What each operation of MeetingOps preserves, for every meeting.         *)
(***************************************************************************)
EXTENDS MeetingOps, TLAPS

-----------------------------------------------------------------------------
(* Neighbours in a set of numbers, when one number is put in or taken out. *)

\* Transaction numbers start at 1; 0 stands for none.
Positive(S) == \A j \in S : j \in Nat /\ j > 0

\* T is S with t put in; S is T with t taken out.
OneMore(S, t, T) ==
    /\ t \in Nat /\ t > 0
    /\ t \notin S /\ t \in T
    /\ \A j \in T : j \in S \/ j = t
    /\ \A j \in S : j \in T

\* A number beyond all others comes after the last of them.
LEMMA AfterLast ==
  ASSUME NEW S, Positive(S), NEW t \in Nat, \A j \in S : j < t,
         NEW l, IsLast(S, l)
  PROVE  IsPred(S, t, l) /\ IsSucc(S, t, 0)
<1>1. CASE l = 0 /\ S = {}
  BY <1>1 DEF IsPred, IsSucc
<1>2. CASE l \in S /\ \A j \in S : j <= l
  BY <1>2 DEF IsPred, IsSucc, Positive
<1> QED
  BY <1>1, <1>2 DEF IsLast

\* The successor of i when t is put in after p.
LEMMA InsertSucc ==
  ASSUME NEW S, NEW T, NEW t, Positive(S), OneMore(S, t, T),
         NEW p, IsPred(S, t, p), NEW i \in S, NEW k, IsSucc(S, i, k)
  PROVE  IsSucc(T, i, IF i = p THEN t ELSE k)
<1> USE DEF Positive, OneMore
<1>1. CASE i = p
  <2>1. p < t /\ \A j \in S : j < t => j <= p
    BY <1>1 DEF IsPred
  <2> QED
    BY <1>1, <2>1 DEF IsSucc
<1>2. CASE i # p
  <2>1. i < t => p \in S /\ p > i /\ p < t
    BY <1>2 DEF IsPred
  <2>2. i < t => k \in S /\ k < t
    BY <2>1 DEF IsSucc
  <2>3. CASE k = 0 /\ \A j \in S : j <= i
    BY <1>2, <2>2, <2>3 DEF IsSucc
  <2>4. CASE k \in S /\ k > i /\ \A j \in S : j > i => j >= k
    BY <1>2, <2>2, <2>4 DEF IsSucc
  <2> QED
    BY <2>3, <2>4 DEF IsSucc
<1> QED
  BY <1>1, <1>2

\* The predecessor of i when t is put in before n.
LEMMA InsertPred ==
  ASSUME NEW S, NEW T, NEW t, Positive(S), OneMore(S, t, T),
         NEW n, IsSucc(S, t, n), NEW i \in S, NEW k, IsPred(S, i, k)
  PROVE  IsPred(T, i, IF i = n THEN t ELSE k)
<1> USE DEF Positive, OneMore
<1>1. CASE i = n
  <2>1. n > t /\ \A j \in S : j > t => j >= n
    BY <1>1 DEF IsSucc
  <2> QED
    BY <1>1, <2>1 DEF IsPred
<1>2. CASE i # n
  <2>1. i > t => n \in S /\ n < i /\ n > t
    BY <1>2 DEF IsSucc
  <2>2. i > t => k \in S /\ k > t
    BY <2>1 DEF IsPred
  <2>3. CASE k = 0 /\ \A j \in S : j >= i
    BY <1>2, <2>2, <2>3 DEF IsPred
  <2>4. CASE k \in S /\ k < i /\ \A j \in S : j < i => j <= k
    BY <1>2, <2>2, <2>4 DEF IsPred
  <2> QED
    BY <2>3, <2>4 DEF IsPred
<1> QED
  BY <1>1, <1>2

\* The neighbours of t itself.
LEMMA InsertSelf ==
  ASSUME NEW S, NEW T, NEW t, Positive(S), OneMore(S, t, T),
         NEW p, IsPred(S, t, p), NEW n, IsSucc(S, t, n)
  PROVE  IsPred(T, t, p) /\ IsSucc(T, t, n)
<1>1. IsPred(T, t, p)
  BY DEF IsPred, Positive, OneMore
<1>2. IsSucc(T, t, n)
  BY DEF IsSucc, Positive, OneMore
<1> QED
  BY <1>1, <1>2

\* The ends when t is put in between p and n.
LEMMA InsertFirst ==
  ASSUME NEW S, NEW T, NEW t, Positive(S), OneMore(S, t, T),
         NEW p, IsPred(S, t, p), NEW f, IsFirst(S, f)
  PROVE  IsFirst(T, IF p = 0 THEN t ELSE f)
<1> USE DEF Positive, OneMore
<1>1. CASE p = 0
  BY <1>1 DEF IsPred, IsFirst
<1>2. CASE p # 0
  <2>1. p \in S /\ p < t
    BY <1>2 DEF IsPred
  <2>2. f \in S /\ \A j \in S : j >= f
    BY <2>1 DEF IsFirst
  <2> QED
    BY <1>2, <2>1, <2>2 DEF IsFirst
<1> QED
  BY <1>1, <1>2

\* t put in with nothing after it becomes the last.
LEMMA InsertLast ==
  ASSUME NEW S, NEW T, NEW t, Positive(S), OneMore(S, t, T),
         NEW n, IsSucc(S, t, n), NEW l, IsLast(S, l)
  PROVE  IsLast(T, IF n = 0 THEN t ELSE l)
<1> USE DEF Positive, OneMore
<1>1. CASE n = 0
  BY <1>1 DEF IsSucc, IsLast
<1>2. CASE n # 0
  <2>1. n \in S /\ n > t
    BY <1>2 DEF IsSucc
  <2>2. l \in S /\ \A j \in S : j <= l
    BY <2>1 DEF IsLast
  <2> QED
    BY <1>2, <2>1, <2>2 DEF IsLast
<1> QED
  BY <1>1, <1>2

\* The successor of i when t, between p and n, is taken out.
LEMMA RemoveSucc ==
  ASSUME NEW S, NEW T, NEW t, Positive(T), OneMore(S, t, T),
         NEW p, IsPred(T, t, p), NEW n, IsSucc(T, t, n),
         NEW i \in S, NEW k, IsSucc(T, i, k)
  PROVE  IsSucc(S, i, IF i = p THEN n ELSE k)
<1>a. /\ Positive(S) /\ Positive(T) /\ t \in Nat /\ t > 0
      /\ \A j \in T : j = t \/ j \in S
      /\ \A j \in S : j \in T /\ j # t
  BY DEF Positive, OneMore
<1> USE <1>a DEF Positive
<1>1. CASE i = p
  <2>1. i < t /\ \A j \in S : j > i => j > t
    BY <1>1 DEF IsPred
  <2> QED
    BY <1>1, <2>1 DEF IsSucc
<1>2. CASE i # p
  <2>1. k # t
    <3> SUFFICES ASSUME k = t PROVE FALSE
      OBVIOUS
    <3>1. i < t /\ \A j \in T : j > i => j >= t
      BY DEF IsSucc
    <3>2. p \in T /\ p > i /\ p < t
      BY <1>2, <3>1 DEF IsPred
    <3> QED
      BY <3>1, <3>2
  <2>2. CASE k = 0 /\ \A j \in T : j <= i
    BY <1>2, <2>2 DEF IsSucc
  <2>3. CASE k \in T /\ k > i /\ \A j \in T : j > i => j >= k
    BY <1>2, <2>1, <2>3 DEF IsSucc
  <2> QED
    BY <2>2, <2>3 DEF IsSucc
<1> QED
  BY <1>1, <1>2

\* The predecessor of i when t is taken out from between p and n.
LEMMA RemovePred ==
  ASSUME NEW S, NEW T, NEW t, Positive(T), OneMore(S, t, T),
         NEW p, IsPred(T, t, p), NEW n, IsSucc(T, t, n),
         NEW i \in S, NEW k, IsPred(T, i, k)
  PROVE  IsPred(S, i, IF i = n THEN p ELSE k)
<1>a. /\ Positive(S) /\ Positive(T) /\ t \in Nat /\ t > 0
      /\ \A j \in T : j = t \/ j \in S
      /\ \A j \in S : j \in T /\ j # t
  BY DEF Positive, OneMore
<1> USE <1>a DEF Positive
<1>1. CASE i = n
  <2>1. i > t /\ \A j \in S : j < i => j < t
    BY <1>1 DEF IsSucc
  <2> QED
    BY <1>1, <2>1 DEF IsPred
<1>2. CASE i # n
  <2>1. k # t
    BY <1>2 DEF IsPred, IsSucc
  <2> QED
    BY <1>2, <2>1 DEF IsPred
<1> QED
  BY <1>1, <1>2

\* The first when t is taken out: its successor, if t was the first.
LEMMA RemoveFirst ==
  ASSUME NEW S, NEW T, NEW t, Positive(T), OneMore(S, t, T),
         NEW p, IsPred(T, t, p), NEW n, IsSucc(T, t, n), NEW f, IsFirst(T, f)
  PROVE  IsFirst(S, IF p = 0 THEN n ELSE f)
<1>a. /\ Positive(S) /\ Positive(T) /\ t \in Nat /\ t > 0
      /\ \A j \in T : j = t \/ j \in S
      /\ \A j \in S : j \in T /\ j # t
  BY DEF Positive, OneMore
<1> USE <1>a DEF Positive
<1>1. CASE p = 0
  BY <1>1 DEF IsPred, IsSucc, IsFirst
<1>2. CASE p # 0
  <2>1. p \in S /\ p < t
    BY <1>2 DEF IsPred
  <2>2. f \in T /\ f # t /\ \A j \in T : j >= f
    BY <2>1 DEF IsFirst
  <2> QED
    BY <1>2, <2>1, <2>2 DEF IsFirst
<1> QED
  BY <1>1, <1>2

\* The last when t is taken out: its predecessor, if t was the last.
LEMMA RemoveLast ==
  ASSUME NEW S, NEW T, NEW t, Positive(T), OneMore(S, t, T),
         NEW p, IsPred(T, t, p), NEW n, IsSucc(T, t, n), NEW l, IsLast(T, l)
  PROVE  IsLast(S, IF n = 0 THEN p ELSE l)
<1>a. /\ Positive(S) /\ Positive(T) /\ t \in Nat /\ t > 0
      /\ \A j \in T : j = t \/ j \in S
      /\ \A j \in S : j \in T /\ j # t
  BY DEF Positive, OneMore
<1> USE <1>a DEF Positive
<1>1. CASE n = 0
  BY <1>1 DEF IsPred, IsSucc, IsLast
<1>2. CASE n # 0
  <2>1. n \in S /\ n > t
    BY <1>2 DEF IsSucc
  <2>2. l \in T /\ l # t /\ \A j \in T : j <= l
    BY <2>1 DEF IsLast
  <2> QED
    BY <1>2, <2>1, <2>2 DEF IsLast
<1> QED
  BY <1>1, <1>2

-----------------------------------------------------------------------------
(* The fields of a meeting and of its chain blocks. *)

\* The types of the superblock, of the blocks and of the transactions file.
LEMMA MtgFields ==
  ASSUME NEW m, MtgType(m)
  PROVE  /\ m.first \in Nat /\ m.last \in Nat /\ m.highest \in Nat
         /\ m.highest_chain \in Nat /\ m.created \in BOOLEAN /\ m.highest_trn_addr \in Nat
         /\ m.blk \in [Trns(m) -> ChainBlk] /\ m.trns \in Seq(TrnHdr)
  BY DEF MtgType, Trns

\* The types of the fields of one block that read_chain can read.
LEMMA BlkFields ==
  ASSUME NEW m, MtgType(m), NEW i \in Trns(m)
  PROVE  LET b == m.blk[i] IN
         /\ b \in ChainBlk
         /\ b.prev \in Nat /\ b.next \in Nat /\ b.pref \in Int /\ b.nref \in Nat
         /\ b.trn_chain \in Int /\ b.trn_addr \in Nat /\ b.deleted \in BOOLEAN
         /\ b.flags \in TrnFlags /\ b.chain_fref \in Nat /\ b.chain_lref \in Nat
<1>1. m.blk[i] \in ChainBlk
  BY MtgFields
<1> QED
  BY <1>1 DEF ChainBlk

\* Transactions are numbered from 1, in the meeting and in each chain.
LEMMA LivePositive ==
  ASSUME NEW m, MtgType(m)
  PROVE  /\ Positive(Live(m))
         /\ \A c : Positive(ChainMembers(m, c))
  BY MtgFields DEF Positive, Live, ChainMembers, Trns

-----------------------------------------------------------------------------
(* delete_trn *)

\* delete_trn, field by field, for block i.
LEMMA UnlinkedFields ==
  ASSUME NEW m, MtgType(m), NEW t \in Trns(m), NEW i \in Trns(m)
  PROVE  LET cb == m.blk[t]
             b == m.blk[i]
             d == UnlinkedBlk(m, t, i)
         IN  /\ d.deleted = ((i = t) \/ b.deleted)
             /\ d.next = IF i = cb.prev THEN cb.next ELSE b.next
             /\ d.prev = IF i = cb.next THEN cb.prev ELSE b.prev
             /\ d.nref = IF i = cb.pref THEN cb.nref ELSE b.nref
             /\ d.pref = IF i = cb.nref THEN cb.pref ELSE b.pref
             /\ d.chain_lref = IF i = cb.trn_chain /\ cb.nref = 0 THEN cb.pref ELSE b.chain_lref
             /\ d.chain_fref = IF i = cb.trn_chain /\ cb.pref = 0 THEN cb.nref ELSE b.chain_fref
             /\ d.trn_chain = b.trn_chain /\ d.trn_addr = b.trn_addr /\ d.flags = b.flags
<1>1. m.blk[i] \in ChainBlk
  BY BlkFields
<1> QED
  BY <1>1 DEF ChainBlk, UnlinkedBlk

\* delete_trn, field by field, for the superblock.
LEMMA DeleteFields ==
  ASSUME NEW m, MtgType(m), NEW t \in Trns(m)
  PROVE  LET r == DeleteTrn(m, t)
         IN  /\ r.blk = [i \in Trns(m) |-> UnlinkedBlk(m, t, i)]
             /\ \A i \in Trns(m) : r.blk[i] = UnlinkedBlk(m, t, i)
             /\ r.highest = m.highest /\ r.highest_chain = m.highest_chain
             /\ r.first = IF m.blk[t].prev = 0 THEN m.blk[t].next ELSE m.first
             /\ r.last = IF m.blk[t].next = 0 THEN m.blk[t].prev ELSE m.last
             /\ r.created = m.created /\ r.highest_trn_addr = m.highest_trn_addr
             /\ r.trns = m.trns
  BY DEF MtgType, DeleteTrn

\* delete_trn keeps the types, when it unlinks a transaction from a real chain.
LEMMA DeleteType ==
  ASSUME NEW m, MtgType(m), NEW t \in Trns(m), m.blk[t].pref \in Nat
  PROVE  MtgType(DeleteTrn(m, t))
<1> DEFINE r == DeleteTrn(m, t)
<1>1. \A i \in Trns(m) : UnlinkedBlk(m, t, i) \in ChainBlk
  <2> TAKE i \in Trns(m)
  <2> DEFINE cb == m.blk[t]
             del == (i = t) \/ m.blk[i].deleted
             next == IF i = cb.prev THEN cb.next ELSE m.blk[i].next
             prev == IF i = cb.next THEN cb.prev ELSE m.blk[i].prev
             nref == IF i = cb.pref THEN cb.nref ELSE m.blk[i].nref
             pref == IF i = cb.nref THEN cb.pref ELSE m.blk[i].pref
             lref == IF i = cb.trn_chain /\ cb.nref = 0 THEN cb.pref ELSE m.blk[i].chain_lref
             fref == IF i = cb.trn_chain /\ cb.pref = 0 THEN cb.nref ELSE m.blk[i].chain_fref
  <2>1. /\ m.blk[i] \in ChainBlk /\ del \in BOOLEAN /\ next \in Nat /\ prev \in Nat
        /\ nref \in Nat /\ pref \in Int /\ lref \in Nat /\ fref \in Nat
    BY BlkFields
  <2>2. UnlinkedBlk(m, t, i) =
          [m.blk[i] EXCEPT !.deleted = del, !.next = next, !.prev = prev, !.nref = nref,
                           !.pref = pref, !.chain_lref = lref, !.chain_fref = fref]
    BY DEF UnlinkedBlk
  <2> HIDE DEF del, next, prev, nref, pref, lref, fref
  <2> QED
    BY <2>1, <2>2 DEF ChainBlk
<1>2. r.blk \in [1 .. m.highest -> ChainBlk] /\ r.first \in Nat /\ r.last \in Nat
  <2>1. r.blk = [i \in Trns(m) |-> UnlinkedBlk(m, t, i)]
    BY DeleteFields
  <2>2. r.blk \in [1 .. m.highest -> ChainBlk]
    BY <1>1, <2>1 DEF Trns
  <2>3. m.blk[t].prev \in Nat /\ m.blk[t].next \in Nat /\ m.first \in Nat /\ m.last \in Nat
    BY BlkFields, MtgFields
  <2>4. /\ r.first = IF m.blk[t].prev = 0 THEN m.blk[t].next ELSE m.first
        /\ r.last = IF m.blk[t].next = 0 THEN m.blk[t].prev ELSE m.last
    BY DeleteFields
  <2> QED
    BY <2>2, <2>3, <2>4
<1>3. r \in [first : Nat, last : Nat, highest : Nat, highest_chain : Nat,
             created : BOOLEAN, highest_trn_addr : Nat,
             blk : [1 .. m.highest -> ChainBlk], trns : Seq(TrnHdr)]
  BY <1>2, DeleteFields, MtgFields DEF DeleteTrn, MtgType
<1> QED
  BY <1>3, DeleteFields DEF MtgType

\* Deleting t takes it, and nothing else, out of the meeting and out of its chain.
LEMMA DeleteSets ==
  ASSUME NEW m, MtgType(m), NEW t, CanDelete(m, t)
  PROVE  LET r == DeleteTrn(m, t)
         IN  /\ Trns(r) = Trns(m)
             /\ OneMore(Live(r), t, Live(m))
             /\ OneMore(ChainMembers(r, m.blk[t].trn_chain), t, ChainMembers(m, m.blk[t].trn_chain))
             /\ \A c : c # m.blk[t].trn_chain => ChainMembers(r, c) = ChainMembers(m, c)
<1> DEFINE r == DeleteTrn(m, t)
<1>1. t \in Trns(m) /\ ~m.blk[t].deleted
  BY DEF CanDelete
<1>2. Trns(r) = Trns(m)
  BY <1>1, DeleteFields DEF Trns
<1>3. \A i \in Trns(m) : /\ r.blk[i].deleted = ((i = t) \/ m.blk[i].deleted)
                         /\ r.blk[i].trn_chain = m.blk[i].trn_chain
  <2> TAKE i \in Trns(m)
  <2>1. r.blk[i] = UnlinkedBlk(m, t, i)
    BY <1>1, DeleteFields
  <2> QED
    BY <1>1, <2>1, UnlinkedFields
<1>4. t \in Nat /\ t > 0
  BY <1>1, MtgFields DEF Trns
<1> HIDE DEF r
<1>5. OneMore(Live(r), t, Live(m))
  BY <1>1, <1>2, <1>3, <1>4 DEF Live, OneMore
<1>6. OneMore(ChainMembers(r, m.blk[t].trn_chain), t, ChainMembers(m, m.blk[t].trn_chain))
  BY <1>1, <1>2, <1>3, <1>4 DEF Live, ChainMembers, OneMore
<1>7. ASSUME NEW c, c # m.blk[t].trn_chain
      PROVE  ChainMembers(r, c) = ChainMembers(m, c)
  BY <1>1, <1>2, <1>3, <1>7 DEF Live, ChainMembers
<1> QED
  BY <1>2, <1>5, <1>6, <1>7 DEF r

\* delete_trn keeps the transactions of the meeting linked in order.
LEMMA DeleteMeetingLinked ==
  ASSUME NEW m, MtgType(m), NEW t, CanDelete(m, t), MeetingLinked(m)
  PROVE  MeetingLinked(DeleteTrn(m, t))
<1> DEFINE r == DeleteTrn(m, t)
           cb == m.blk[t]
<1>1. t \in Live(m) /\ t \in Trns(m)
  BY DEF CanDelete, Live
<1>2. Positive(Live(m)) /\ OneMore(Live(r), t, Live(m)) /\ Trns(r) = Trns(m)
  BY DeleteSets, LivePositive
<1>3. /\ IsPred(Live(m), t, cb.prev) /\ IsSucc(Live(m), t, cb.next)
      /\ IsFirst(Live(m), m.first) /\ IsLast(Live(m), m.last)
  BY <1>1 DEF MeetingLinked
<1>4. IsFirst(Live(r), r.first)
  <2>1. r.first = IF cb.prev = 0 THEN cb.next ELSE m.first
    BY <1>1, DeleteFields
  <2> HIDE DEF r, cb
  <2> QED
    BY <1>2, <1>3, <2>1, RemoveFirst
<1>5. IsLast(Live(r), r.last)
  <2>1. r.last = IF cb.next = 0 THEN cb.prev ELSE m.last
    BY <1>1, DeleteFields
  <2> HIDE DEF r, cb
  <2> QED
    BY <1>2, <1>3, <2>1, RemoveLast
<1>6. ASSUME NEW i \in Live(r)
      PROVE  IsSucc(Live(r), i, r.blk[i].next) /\ IsPred(Live(r), i, r.blk[i].prev)
  <2>1. i \in Live(m) /\ i \in Trns(m)
    BY <1>2, <1>6 DEF OneMore, Live
  <2>2. IsSucc(Live(m), i, m.blk[i].next) /\ IsPred(Live(m), i, m.blk[i].prev)
    BY <2>1 DEF MeetingLinked
  <2>3. /\ r.blk[i].next = IF i = cb.prev THEN cb.next ELSE m.blk[i].next
        /\ r.blk[i].prev = IF i = cb.next THEN cb.prev ELSE m.blk[i].prev
    <3>1. r.blk[i] = UnlinkedBlk(m, t, i)
      BY <1>1, <2>1, DeleteFields
    <3> QED
      BY <1>1, <2>1, <3>1, UnlinkedFields
  <2> HIDE DEF r, cb
  <2>4. IsSucc(Live(r), i, r.blk[i].next)
    BY <1>2, <1>3, <1>6, <2>2, <2>3, RemoveSucc
  <2>5. IsPred(Live(r), i, r.blk[i].prev)
    BY <1>2, <1>3, <1>6, <2>2, <2>3, RemovePred
  <2> QED
    BY <2>4, <2>5
<1> QED
  BY <1>4, <1>5, <1>6 DEF MeetingLinked

\* delete_trn keeps the transactions of every chain linked in order.
LEMMA DeleteChainsLinked ==
  ASSUME NEW m, MtgType(m), NEW t, CanDelete(m, t), ChainsLinked(m)
  PROVE  ChainsLinked(DeleteTrn(m, t))
<1> DEFINE r == DeleteTrn(m, t)
           cb == m.blk[t]
           M(c) == ChainMembers(m, c)
           R(c) == ChainMembers(r, c)
<1>1. t \in Live(m) /\ t \in Trns(m) /\ t \in M(cb.trn_chain)
  BY DEF CanDelete, Live, ChainMembers
<1>2. /\ \A c : Positive(M(c))
      /\ OneMore(R(cb.trn_chain), t, M(cb.trn_chain))
      /\ OneMore(Live(r), t, Live(m))
      /\ \A c : c # cb.trn_chain => R(c) = M(c)
      /\ Trns(r) = Trns(m)
  BY DeleteSets, LivePositive
<1>3. IsPred(M(cb.trn_chain), t, cb.pref) /\ IsSucc(M(cb.trn_chain), t, cb.nref)
  BY <1>1 DEF ChainsLinked
<1>4. ASSUME NEW c \in Trns(r)
      PROVE  IsFirst(R(c), r.blk[c].chain_fref) /\ IsLast(R(c), r.blk[c].chain_lref)
  <2>1. c \in Trns(m)
    BY <1>2, <1>4
  <2>2. IsFirst(M(c), m.blk[c].chain_fref) /\ IsLast(M(c), m.blk[c].chain_lref)
    BY <2>1 DEF ChainsLinked
  <2>3. /\ r.blk[c].chain_fref = IF c = cb.trn_chain /\ cb.pref = 0 THEN cb.nref
                                 ELSE m.blk[c].chain_fref
        /\ r.blk[c].chain_lref = IF c = cb.trn_chain /\ cb.nref = 0 THEN cb.pref
                                 ELSE m.blk[c].chain_lref
    <3>1. r.blk[c] = UnlinkedBlk(m, t, c)
      BY <1>1, <2>1, DeleteFields
    <3> QED
      BY <1>1, <2>1, <3>1, UnlinkedFields
  <2> HIDE DEF r, cb, M, R
  <2>4. CASE c = cb.trn_chain
    <3>1. IsFirst(R(c), r.blk[c].chain_fref)
      BY <1>2, <1>3, <2>2, <2>3, <2>4, RemoveFirst
    <3>2. IsLast(R(c), r.blk[c].chain_lref)
      BY <1>2, <1>3, <2>2, <2>3, <2>4, RemoveLast
    <3> QED
      BY <3>1, <3>2
  <2>5. CASE c # cb.trn_chain
    BY <1>2, <2>2, <2>3, <2>5
  <2> QED
    BY <2>4, <2>5
<1>5. ASSUME NEW i \in Live(r)
      PROVE  /\ IsSucc(R(r.blk[i].trn_chain), i, r.blk[i].nref)
             /\ IsPred(R(r.blk[i].trn_chain), i, r.blk[i].pref)
  <2> DEFINE c == m.blk[i].trn_chain
  <2>1. i \in Live(m) /\ i \in Trns(m) /\ i > 0 /\ i \in M(c)
    BY <1>2, <1>5, LivePositive DEF OneMore, Live, ChainMembers, Positive
  <2>2. IsSucc(M(c), i, m.blk[i].nref) /\ IsPred(M(c), i, m.blk[i].pref)
    BY <2>1 DEF ChainsLinked
  <2>3. /\ r.blk[i].nref = IF i = cb.pref THEN cb.nref ELSE m.blk[i].nref
        /\ r.blk[i].pref = IF i = cb.nref THEN cb.pref ELSE m.blk[i].pref
        /\ r.blk[i].trn_chain = c
    <3>1. r.blk[i] = UnlinkedBlk(m, t, i)
      BY <1>1, <2>1, DeleteFields
    <3> QED
      BY <1>1, <2>1, <3>1, UnlinkedFields
  <2>4. i \in R(c)
    BY <1>5, <2>3 DEF ChainMembers
  <2>5. c # cb.trn_chain => i \notin M(cb.trn_chain)
    BY DEF ChainMembers
  <2> HIDE DEF r, cb, c, M, R
  <2>6. CASE c = cb.trn_chain
    <3>1. IsSucc(R(c), i, r.blk[i].nref)
      BY <1>2, <1>3, <2>2, <2>3, <2>4, <2>6, RemoveSucc
    <3>2. IsPred(R(c), i, r.blk[i].pref)
      BY <1>2, <1>3, <2>2, <2>3, <2>4, <2>6, RemovePred
    <3> QED
      BY <2>3, <3>1, <3>2
  <2>7. CASE c # cb.trn_chain
    <3>1. i # cb.pref /\ i # cb.nref
      BY <1>3, <2>1, <2>5, <2>7 DEF IsPred, IsSucc
    <3> QED
      BY <1>2, <2>2, <2>3, <2>7, <3>1
  <2> QED
    BY <2>6, <2>7
<1> QED
  BY <1>4, <1>5 DEF ChainsLinked

\* delete_trn leaves chain numbers and stored transactions alone.
LEMMA DeleteChainNumbers ==
  ASSUME NEW m, MtgType(m), NEW t, CanDelete(m, t), ChainNumbers(m)
  PROVE  ChainNumbers(DeleteTrn(m, t)) /\ Stored(DeleteTrn(m, t)) = Stored(m)
<1> DEFINE r == DeleteTrn(m, t)
<1>1. t \in Trns(m)
  BY DEF CanDelete
<1>2. Trns(r) = Trns(m) /\ \A i \in Live(r) : i \in Live(m)
  BY DeleteSets DEF OneMore
<1>3. \A i \in Trns(m) : /\ r.blk[i].trn_chain = m.blk[i].trn_chain
                         /\ r.blk[i].trn_addr = m.blk[i].trn_addr
  <2> TAKE i \in Trns(m)
  <2>1. r.blk[i] = UnlinkedBlk(m, t, i)
    BY <1>1, DeleteFields
  <2> QED
    BY <1>1, <2>1, UnlinkedFields
<1>4. r.highest = m.highest /\ r.highest_chain = m.highest_chain
  BY <1>1, DeleteFields
<1> HIDE DEF r
<1>5. Stored(r) = Stored(m)
  BY <1>2, <1>3 DEF Stored
<1>6. ChainNumbers(r)
  BY <1>2, <1>3, <1>4, <1>5 DEF ChainNumbers, Stored
<1> QED
  BY <1>5, <1>6 DEF r

-----------------------------------------------------------------------------
(* retrieve_trn, once it has found the neighbours nb of t *)

Neighbours(m, t, nb) ==
    /\ nb.prev \in Nat /\ nb.next \in Nat /\ nb.pref \in Nat /\ nb.nref \in Nat
    /\ IsPred(Live(m), t, nb.prev)
    /\ IsSucc(Live(m), t, nb.next)
    /\ IsPred(ChainMembers(m, m.blk[t].trn_chain), t, nb.pref)
    /\ IsSucc(ChainMembers(m, m.blk[t].trn_chain), t, nb.nref)

\* retrieve_trn, field by field, for block i.
LEMMA RelinkedFields ==
  ASSUME NEW m, MtgType(m), NEW t \in Trns(m), NEW nb, NEW i \in Trns(m)
  PROVE  LET c == m.blk[t].trn_chain
             b == m.blk[i]
             d == RelinkedBlk(m, t, nb, i)
         IN  /\ d.deleted = ((i # t) /\ b.deleted)
             /\ d.next = IF i = t THEN nb.next ELSE IF i = nb.prev THEN t ELSE b.next
             /\ d.prev = IF i = t THEN nb.prev ELSE IF i = nb.next THEN t ELSE b.prev
             /\ d.nref = IF i = t THEN nb.nref ELSE IF i = nb.pref THEN t ELSE b.nref
             /\ d.pref = IF i = t THEN nb.pref ELSE IF i = nb.nref THEN t ELSE b.pref
             /\ d.chain_lref = IF i = c /\ nb.nref = 0 THEN t ELSE b.chain_lref
             /\ d.chain_fref = IF i = c /\ nb.pref = 0 THEN t ELSE b.chain_fref
             /\ d.trn_chain = b.trn_chain /\ d.trn_addr = b.trn_addr /\ d.flags = b.flags
<1>1. m.blk[i] \in ChainBlk
  BY BlkFields
<1> QED
  BY <1>1 DEF ChainBlk, RelinkedBlk

\* retrieve_trn, field by field, for the superblock.
LEMMA RelinkFields ==
  ASSUME NEW m, MtgType(m), NEW t \in Trns(m), NEW nb
  PROVE  LET r == RelinkTrn(m, t, nb)
         IN  /\ r.blk = [i \in Trns(m) |-> RelinkedBlk(m, t, nb, i)]
             /\ \A i \in Trns(m) : r.blk[i] = RelinkedBlk(m, t, nb, i)
             /\ r.highest = m.highest /\ r.highest_chain = m.highest_chain
             /\ r.first = IF nb.prev = 0 THEN t ELSE m.first
             /\ r.last = IF nb.next = 0 THEN t ELSE m.last
             /\ r.created = m.created /\ r.highest_trn_addr = m.highest_trn_addr
             /\ r.trns = m.trns
  BY DEF MtgType, RelinkTrn

\* retrieve_trn: the block of each number is RelinkedBlk of it.
LEMMA RelinkBlk ==
  ASSUME NEW m, MtgType(m), NEW t \in Trns(m), NEW nb, NEW i \in Trns(m)
  PROVE  RelinkTrn(m, t, nb).blk[i] = RelinkedBlk(m, t, nb, i)
<1>1. RelinkTrn(m, t, nb).blk = [k \in Trns(m) |-> RelinkedBlk(m, t, nb, k)]
  BY RelinkFields
<1> QED
  BY <1>1

\* retrieve_trn keeps the types, once it has found the neighbours.
LEMMA RelinkType ==
  ASSUME NEW m, MtgType(m), NEW t \in Trns(m), NEW nb, Neighbours(m, t, nb)
  PROVE  MtgType(RelinkTrn(m, t, nb))
<1> DEFINE r == RelinkTrn(m, t, nb)
<1>a. t \in Nat /\ nb.prev \in Nat /\ nb.next \in Nat /\ nb.pref \in Nat /\ nb.nref \in Nat
  BY MtgFields DEF Trns, Neighbours
<1>1. \A i \in Trns(m) : RelinkedBlk(m, t, nb, i) \in ChainBlk
  <2> TAKE i \in Trns(m)
  <2> DEFINE c == m.blk[t].trn_chain
             del == (i # t) /\ m.blk[i].deleted
             next == IF i = t THEN nb.next ELSE IF i = nb.prev THEN t ELSE m.blk[i].next
             prev == IF i = t THEN nb.prev ELSE IF i = nb.next THEN t ELSE m.blk[i].prev
             nref == IF i = t THEN nb.nref ELSE IF i = nb.pref THEN t ELSE m.blk[i].nref
             pref == IF i = t THEN nb.pref ELSE IF i = nb.nref THEN t ELSE m.blk[i].pref
             lref == IF i = c /\ nb.nref = 0 THEN t ELSE m.blk[i].chain_lref
             fref == IF i = c /\ nb.pref = 0 THEN t ELSE m.blk[i].chain_fref
  <2>1. /\ m.blk[i] \in ChainBlk /\ del \in BOOLEAN /\ next \in Nat /\ prev \in Nat
        /\ nref \in Nat /\ pref \in Int /\ lref \in Nat /\ fref \in Nat
    BY <1>a, BlkFields
  <2>2. RelinkedBlk(m, t, nb, i) =
          [m.blk[i] EXCEPT !.deleted = del, !.next = next, !.prev = prev, !.nref = nref,
                           !.pref = pref, !.chain_lref = lref, !.chain_fref = fref]
    BY DEF RelinkedBlk
  <2> HIDE DEF del, next, prev, nref, pref, lref, fref
  <2> QED
    BY <2>1, <2>2 DEF ChainBlk
<1>2. r.blk \in [1 .. m.highest -> ChainBlk] /\ r.first \in Nat /\ r.last \in Nat
  <2>1. r.blk = [i \in Trns(m) |-> RelinkedBlk(m, t, nb, i)]
    BY RelinkFields
  <2>2. r.blk \in [1 .. m.highest -> ChainBlk]
    BY <1>1, <2>1 DEF Trns
  <2>3. m.first \in Nat /\ m.last \in Nat
    BY MtgFields
  <2>4. /\ r.first = IF nb.prev = 0 THEN t ELSE m.first
        /\ r.last = IF nb.next = 0 THEN t ELSE m.last
    BY RelinkFields
  <2> QED
    BY <1>a, <2>2, <2>3, <2>4
<1>3. r \in [first : Nat, last : Nat, highest : Nat, highest_chain : Nat,
             created : BOOLEAN, highest_trn_addr : Nat,
             blk : [1 .. m.highest -> ChainBlk], trns : Seq(TrnHdr)]
  BY <1>2, RelinkFields, MtgFields DEF RelinkTrn, MtgType
<1>4. r.highest = m.highest
  BY RelinkFields
<1> QED
  BY <1>3, <1>4 DEF MtgType

\* Retrieving t puts it, and nothing else, back into the meeting and its chain.
LEMMA RelinkSets ==
  ASSUME NEW m, MtgType(m), NEW t, CanRetrieve(m, t), NEW nb
  PROVE  LET r == RelinkTrn(m, t, nb)
         IN  /\ Trns(r) = Trns(m)
             /\ OneMore(Live(m), t, Live(r))
             /\ OneMore(ChainMembers(m, m.blk[t].trn_chain), t, ChainMembers(r, m.blk[t].trn_chain))
             /\ \A c : c # m.blk[t].trn_chain => ChainMembers(r, c) = ChainMembers(m, c)
<1> DEFINE r == RelinkTrn(m, t, nb)
<1>1. t \in Trns(m) /\ m.blk[t].deleted
  BY DEF CanRetrieve
<1>2. Trns(r) = Trns(m)
  BY <1>1, RelinkFields DEF Trns
<1>3. \A i \in Trns(m) : /\ r.blk[i].deleted = ((i # t) /\ m.blk[i].deleted)
                         /\ r.blk[i].trn_chain = m.blk[i].trn_chain
  <2> TAKE i \in Trns(m)
  <2>1. r.blk[i] = RelinkedBlk(m, t, nb, i)
    BY <1>1, RelinkBlk
  <2> QED
    BY <1>1, <2>1, RelinkedFields
<1>4. t \in Nat /\ t > 0
  BY <1>1, MtgFields DEF Trns
<1> HIDE DEF r
<1>5. OneMore(Live(m), t, Live(r))
  BY <1>1, <1>2, <1>3, <1>4 DEF Live, OneMore
<1>6. OneMore(ChainMembers(m, m.blk[t].trn_chain), t, ChainMembers(r, m.blk[t].trn_chain))
  BY <1>1, <1>2, <1>3, <1>4 DEF Live, ChainMembers, OneMore
<1>7. ASSUME NEW c, c # m.blk[t].trn_chain
      PROVE  ChainMembers(r, c) = ChainMembers(m, c)
  BY <1>1, <1>2, <1>3, <1>7 DEF Live, ChainMembers
<1> QED
  BY <1>2, <1>5, <1>6, <1>7 DEF r

\* retrieve_trn keeps the transactions of the meeting linked in order.
LEMMA RelinkMeetingLinked ==
  ASSUME NEW m, MtgType(m), NEW t, CanRetrieve(m, t), NEW nb, Neighbours(m, t, nb),
         MeetingLinked(m)
  PROVE  MeetingLinked(RelinkTrn(m, t, nb))
<1> DEFINE r == RelinkTrn(m, t, nb)
<1>1. t \in Trns(m)
  BY DEF CanRetrieve
<1>2. Positive(Live(m)) /\ OneMore(Live(m), t, Live(r)) /\ Trns(r) = Trns(m)
  BY RelinkSets, LivePositive
<1>3. /\ IsPred(Live(m), t, nb.prev) /\ IsSucc(Live(m), t, nb.next)
      /\ IsFirst(Live(m), m.first) /\ IsLast(Live(m), m.last)
  BY DEF MeetingLinked, Neighbours
<1>4. IsFirst(Live(r), r.first)
  <2>1. r.first = IF nb.prev = 0 THEN t ELSE m.first
    BY <1>1, RelinkFields
  <2> HIDE DEF r
  <2> QED
    BY <1>2, <1>3, <2>1, InsertFirst
<1>5. IsLast(Live(r), r.last)
  <2>1. r.last = IF nb.next = 0 THEN t ELSE m.last
    BY <1>1, RelinkFields
  <2> HIDE DEF r
  <2> QED
    BY <1>2, <1>3, <2>1, InsertLast
<1>6. ASSUME NEW i \in Live(r)
      PROVE  IsSucc(Live(r), i, r.blk[i].next) /\ IsPred(Live(r), i, r.blk[i].prev)
  <2>1. i \in Trns(m) /\ (i = t \/ i \in Live(m)) /\ t \notin Live(m)
    BY <1>2, <1>6 DEF OneMore, Live
  <2>2. /\ r.blk[i].next = IF i = t THEN nb.next ELSE IF i = nb.prev THEN t ELSE m.blk[i].next
        /\ r.blk[i].prev = IF i = t THEN nb.prev ELSE IF i = nb.next THEN t ELSE m.blk[i].prev
    <3>1. r.blk[i] = RelinkedBlk(m, t, nb, i)
      BY <1>1, <2>1, RelinkBlk
    <3> QED
      BY <1>1, <2>1, <3>1, RelinkedFields
  <2> HIDE DEF r
  <2>3. CASE i = t
    BY <1>2, <1>3, <2>2, <2>3, InsertSelf
  <2>4. CASE i # t
    <3>1. i \in Live(m)
      BY <2>1, <2>4
    <3>2. IsSucc(Live(m), i, m.blk[i].next) /\ IsPred(Live(m), i, m.blk[i].prev)
      BY <3>1 DEF MeetingLinked
    <3>3. IsSucc(Live(r), i, r.blk[i].next)
      BY <1>2, <1>3, <2>2, <2>4, <3>1, <3>2, InsertSucc
    <3>4. IsPred(Live(r), i, r.blk[i].prev)
      BY <1>2, <1>3, <2>2, <2>4, <3>1, <3>2, InsertPred
    <3> QED
      BY <3>3, <3>4
  <2> QED
    BY <2>3, <2>4
<1> QED
  BY <1>4, <1>5, <1>6 DEF MeetingLinked

\* retrieve_trn keeps the transactions of every chain linked in order.
LEMMA RelinkChainsLinked ==
  ASSUME NEW m, MtgType(m), NEW t, CanRetrieve(m, t), NEW nb, Neighbours(m, t, nb),
         ChainsLinked(m)
  PROVE  ChainsLinked(RelinkTrn(m, t, nb))
<1> DEFINE r == RelinkTrn(m, t, nb)
           ct == m.blk[t].trn_chain
           M(c) == ChainMembers(m, c)
           R(c) == ChainMembers(r, c)
<1>1. t \in Trns(m)
  BY DEF CanRetrieve
<1>2. /\ \A c : Positive(M(c))
      /\ OneMore(M(ct), t, R(ct))
      /\ OneMore(Live(m), t, Live(r))
      /\ \A c : c # ct => R(c) = M(c)
      /\ Trns(r) = Trns(m)
  BY RelinkSets, LivePositive
<1>3. IsPred(M(ct), t, nb.pref) /\ IsSucc(M(ct), t, nb.nref)
  BY DEF Neighbours
<1>4. ASSUME NEW c \in Trns(r)
      PROVE  IsFirst(R(c), r.blk[c].chain_fref) /\ IsLast(R(c), r.blk[c].chain_lref)
  <2>1. c \in Trns(m)
    BY <1>2, <1>4
  <2>2. IsFirst(M(c), m.blk[c].chain_fref) /\ IsLast(M(c), m.blk[c].chain_lref)
    BY <2>1 DEF ChainsLinked
  <2>3. /\ r.blk[c].chain_fref = IF c = ct /\ nb.pref = 0 THEN t ELSE m.blk[c].chain_fref
        /\ r.blk[c].chain_lref = IF c = ct /\ nb.nref = 0 THEN t ELSE m.blk[c].chain_lref
    <3>1. r.blk[c] = RelinkedBlk(m, t, nb, c)
      BY <1>1, <2>1, RelinkBlk
    <3> QED
      BY <1>1, <2>1, <3>1, RelinkedFields
  <2> HIDE DEF r, ct, M, R
  <2>4. CASE c = ct
    <3>1. IsFirst(R(c), r.blk[c].chain_fref)
      BY <1>2, <1>3, <2>2, <2>3, <2>4, InsertFirst
    <3>2. IsLast(R(c), r.blk[c].chain_lref)
      BY <1>2, <1>3, <2>2, <2>3, <2>4, InsertLast
    <3> QED
      BY <3>1, <3>2
  <2>5. CASE c # ct
    BY <1>2, <2>2, <2>3, <2>5
  <2> QED
    BY <2>4, <2>5
<1>5. ASSUME NEW i \in Live(r)
      PROVE  /\ IsSucc(R(r.blk[i].trn_chain), i, r.blk[i].nref)
             /\ IsPred(R(r.blk[i].trn_chain), i, r.blk[i].pref)
  <2> DEFINE c == m.blk[i].trn_chain
  <2>1. i \in Trns(m) /\ i > 0 /\ (i = t \/ i \in Live(m))
    <3>1. i \in Trns(m) /\ (i = t \/ i \in Live(m))
      BY <1>2, <1>5 DEF OneMore, Live
    <3> QED
      BY <3>1, MtgFields DEF Trns
  <2>2. i # t => IsSucc(M(c), i, m.blk[i].nref) /\ IsPred(M(c), i, m.blk[i].pref)
    BY <2>1 DEF ChainsLinked
  <2>3. /\ r.blk[i].nref = IF i = t THEN nb.nref ELSE IF i = nb.pref THEN t ELSE m.blk[i].nref
        /\ r.blk[i].pref = IF i = t THEN nb.pref ELSE IF i = nb.nref THEN t ELSE m.blk[i].pref
        /\ r.blk[i].trn_chain = c
    <3>1. r.blk[i] = RelinkedBlk(m, t, nb, i)
      BY <1>1, <2>1, RelinkBlk
    <3> QED
      BY <1>1, <2>1, <3>1, RelinkedFields
  <2>4. i # t => i \in M(c)
    BY <2>1 DEF ChainMembers
  <2>5. c # ct => i \notin M(ct)
    BY DEF ChainMembers
  <2>6. i = t => c = ct
    OBVIOUS
  <2> HIDE DEF r, ct, c, M, R
  <2>7. CASE i = t
    BY <1>2, <1>3, <2>3, <2>6, <2>7, InsertSelf
  <2>8. CASE i # t /\ c = ct
    <3>1. IsSucc(R(c), i, r.blk[i].nref)
      BY <1>2, <1>3, <2>2, <2>3, <2>4, <2>8, InsertSucc
    <3>2. IsPred(R(c), i, r.blk[i].pref)
      BY <1>2, <1>3, <2>2, <2>3, <2>4, <2>8, InsertPred
    <3> QED
      BY <2>3, <3>1, <3>2
  <2>9. CASE i # t /\ c # ct
    <3>1. i # nb.pref /\ i # nb.nref
      BY <1>3, <2>1, <2>5, <2>9 DEF IsPred, IsSucc
    <3> QED
      BY <1>2, <2>2, <2>3, <2>9, <3>1
  <2> QED
    BY <2>7, <2>8, <2>9
<1> QED
  BY <1>4, <1>5 DEF ChainsLinked

\* retrieve_trn leaves chain numbers and stored transactions alone.
LEMMA RelinkChainNumbers ==
  ASSUME NEW m, MtgType(m), NEW t, CanRetrieve(m, t), NEW nb, ChainNumbers(m)
  PROVE  ChainNumbers(RelinkTrn(m, t, nb)) /\ Stored(RelinkTrn(m, t, nb)) = Stored(m)
<1> DEFINE r == RelinkTrn(m, t, nb)
<1>1. t \in Trns(m) /\ t \in Stored(m)
  BY DEF CanRetrieve, Stored
<1>2. Trns(r) = Trns(m) /\ \A i \in Live(r) : i = t \/ i \in Live(m)
  BY RelinkSets DEF OneMore
<1>3. \A i \in Trns(m) : /\ r.blk[i].trn_chain = m.blk[i].trn_chain
                         /\ r.blk[i].trn_addr = m.blk[i].trn_addr
  <2> TAKE i \in Trns(m)
  <2>1. r.blk[i] = RelinkedBlk(m, t, nb, i)
    BY <1>1, RelinkBlk
  <2> QED
    BY <1>1, <2>1, RelinkedFields
<1>4. r.highest = m.highest /\ r.highest_chain = m.highest_chain
  BY <1>1, RelinkFields
<1> HIDE DEF r
<1>5. Stored(r) = Stored(m)
  BY <1>2, <1>3 DEF Stored
<1>6. ChainNumbers(r)
  BY <1>1, <1>2, <1>3, <1>4, <1>5 DEF ChainNumbers, Stored
<1> QED
  BY <1>5, <1>6 DEF r

-----------------------------------------------------------------------------
(* add_trn_priv *)

\* The chain a new transaction joins, and the last transaction in it.
LEMMA AddChainFacts ==
  ASSUME NEW m, MtgType(m), NEW reply \in Nat, CanReply(m, reply), ChainNumbers(m),
         ChainsLinked(m)
  PROVE  /\ AddChain(m, reply) \in 1 .. m.highest + 1
         /\ AddPref(m, reply) \in Nat
         /\ IsLast(ChainMembers(m, AddChain(m, reply)), AddPref(m, reply))
         /\ reply # 0 => AddChain(m, reply) \in Trns(m) /\ AddPref(m, reply) # 0
<1>1. m.highest \in Nat /\ m.highest_chain \in Nat /\ m.highest_chain <= m.highest
  BY MtgFields DEF ChainNumbers
<1>2. CASE reply = 0
  <2>1. AddChain(m, reply) = m.highest_chain + 1 /\ AddPref(m, reply) = 0
    BY <1>2 DEF AddChain, AddPref
  <2>2. \A i \in Live(m) : m.blk[i].trn_chain \in 1 .. m.highest_chain
    BY DEF ChainNumbers
  <2>3. ChainMembers(m, m.highest_chain + 1) = {}
    BY <1>1, <2>2 DEF ChainMembers
  <2> QED
    BY <1>1, <1>2, <2>1, <2>3 DEF IsLast
<1>3. CASE reply # 0
  <2>1. reply \in Live(m)
    BY <1>3 DEF CanReply
  <2>2. m.blk[reply].trn_chain \in 1 .. m.highest_chain
    BY <2>1 DEF ChainNumbers
  <2>3. AddChain(m, reply) = m.blk[reply].trn_chain /\ AddChain(m, reply) \in Trns(m)
    BY <1>1, <1>3, <2>2 DEF AddChain, Trns
  <2>4. AddPref(m, reply) = m.blk[AddChain(m, reply)].chain_lref
    BY <1>3 DEF AddPref
  <2>5. AddPref(m, reply) \in Nat
    BY <2>3, <2>4, BlkFields
  <2>6. IsLast(ChainMembers(m, AddChain(m, reply)), AddPref(m, reply))
    BY <2>3, <2>4 DEF ChainsLinked
  <2>7. reply \in ChainMembers(m, AddChain(m, reply))
    BY <2>1, <2>3 DEF ChainMembers
  <2>8. AddPref(m, reply) # 0
    BY <2>6, <2>7, LivePositive DEF IsLast, Positive
  <2> QED
    BY <1>1, <2>3, <2>5, <2>6, <2>8 DEF Trns
<1> QED
  BY <1>2, <1>3

\* add_trn, field by field, for the superblock and the transactions file.
LEMMA AddFields ==
  ASSUME NEW m, MtgType(m), NEW reply, NEW flags
  PROVE  LET r == AddTrn(m, reply, flags)
         IN  /\ r.blk = [i \in 1 .. m.highest + 1 |-> AddedBlk(m, reply, flags, i)]
             /\ r.highest = m.highest + 1
             /\ r.highest_chain = IF reply = 0 THEN AddChain(m, reply) ELSE m.highest_chain
             /\ r.first = IF m.first = 0 THEN m.highest + 1 ELSE m.first
             /\ r.last = m.highest + 1
             /\ r.created = m.created /\ r.highest_trn_addr = Len(m.trns) + 1
             /\ r.trns = Append(m.trns, AddHdr(m, reply))
  BY DEF MtgType, AddTrn

\* An old block after the add.
LEMMA AddOldBlk ==
  ASSUME NEW m, MtgType(m), NEW reply, NEW flags, NEW i \in Trns(m)
  PROVE  LET n == m.highest + 1
             b == m.blk[i]
             d == AddTrn(m, reply, flags).blk[i]
         IN  /\ d.deleted = b.deleted /\ d.trn_chain = b.trn_chain /\ d.trn_addr = b.trn_addr
             /\ d.prev = b.prev /\ d.pref = b.pref
             /\ d.next = IF i = m.last THEN n ELSE b.next
             /\ d.nref = IF reply # 0 /\ i = AddPref(m, reply) THEN n ELSE b.nref
             /\ d.chain_lref = IF i = AddChain(m, reply) THEN n ELSE b.chain_lref
             /\ d.chain_fref = IF i = AddChain(m, reply) /\ AddPref(m, reply) = 0 THEN n
                               ELSE b.chain_fref
<1>1. m.blk[i] \in ChainBlk
  BY BlkFields
<1>2. m.highest \in Nat /\ i \in 1 .. m.highest + 1 /\ i # m.highest + 1
  BY MtgFields DEF Trns
<1>3. AddTrn(m, reply, flags).blk = [k \in 1 .. m.highest + 1 |-> AddedBlk(m, reply, flags, k)]
  BY AddFields
<1>4. AddTrn(m, reply, flags).blk[i] = AddedBlk(m, reply, flags, i)
  BY <1>2, <1>3
<1> QED
  BY <1>1, <1>2, <1>4 DEF ChainBlk, AddedBlk

\* The new block.
LEMMA AddNewBlk ==
  ASSUME NEW m, MtgType(m), NEW reply, NEW flags, m.last <= m.highest,
         AddPref(m, reply) \in 0 .. m.highest
  PROVE  LET n == m.highest + 1
             d == AddTrn(m, reply, flags).blk[n]
         IN  /\ d.deleted = FALSE /\ d.trn_chain = AddChain(m, reply)
             /\ d.trn_addr = Len(m.trns) + 1
             /\ d.prev = m.last /\ d.pref = AddPref(m, reply) /\ d.next = 0 /\ d.nref = 0
             /\ d.chain_lref = IF n = AddChain(m, reply) THEN n ELSE 0
             /\ d.chain_fref = IF n = AddChain(m, reply) /\ AddPref(m, reply) = 0 THEN n ELSE 0
<1> DEFINE n == m.highest + 1
<1>1. m.highest \in Nat /\ m.last \in Nat /\ n \in 1 .. n /\ n # m.last /\ n # AddPref(m, reply)
  BY MtgFields
<1>2. AddTrn(m, reply, flags).blk = [k \in 1 .. n |-> AddedBlk(m, reply, flags, k)]
  BY AddFields
<1>3. AddTrn(m, reply, flags).blk[n] = AddedBlk(m, reply, flags, n)
  BY <1>1, <1>2
<1> QED
  BY <1>1, <1>3 DEF AddBlk, AddedBlk

\* add_trn keeps the types.
LEMMA AddType ==
  ASSUME NEW m, MtgType(m), NEW reply \in Nat, CanReply(m, reply), ChainNumbers(m),
         ChainsLinked(m), NEW flags \in TrnFlags
  PROVE  MtgType(AddTrn(m, reply, flags))
<1> DEFINE n == m.highest + 1
           r == AddTrn(m, reply, flags)
<1>1. n \in Nat /\ AddChain(m, reply) \in 1 .. n /\ AddPref(m, reply) \in Nat /\ m.last \in Nat
  BY AddChainFacts, MtgFields
<1>2. AddBlk(m, reply, flags) \in ChainBlk
  <2>1. m.trns \in Seq(TrnHdr)
    BY MtgFields
  <2> QED
    BY <1>1, <2>1 DEF AddBlk, ChainBlk
<1>3. ASSUME NEW i \in 1 .. n PROVE AddedBlk(m, reply, flags, i) \in ChainBlk
  <2> DEFINE b == IF i = n THEN AddBlk(m, reply, flags) ELSE m.blk[i]
             lref == IF i = AddChain(m, reply) THEN n ELSE b.chain_lref
             fref == IF i = AddChain(m, reply) /\ AddPref(m, reply) = 0 THEN n ELSE b.chain_fref
             nref == IF reply # 0 /\ i = AddPref(m, reply) THEN n ELSE b.nref
             next == IF i = m.last THEN n ELSE b.next
  <2>1. b \in ChainBlk
    <3>1. i # n => i \in Trns(m)
      BY <1>3, MtgFields DEF Trns
    <3> QED
      BY <1>2, <3>1, BlkFields
  <2>2. AddedBlk(m, reply, flags, i) =
          [b EXCEPT !.chain_lref = lref, !.chain_fref = fref, !.nref = nref, !.next = next]
    BY DEF AddedBlk
  <2> HIDE DEF b, n
  <2>3. lref \in Nat /\ fref \in Nat /\ nref \in Nat /\ next \in Nat
    BY <1>1, <2>1 DEF ChainBlk
  <2> HIDE DEF lref, fref, nref, next
  <2> QED
    BY <2>1, <2>2, <2>3 DEF ChainBlk
<1>4. Append(m.trns, AddHdr(m, reply)) \in Seq(TrnHdr) /\ Len(m.trns) \in Nat
  <2>1. m.trns \in Seq(TrnHdr) /\ m.highest_trn_addr \in Nat
    BY MtgFields
  <2>2. AddHdr(m, reply) \in TrnHdr
    BY <1>1, <2>1 DEF AddHdr, TrnHdr
  <2> QED
    BY <2>1, <2>2
<1>5. r.highest = n
  BY DEF AddTrn, MtgType
<1> DEFINE chain == IF reply = 0 THEN AddChain(m, reply) ELSE m.highest_chain
           first == IF m.first = 0 THEN n ELSE m.first
           blk == [i \in 1 .. n |-> AddedBlk(m, reply, flags, i)]
           trns == Append(m.trns, AddHdr(m, reply))
           addr == Len(m.trns) + 1
<1>6. chain \in Nat /\ first \in Nat /\ addr \in Nat /\ trns \in Seq(TrnHdr)
  BY <1>1, <1>4, MtgFields
<1>7. blk \in [1 .. n -> ChainBlk]
  BY <1>3
<1>8. r = [m EXCEPT !.highest = n, !.highest_chain = chain, !.last = n, !.first = first,
                    !.highest_trn_addr = addr, !.blk = blk, !.trns = trns]
  BY DEF AddTrn
<1> HIDE DEF chain, first, blk, trns, addr, r, n
<1>9. r \in [first : Nat, last : Nat, highest : Nat, highest_chain : Nat,
             created : BOOLEAN, highest_trn_addr : Nat,
             blk : [1 .. n -> ChainBlk], trns : Seq(TrnHdr)]
  BY <1>1, <1>6, <1>7, <1>8 DEF MtgType
<1> QED
  BY <1>5, <1>9 DEF MtgType, r

\* Adding puts the new number, and nothing else, into the meeting and one chain.
LEMMA AddSets ==
  ASSUME NEW m, MtgType(m), NEW reply \in Nat, CanReply(m, reply), ChainNumbers(m),
         ChainsLinked(m), MeetingLinked(m), NEW flags
  PROVE  LET r == AddTrn(m, reply, flags)
             n == m.highest + 1
         IN  /\ Trns(r) = Trns(m) \cup {n} /\ n \notin Trns(m)
             /\ m.last <= m.highest /\ AddPref(m, reply) \in 0 .. m.highest
             /\ OneMore(Live(m), n, Live(r))
             /\ OneMore(ChainMembers(m, AddChain(m, reply)), n, ChainMembers(r, AddChain(m, reply)))
             /\ \A c : c # AddChain(m, reply) => ChainMembers(r, c) = ChainMembers(m, c)
<1> DEFINE r == AddTrn(m, reply, flags)
           n == m.highest + 1
           ca == AddChain(m, reply)
<1>1. m.highest \in Nat /\ m.last \in Nat /\ n \notin Trns(m) /\ n \in Nat /\ n > 0
  BY MtgFields DEF Trns
<1>2. r.highest = n
  BY DEF AddTrn, MtgType
<1>3. Trns(r) = Trns(m) \cup {n}
  BY <1>1, <1>2 DEF Trns
<1>4. m.last <= m.highest
  BY <1>1 DEF MeetingLinked, IsLast, Live, Trns
<1>5. AddPref(m, reply) \in 0 .. m.highest
  BY <1>1, AddChainFacts DEF IsLast, ChainMembers, Live, Trns
<1>6. \A i \in Trns(m) : /\ r.blk[i].deleted = m.blk[i].deleted
                         /\ r.blk[i].trn_chain = m.blk[i].trn_chain
  BY AddOldBlk
<1>7. ~r.blk[n].deleted /\ r.blk[n].trn_chain = ca
  BY <1>4, <1>5, AddNewBlk
<1> HIDE DEF r, n, ca
<1>8. OneMore(Live(m), n, Live(r))
  BY <1>1, <1>3, <1>6, <1>7 DEF Live, OneMore
<1>9. OneMore(ChainMembers(m, ca), n, ChainMembers(r, ca))
  BY <1>1, <1>3, <1>6, <1>7 DEF Live, ChainMembers, OneMore
<1>10. ASSUME NEW c, c # ca
       PROVE  ChainMembers(r, c) = ChainMembers(m, c)
  BY <1>1, <1>3, <1>6, <1>7, <1>10 DEF Live, ChainMembers
<1> QED
  BY <1>1, <1>3, <1>4, <1>5, <1>8, <1>9, <1>10 DEF r, n, ca

\* add_trn keeps the transactions of the meeting linked in order.
LEMMA AddMeetingLinked ==
  ASSUME NEW m, MtgType(m), NEW reply \in Nat, CanReply(m, reply), ChainNumbers(m),
         ChainsLinked(m), MeetingLinked(m), NEW flags
  PROVE  MeetingLinked(AddTrn(m, reply, flags))
<1> DEFINE r == AddTrn(m, reply, flags)
           n == m.highest + 1
<1>1. /\ n \in Nat /\ n \notin Trns(m) /\ Trns(r) = Trns(m) \cup {n}
      /\ m.last <= m.highest /\ AddPref(m, reply) \in 0 .. m.highest
      /\ OneMore(Live(m), n, Live(r)) /\ Positive(Live(m))
  BY AddSets, MtgFields, LivePositive
<1>2. \A j \in Live(m) : j < n
  BY MtgFields DEF Live, Trns
<1>3. IsFirst(Live(m), m.first) /\ IsLast(Live(m), m.last)
  BY DEF MeetingLinked
<1>4. IsPred(Live(m), n, m.last) /\ IsSucc(Live(m), n, 0)
  <2> HIDE DEF n
  <2> QED
    BY <1>1, <1>2, <1>3, AfterLast
<1>5. r.first = (IF m.first = 0 THEN n ELSE m.first) /\ r.last = n
  BY DEF AddTrn, MtgType
<1>6. \A i \in Trns(m) : /\ r.blk[i].next = IF i = m.last THEN n ELSE m.blk[i].next
                         /\ r.blk[i].prev = m.blk[i].prev
  BY AddOldBlk
<1>7. r.blk[n].prev = m.last /\ r.blk[n].next = 0
  BY <1>1, AddNewBlk
<1> HIDE DEF r, n
<1>8. IsFirst(Live(r), r.first)
  <2>1. (m.last = 0) <=> (m.first = 0)
    BY <1>1, <1>3 DEF IsFirst, IsLast, Positive
  <2>2. r.first = IF m.last = 0 THEN n ELSE m.first
    BY <1>5, <2>1
  <2>3. IsFirst(Live(r), IF m.last = 0 THEN n ELSE m.first)
    BY <1>1, <1>3, <1>4, InsertFirst
  <2> QED
    BY <2>2, <2>3
<1>9. IsLast(Live(r), r.last)
  BY <1>1, <1>3, <1>4, <1>5, InsertLast
<1>10. ASSUME NEW i \in Live(r)
       PROVE  IsSucc(Live(r), i, r.blk[i].next) /\ IsPred(Live(r), i, r.blk[i].prev)
  <2>1. CASE i = n
    BY <1>1, <1>4, <1>7, <2>1, InsertSelf
  <2>2. CASE i # n
    <3>1. i \in Live(m) /\ i \in Trns(m) /\ i # 0
      <4>1. i \in Live(m)
        BY <1>1, <1>10, <2>2 DEF OneMore
      <4>2. i # 0
        BY <1>1, <4>1 DEF Positive
      <4> QED
        BY <4>1, <4>2 DEF Live
    <3>2. IsSucc(Live(m), i, m.blk[i].next) /\ IsPred(Live(m), i, m.blk[i].prev)
      BY <3>1 DEF MeetingLinked
    <3>3. IsSucc(Live(r), i, IF i = m.last THEN n ELSE m.blk[i].next)
      BY <1>1, <1>4, <3>1, <3>2, InsertSucc
    <3>4. IsPred(Live(r), i, IF i = 0 THEN n ELSE m.blk[i].prev)
      BY <1>1, <1>4, <3>1, <3>2, InsertPred
    <3> QED
      BY <1>6, <3>1, <3>3, <3>4
  <2> QED
    BY <2>1, <2>2
<1> QED
  BY <1>8, <1>9, <1>10 DEF MeetingLinked, r

\* add_trn keeps every chain linked, and starts or extends the one it adds to.
LEMMA AddChainsLinked ==
  ASSUME NEW m, MtgType(m), NEW reply \in Nat, CanReply(m, reply), ChainNumbers(m),
         ChainsLinked(m), MeetingLinked(m), NEW flags
  PROVE  ChainsLinked(AddTrn(m, reply, flags))
<1> DEFINE r == AddTrn(m, reply, flags)
           n == m.highest + 1
           ca == AddChain(m, reply)
           pref == AddPref(m, reply)
           M(c) == ChainMembers(m, c)
           R(c) == ChainMembers(r, c)
<1>1. /\ n \in Nat /\ n > 0 /\ n \notin Trns(m) /\ Trns(r) = Trns(m) \cup {n}
      /\ m.last <= m.highest /\ pref \in 0 .. m.highest
      /\ OneMore(Live(m), n, Live(r))
      /\ OneMore(M(ca), n, R(ca))
      /\ \A c : c # ca => R(c) = M(c)
      /\ \A c : Positive(M(c))
  BY AddSets, MtgFields, LivePositive
<1>2. \A c : \A j \in M(c) : j < n
  BY MtgFields DEF ChainMembers, Live, Trns
<1>3. IsLast(M(ca), pref) /\ (reply # 0 => pref # 0) /\ (reply = 0 => pref = 0)
  BY AddChainFacts DEF AddPref
<1>4. IsPred(M(ca), n, pref) /\ IsSucc(M(ca), n, 0)
  <2> HIDE DEF n, M, ca, pref
  <2> QED
    BY <1>1, <1>2, <1>3, AfterLast
<1>5. \A i \in Trns(m) :
         /\ r.blk[i].nref = IF reply # 0 /\ i = pref THEN n ELSE m.blk[i].nref
         /\ r.blk[i].pref = m.blk[i].pref
         /\ r.blk[i].trn_chain = m.blk[i].trn_chain
         /\ r.blk[i].chain_lref = IF i = ca THEN n ELSE m.blk[i].chain_lref
         /\ r.blk[i].chain_fref = IF i = ca /\ pref = 0 THEN n ELSE m.blk[i].chain_fref
  BY AddOldBlk
<1>6. /\ r.blk[n].pref = pref /\ r.blk[n].nref = 0 /\ r.blk[n].trn_chain = ca
      /\ r.blk[n].chain_lref = IF n = ca THEN n ELSE 0
      /\ r.blk[n].chain_fref = IF n = ca /\ pref = 0 THEN n ELSE 0
  BY <1>1, AddNewBlk
<1>7. M(n) = {}
  <2>1. \A i \in Live(m) : m.blk[i].trn_chain \in 1 .. m.highest_chain
    BY DEF ChainNumbers
  <2>2. m.highest_chain < n /\ m.highest_chain \in Nat
    BY MtgFields DEF ChainNumbers
  <2> QED
    BY <1>1, <2>1, <2>2 DEF ChainMembers
<1>8. \A c \in Trns(m) : IsFirst(M(c), m.blk[c].chain_fref) /\ IsLast(M(c), m.blk[c].chain_lref)
  BY DEF ChainsLinked
<1>9. \A i \in Live(m) : LET c == m.blk[i].trn_chain IN
        /\ IsSucc(M(c), i, m.blk[i].nref) /\ IsPred(M(c), i, m.blk[i].pref)
        /\ i \in M(c) /\ i \in Trns(m) /\ (c # ca => i \notin M(ca))
  BY DEF ChainsLinked, ChainMembers, Live
<1> HIDE DEF r, n, ca, pref, M, R
<1>10. ASSUME NEW c \in Trns(r)
       PROVE  IsFirst(R(c), r.blk[c].chain_fref) /\ IsLast(R(c), r.blk[c].chain_lref)
  <2>1. CASE c = ca
    <3>1. IsLast(R(c), n)
      BY <1>1, <1>3, <1>4, <2>1, InsertLast
    <3>2. r.blk[c].chain_lref = n
      BY <1>1, <1>5, <1>6, <1>10, <2>1
    <3>3. CASE c \in Trns(m)
      <4>1. IsFirst(R(c), IF pref = 0 THEN n ELSE m.blk[c].chain_fref)
        BY <1>1, <1>4, <1>8, <2>1, <3>3, InsertFirst
      <4> QED
        BY <1>5, <2>1, <3>1, <3>2, <3>3, <4>1
    <3>4. CASE c = n
      <4>1. pref = 0
        BY <1>3, <1>7, <2>1, <3>4 DEF IsLast
      <4>2. IsFirst(M(c), 0)
        BY <1>7, <3>4 DEF IsFirst
      <4>3. IsFirst(R(c), n)
        BY <1>1, <1>4, <2>1, <4>1, <4>2, InsertFirst
      <4> QED
        BY <1>6, <2>1, <3>1, <3>2, <3>4, <4>1, <4>3
    <3> QED
      BY <1>1, <1>10, <3>3, <3>4
  <2>2. CASE c # ca
    <3>1. R(c) = M(c)
      BY <1>1, <2>2
    <3>2. CASE c \in Trns(m)
      BY <1>5, <1>8, <2>2, <3>1, <3>2
    <3>3. CASE c = n
      BY <1>6, <1>7, <2>2, <3>1, <3>3 DEF IsFirst, IsLast
    <3> QED
      BY <1>1, <1>10, <3>2, <3>3
  <2> QED
    BY <2>1, <2>2
<1>11. ASSUME NEW i \in Live(r)
       PROVE  /\ IsSucc(R(r.blk[i].trn_chain), i, r.blk[i].nref)
              /\ IsPred(R(r.blk[i].trn_chain), i, r.blk[i].pref)
  <2>1. CASE i = n
    BY <1>1, <1>4, <1>6, <2>1, InsertSelf
  <2>2. CASE i # n
    <3> DEFINE c == m.blk[i].trn_chain
    <3>1. /\ IsSucc(M(c), i, m.blk[i].nref) /\ IsPred(M(c), i, m.blk[i].pref)
          /\ i \in M(c) /\ i \in Trns(m) /\ (c # ca => i \notin M(ca))
      BY <1>1, <1>9, <1>11, <2>2 DEF OneMore
    <3>2. i # 0 /\ r.blk[i].trn_chain = c /\ r.blk[i].pref = m.blk[i].pref
          /\ r.blk[i].nref = IF i = pref THEN n ELSE m.blk[i].nref
      <4>1. i # 0
        BY <1>1, <3>1 DEF Positive
      <4> QED
        BY <1>3, <1>5, <3>1, <4>1
    <3> HIDE DEF c
    <3>3. CASE c = ca
      <4>1. IsSucc(R(c), i, IF i = pref THEN n ELSE m.blk[i].nref)
        BY <1>1, <1>4, <3>1, <3>3, InsertSucc
      <4>2. IsPred(R(c), i, IF i = 0 THEN n ELSE m.blk[i].pref)
        BY <1>1, <1>4, <3>1, <3>3, InsertPred
      <4> QED
        BY <3>2, <4>1, <4>2
    <3>4. CASE c # ca
      <4>1. i # pref
        BY <1>4, <3>1, <3>2, <3>4 DEF IsPred
      <4> QED
        BY <1>1, <3>1, <3>2, <3>4, <4>1
    <3> QED
      BY <3>3, <3>4
  <2> QED
    BY <2>1, <2>2
<1> QED
  BY <1>10, <1>11 DEF ChainsLinked, R, r

\* add_trn: still no more chains than transactions; one more is stored.
LEMMA AddChainNumbers ==
  ASSUME NEW m, MtgType(m), NEW reply \in Nat, CanReply(m, reply), ChainNumbers(m),
         ChainsLinked(m), MeetingLinked(m), NEW flags
  PROVE  /\ ChainNumbers(AddTrn(m, reply, flags))
         /\ OneMore(Stored(m), m.highest + 1, Stored(AddTrn(m, reply, flags)))
<1> DEFINE r == AddTrn(m, reply, flags)
           n == m.highest + 1
<1>1. /\ n \in Nat /\ n > 0 /\ n \notin Trns(m) /\ Trns(r) = Trns(m) \cup {n}
      /\ m.last <= m.highest /\ AddPref(m, reply) \in 0 .. m.highest
      /\ OneMore(Live(m), n, Live(r))
  BY AddSets, MtgFields
<1>2. \A i \in Trns(m) : /\ r.blk[i].trn_chain = m.blk[i].trn_chain
                         /\ r.blk[i].trn_addr = m.blk[i].trn_addr
  BY AddOldBlk
<1>3. r.blk[n].trn_chain = AddChain(m, reply) /\ r.blk[n].trn_addr = Len(m.trns) + 1
  BY <1>1, AddNewBlk
<1>4. Len(m.trns) \in Nat
  <2>1. m.trns \in Seq(TrnHdr)
    BY MtgFields
  <2> QED
    BY <2>1
<1>5. /\ r.highest = n
      /\ r.highest_chain = IF reply = 0 THEN AddChain(m, reply) ELSE m.highest_chain
  BY DEF AddTrn, MtgType
<1>6. /\ m.highest \in Nat /\ m.highest_chain \in Nat /\ m.highest_chain <= m.highest
      /\ AddChain(m, reply) \in 1 .. r.highest_chain
      /\ m.highest_chain <= r.highest_chain /\ r.highest_chain <= n
  <2>1. m.highest \in Nat /\ m.highest_chain \in Nat /\ m.highest_chain <= m.highest
    BY MtgFields DEF ChainNumbers
  <2>2. CASE reply = 0
    BY <1>5, <2>1, <2>2 DEF AddChain
  <2>3. CASE reply # 0
    <3>1. m.blk[reply].trn_chain \in 1 .. m.highest_chain
      BY <2>3 DEF CanReply, ChainNumbers
    <3> QED
      BY <1>5, <2>1, <2>3, <3>1 DEF AddChain
  <2> QED
    BY <2>1, <2>2, <2>3
<1> HIDE DEF r, n
<1>7. OneMore(Stored(m), n, Stored(r))
  BY <1>1, <1>2, <1>3, <1>4 DEF Stored, OneMore
<1>8. ChainNumbers(r)
  <2>1. \A i \in Stored(r) : r.blk[i].trn_chain \in 1 .. r.highest_chain
    <3> TAKE i \in Stored(r)
    <3>1. CASE i = n
      BY <1>3, <1>6, <3>1
    <3>2. CASE i # n
      <4>1. i \in Stored(m) /\ i \in Trns(m)
        BY <1>7, <3>2 DEF OneMore, Stored
      <4>2. m.blk[i].trn_chain \in 1 .. m.highest_chain
        BY <4>1 DEF ChainNumbers
      <4>3. r.highest_chain \in Int
        BY <1>5, <1>6
      <4> QED
        BY <1>2, <1>6, <4>1, <4>2, <4>3
    <3> QED
      BY <3>1, <3>2
  <2>2. Live(r) \subseteq Stored(r)
    BY <1>1, <1>7 DEF OneMore, ChainNumbers
  <2> QED
    BY <1>5, <1>6, <2>1, <2>2 DEF ChainNumbers
<1> QED
  BY <1>7, <1>8 DEF r, n

-----------------------------------------------------------------------------
(* expunge_trn, set_trn_flags and an add that fails *)

Linked(m) == MtgType(m) /\ MeetingLinked(m) /\ ChainsLinked(m) /\ ChainNumbers(m)

\* A step that leaves the chains and links of every block alone, and adds at
\* most blocks that are expunged, keeps the meeting linked.
LEMMA SameLinks ==
  ASSUME NEW m, Linked(m), NEW r, MtgType(r),
         m.highest <= r.highest, r.highest_chain = m.highest_chain,
         r.first = m.first, r.last = m.last,
         \A i \in Trns(m) :
            /\ r.blk[i].deleted = m.blk[i].deleted /\ r.blk[i].trn_chain = m.blk[i].trn_chain
            /\ r.blk[i].trn_addr = m.blk[i].trn_addr
            /\ r.blk[i].next = m.blk[i].next /\ r.blk[i].prev = m.blk[i].prev
            /\ r.blk[i].nref = m.blk[i].nref /\ r.blk[i].pref = m.blk[i].pref
            /\ r.blk[i].chain_fref = m.blk[i].chain_fref
            /\ r.blk[i].chain_lref = m.blk[i].chain_lref,
         \A i \in Trns(r) \ Trns(m) :
            /\ r.blk[i].deleted /\ r.blk[i].trn_addr = 0
            /\ r.blk[i].chain_fref = 0 /\ r.blk[i].chain_lref = 0
  PROVE  Linked(r) /\ Stored(r) = Stored(m) /\ Live(r) = Live(m)
<1>1. m.highest \in Nat /\ r.highest \in Nat /\ m.highest_chain \in Nat
  BY MtgFields DEF Linked
<1>2. \A i \in Trns(m) : i \in Trns(r)
  BY <1>1 DEF Trns
<1>3. Live(r) = Live(m) /\ Stored(r) = Stored(m)
  BY <1>2 DEF Live, Stored
<1>4. \A c : ChainMembers(r, c) = ChainMembers(m, c)
  BY <1>3 DEF ChainMembers, Live
<1>5. MeetingLinked(r)
  BY <1>3 DEF Linked, MeetingLinked, Live
<1>6. ChainsLinked(r)
  <2>1. ASSUME NEW c \in Trns(r)
        PROVE  IsFirst(ChainMembers(r, c), r.blk[c].chain_fref)
               /\ IsLast(ChainMembers(r, c), r.blk[c].chain_lref)
    <3>1. CASE c \in Trns(m)
      BY <1>4, <3>1 DEF Linked, ChainsLinked
    <3>2. CASE c \notin Trns(m)
      <4>1. \A i \in Live(m) : m.blk[i].trn_chain \in 1 .. m.highest_chain
        BY DEF Linked, ChainNumbers
      <4>2. c > m.highest /\ c \in Nat
        BY <1>1, <2>1, <3>2 DEF Trns
      <4>3. m.highest_chain < c
        BY <1>1, <4>2 DEF Linked, ChainNumbers
      <4>4. ChainMembers(m, c) = {}
        BY <1>1, <4>1, <4>2, <4>3 DEF ChainMembers
      <4> QED
        BY <1>4, <2>1, <3>2, <4>4 DEF IsFirst, IsLast
    <3> QED
      BY <3>1, <3>2
  <2>2. ASSUME NEW i \in Live(r)
        PROVE  /\ IsSucc(ChainMembers(r, r.blk[i].trn_chain), i, r.blk[i].nref)
               /\ IsPred(ChainMembers(r, r.blk[i].trn_chain), i, r.blk[i].pref)
    <3>1. i \in Live(m) /\ i \in Trns(m)
      BY <1>3, <2>2 DEF Live
    <3> QED
      BY <1>4, <3>1 DEF Linked, ChainsLinked
  <2> QED
    BY <2>1, <2>2 DEF ChainsLinked
<1>7. ChainNumbers(r)
  BY <1>1, <1>3 DEF Linked, ChainNumbers, Stored
<1> QED
  BY <1>3, <1>5, <1>6, <1>7 DEF Linked

\* expunge_trn keeps the meeting linked, whatever its uninitialised fields hold.
LEMMA ExpungeLinked ==
  ASSUME NEW m, Linked(m), NEW pref \in Int, NEW chain \in Int, NEW flags \in TrnFlags
  PROVE  LET r == ExpungeTrn(m, pref, chain, flags)
         IN  Linked(r) /\ Stored(r) = Stored(m) /\ Live(r) = Live(m)
<1> DEFINE n == m.highest + 1
           r == ExpungeTrn(m, pref, chain, flags)
           hole == [prev |-> 0, next |-> 0, pref |-> pref, nref |-> 0,
                    trn_chain |-> chain, trn_addr |-> 0, deleted |-> TRUE, flags |-> flags,
                    chain_fref |-> 0, chain_lref |-> 0]
           blk == [i \in 1 .. n |-> IF i = n THEN hole ELSE m.blk[i]]
<1>1. MtgType(m) /\ m.highest \in Nat /\ n \in Nat /\ n \in 1 .. n /\ n \notin Trns(m)
  BY MtgFields DEF Linked, Trns
<1>2. \A i \in 1 .. n : i = n \/ i \in Trns(m)
  BY <1>1 DEF Trns
<1>3. \A i \in Trns(m) : i \in 1 .. n /\ i # n /\ blk[i] = m.blk[i]
  BY <1>1 DEF Trns
<1>4. hole \in ChainBlk
  BY DEF ChainBlk
<1>5. blk[n] = hole
  BY <1>1
<1>6. blk \in [1 .. n -> ChainBlk]
  <2> HIDE DEF hole, n
  <2>1. \A i \in Trns(m) : m.blk[i] \in ChainBlk
    BY <1>1, BlkFields
  <2> QED
    BY <1>2, <1>4, <2>1
<1>7. r = [m EXCEPT !.highest = n, !.blk = blk]
  BY DEF ExpungeTrn
<1>8. hole.deleted /\ hole.trn_addr = 0 /\ hole.chain_fref = 0 /\ hole.chain_lref = 0
  OBVIOUS
<1> HIDE DEF blk, hole, r
<1>9. /\ r.highest = n /\ r.blk = blk /\ r.first = m.first /\ r.last = m.last
      /\ r.highest_chain = m.highest_chain
  BY <1>1, <1>7 DEF MtgType
<1>10. MtgType(r)
  <2> HIDE DEF n
  <2>1. r \in [first : Nat, last : Nat, highest : Nat, highest_chain : Nat,
               created : BOOLEAN, highest_trn_addr : Nat,
               blk : [1 .. n -> ChainBlk], trns : Seq(TrnHdr)]
    BY <1>1, <1>6, <1>7 DEF MtgType
  <2> QED
    BY <1>9, <2>1 DEF MtgType
<1>11. \A i \in Trns(r) : i \notin Trns(m) => r.blk[i] = hole
  BY <1>2, <1>5, <1>9 DEF Trns
<1>12. \A i \in Trns(m) : r.blk[i] = m.blk[i]
  BY <1>3, <1>9
<1>13. m.highest <= r.highest
  BY <1>1, <1>9
<1>14. Linked(r) /\ Stored(r) = Stored(m) /\ Live(r) = Live(m)
  <2> HIDE DEF n
  <2> QED
    BY <1>8, <1>9, <1>10, <1>11, <1>12, <1>13, SameLinks
<1> QED
  BY <1>14 DEF r

\* set_trn_flags changes nothing but flags.
LEMMA SetFlagsFields ==
  ASSUME NEW m, MtgType(m), NEW t \in Trns(m), NEW flags \in TrnFlags
  PROVE  LET r == SetTrnFlags(m, t, flags)
         IN  /\ MtgType(r)
             /\ r.highest = m.highest /\ r.highest_chain = m.highest_chain
             /\ r.first = m.first /\ r.last = m.last
             /\ r.trns = m.trns /\ r.highest_trn_addr = m.highest_trn_addr
             /\ \A i \in Trns(m) :
                  /\ r.blk[i].deleted = m.blk[i].deleted /\ r.blk[i].trn_chain = m.blk[i].trn_chain
                  /\ r.blk[i].trn_addr = m.blk[i].trn_addr
                  /\ r.blk[i].next = m.blk[i].next /\ r.blk[i].prev = m.blk[i].prev
                  /\ r.blk[i].nref = m.blk[i].nref /\ r.blk[i].pref = m.blk[i].pref
                  /\ r.blk[i].chain_fref = m.blk[i].chain_fref
                  /\ r.blk[i].chain_lref = m.blk[i].chain_lref
<1> DEFINE r == SetTrnFlags(m, t, flags)
           b == [m.blk[t] EXCEPT !.flags = flags]
           blk == [m.blk EXCEPT ![t] = b]
<1>1. m.blk \in [Trns(m) -> ChainBlk] /\ m.blk[t] \in ChainBlk
  BY MtgFields, BlkFields
<1>2. /\ b \in ChainBlk
      /\ b.deleted = m.blk[t].deleted /\ b.trn_chain = m.blk[t].trn_chain
      /\ b.trn_addr = m.blk[t].trn_addr
      /\ b.next = m.blk[t].next /\ b.prev = m.blk[t].prev
      /\ b.nref = m.blk[t].nref /\ b.pref = m.blk[t].pref
      /\ b.chain_fref = m.blk[t].chain_fref /\ b.chain_lref = m.blk[t].chain_lref
  BY <1>1 DEF ChainBlk
<1> HIDE DEF b
<1>3. blk \in [1 .. m.highest -> ChainBlk]
      /\ \A i \in Trns(m) : blk[i] = IF i = t THEN b ELSE m.blk[i]
  BY <1>1, <1>2 DEF Trns
<1>4. r = [m EXCEPT !.blk = blk]
  BY DEF SetTrnFlags, b
<1> HIDE DEF blk, r
<1>5. /\ r.highest = m.highest /\ r.highest_chain = m.highest_chain
      /\ r.first = m.first /\ r.last = m.last /\ r.blk = blk
      /\ r.trns = m.trns /\ r.highest_trn_addr = m.highest_trn_addr
  BY <1>4 DEF MtgType
<1>6. MtgType(r)
  <2>1. r \in [first : Nat, last : Nat, highest : Nat, highest_chain : Nat,
               created : BOOLEAN, highest_trn_addr : Nat,
               blk : [1 .. m.highest -> ChainBlk], trns : Seq(TrnHdr)]
    BY <1>3, <1>4 DEF MtgType
  <2> QED
    BY <1>5, <2>1 DEF MtgType
<1>7. \A i \in Trns(m) :
         /\ r.blk[i].deleted = m.blk[i].deleted /\ r.blk[i].trn_chain = m.blk[i].trn_chain
         /\ r.blk[i].trn_addr = m.blk[i].trn_addr
         /\ r.blk[i].next = m.blk[i].next /\ r.blk[i].prev = m.blk[i].prev
         /\ r.blk[i].nref = m.blk[i].nref /\ r.blk[i].pref = m.blk[i].pref
         /\ r.blk[i].chain_fref = m.blk[i].chain_fref
         /\ r.blk[i].chain_lref = m.blk[i].chain_lref
  BY <1>2, <1>3, <1>5
<1> QED
  BY <1>5, <1>6, <1>7 DEF r

\* set_trn_flags keeps the meeting linked.
LEMMA SetFlagsLinked ==
  ASSUME NEW m, Linked(m), NEW t \in Trns(m), NEW flags \in TrnFlags
  PROVE  LET r == SetTrnFlags(m, t, flags)
         IN  Linked(r) /\ Stored(r) = Stored(m) /\ Live(r) = Live(m)
<1> DEFINE r == SetTrnFlags(m, t, flags)
<1>1. MtgType(m) /\ m.highest \in Nat
  BY MtgFields DEF Linked
<1>2. /\ MtgType(r)
      /\ r.highest = m.highest /\ r.highest_chain = m.highest_chain
      /\ r.first = m.first /\ r.last = m.last
  BY <1>1, SetFlagsFields
<1>3. \A i \in Trns(m) :
         /\ r.blk[i].deleted = m.blk[i].deleted /\ r.blk[i].trn_chain = m.blk[i].trn_chain
         /\ r.blk[i].trn_addr = m.blk[i].trn_addr
         /\ r.blk[i].next = m.blk[i].next /\ r.blk[i].prev = m.blk[i].prev
         /\ r.blk[i].nref = m.blk[i].nref /\ r.blk[i].pref = m.blk[i].pref
         /\ r.blk[i].chain_fref = m.blk[i].chain_fref
         /\ r.blk[i].chain_lref = m.blk[i].chain_lref
  BY <1>1, SetFlagsFields
<1> HIDE DEF r
<1>4. m.highest <= r.highest /\ Trns(r) = Trns(m)
  BY <1>1, <1>2 DEF Trns
<1>5. Linked(r) /\ Stored(r) = Stored(m) /\ Live(r) = Live(m)
  BY <1>2, <1>3, <1>4, SameLinks
<1> QED
  BY <1>5 DEF r

\* An add that fails appends to the transactions file and changes no block.
LEMMA AbortFields ==
  ASSUME NEW m, MtgType(m), NEW reply \in Nat, AddPref(m, reply) \in Nat, NEW whole \in BOOLEAN
  PROVE  LET r == AbortAdd(m, reply, whole)
         IN  /\ MtgType(r)
             /\ r.highest = m.highest /\ r.highest_chain = m.highest_chain
             /\ r.first = m.first /\ r.last = m.last /\ r.blk = m.blk
             /\ r.highest_trn_addr = m.highest_trn_addr
             /\ \E h : r.trns = Append(m.trns, h)
<1> DEFINE r == AbortAdd(m, reply, whole)
           h == [AddHdr(m, reply) EXCEPT !.whole = whole]
           trns == Append(m.trns, h)
<1>1. m.trns \in Seq(TrnHdr) /\ m.highest \in Nat /\ m.highest_trn_addr \in Nat
  BY MtgFields
<1>2. h \in TrnHdr
  <2>1. AddHdr(m, reply) \in TrnHdr
    BY <1>1 DEF AddHdr, TrnHdr
  <2> QED
    BY <2>1 DEF TrnHdr
<1>3. trns \in Seq(TrnHdr)
  BY <1>1, <1>2
<1>4. r = [m EXCEPT !.trns = trns]
  BY DEF AbortAdd
<1>5. trns = Append(m.trns, h)
  OBVIOUS
<1> HIDE DEF h, trns, r
<1>6. /\ r.highest = m.highest /\ r.highest_chain = m.highest_chain
      /\ r.first = m.first /\ r.last = m.last /\ r.blk = m.blk
      /\ r.highest_trn_addr = m.highest_trn_addr /\ r.trns = trns
  BY <1>4 DEF MtgType
<1>7. MtgType(r)
  <2>1. r \in [first : Nat, last : Nat, highest : Nat, highest_chain : Nat,
               created : BOOLEAN, highest_trn_addr : Nat,
               blk : [1 .. m.highest -> ChainBlk], trns : Seq(TrnHdr)]
    BY <1>3, <1>4 DEF MtgType
  <2> QED
    BY <1>6, <2>1 DEF MtgType
<1> QED
  BY <1>5, <1>6, <1>7 DEF r

\* An add that fails keeps the meeting linked.
LEMMA AbortLinked ==
  ASSUME NEW m, Linked(m), NEW reply \in Nat, CanReply(m, reply), NEW whole \in BOOLEAN
  PROVE  LET r == AbortAdd(m, reply, whole)
         IN  Linked(r) /\ Stored(r) = Stored(m) /\ Live(r) = Live(m)
<1> DEFINE r == AbortAdd(m, reply, whole)
<1>1. MtgType(m) /\ m.highest \in Nat /\ AddPref(m, reply) \in Nat
  BY MtgFields, AddChainFacts DEF Linked
<1>2. /\ MtgType(r)
      /\ r.highest = m.highest /\ r.highest_chain = m.highest_chain
      /\ r.first = m.first /\ r.last = m.last /\ r.blk = m.blk
  BY <1>1, AbortFields
<1> HIDE DEF r
<1>3. m.highest <= r.highest /\ Trns(r) = Trns(m)
  BY <1>1, <1>2 DEF Trns
<1>4. Linked(r) /\ Stored(r) = Stored(m) /\ Live(r) = Live(m)
  BY <1>2, <1>3, SameLinks
<1> QED
  BY <1>4 DEF r

\* A new meeting (create_mtg_priv) is linked.
LEMMA EmptyLinked == Linked(EmptyMeeting) /\ Live(EmptyMeeting) = {} /\ Stored(EmptyMeeting) = {}
<1> DEFINE m == EmptyMeeting
<1>1. /\ m.highest = 0 /\ m.highest_chain = 0 /\ m.first = 0 /\ m.last = 0
      /\ m.trns = << >> /\ m.highest_trn_addr = 0
  BY DEF EmptyMeeting
<1>2. MtgType(m)
  BY DEF MtgType, EmptyMeeting, ChainBlk
<1> HIDE DEF m
<1>3. Trns(m) = {} /\ Live(m) = {} /\ Stored(m) = {}
  BY <1>1 DEF Trns, Live, Stored
<1>4. MeetingLinked(m) /\ ChainsLinked(m) /\ ChainNumbers(m)
  BY <1>1, <1>3 DEF MeetingLinked, ChainsLinked, ChainNumbers, IsFirst, IsLast
<1> QED
  BY <1>2, <1>3, <1>4 DEF Linked, m

-----------------------------------------------------------------------------
(* Each operation as a step of Linked *)

\* add_trn keeps the meeting linked.
LEMMA AddLinked ==
  ASSUME NEW m, Linked(m), NEW reply \in Nat, CanReply(m, reply), NEW flags \in TrnFlags
  PROVE  Linked(AddTrn(m, reply, flags))
  BY AddType, AddMeetingLinked, AddChainsLinked, AddChainNumbers DEF Linked

\* delete_trn keeps the meeting linked.
LEMMA DeleteLinked ==
  ASSUME NEW m, Linked(m), NEW t, CanDelete(m, t)
  PROVE  Linked(DeleteTrn(m, t))
<1>1. t \in Trns(m) /\ t \in Live(m)
  BY DEF CanDelete, Live
<1>2. m.blk[t].pref \in Nat
  <2>1. IsPred(ChainMembers(m, m.blk[t].trn_chain), t, m.blk[t].pref)
    BY <1>1 DEF Linked, ChainsLinked
  <2>2. Positive(ChainMembers(m, m.blk[t].trn_chain))
    BY LivePositive DEF Linked
  <2> QED
    BY <2>1, <2>2 DEF IsPred, Positive
<1> QED
  BY <1>1, <1>2, DeleteType, DeleteMeetingLinked, DeleteChainsLinked, DeleteChainNumbers DEF Linked

\* retrieve_trn keeps the meeting linked once it has found the neighbours.
LEMMA RelinkLinked ==
  ASSUME NEW m, Linked(m), NEW t, CanRetrieve(m, t), NEW nb, Neighbours(m, t, nb)
  PROVE  Linked(RelinkTrn(m, t, nb))
<1>1. t \in Trns(m)
  BY DEF CanRetrieve
<1> QED
  BY <1>1, RelinkType, RelinkMeetingLinked, RelinkChainsLinked, RelinkChainNumbers DEF Linked

-----------------------------------------------------------------------------
(* What the operations leave alone *)

\* Every number given out keeps its text and its chain, and what is in the
\* transactions file stays there.
Keeps(m, r) ==
    /\ r.highest \in Nat /\ m.highest \in Nat /\ r.highest >= m.highest
    /\ Trns(m) \subseteq Trns(r)
    /\ \A i \in Trns(m) : /\ r.blk[i].trn_addr = m.blk[i].trn_addr
                          /\ r.blk[i].trn_chain = m.blk[i].trn_chain
    /\ Len(m.trns) \in Nat /\ Len(r.trns) \in Nat /\ Len(r.trns) >= Len(m.trns)
    /\ \A k \in 1 .. Len(m.trns) : r.trns[k] = m.trns[k]

\* No transaction is added.
NoneAdded(m, r) ==
    /\ Keeps(m, r)
    /\ Stored(r) = Stored(m)
    /\ r.highest_trn_addr = m.highest_trn_addr

\* An append leaves the entries before it alone.
LEMMA AppendKeeps ==
  ASSUME NEW s \in Seq(TrnHdr), NEW h
  PROVE  /\ Len(s) \in Nat /\ Len(Append(s, h)) = Len(s) + 1
         /\ \A k \in 1 .. Len(s) : Append(s, h)[k] = s[k]
         /\ Append(s, h)[Len(s) + 1] = h
  OBVIOUS

\* add_trn leaves earlier numbers and the earlier part of the file alone.
LEMMA AddKeeps ==
  ASSUME NEW m, Linked(m), NEW reply \in Nat, CanReply(m, reply), NEW flags \in TrnFlags
  PROVE  Keeps(m, AddTrn(m, reply, flags))
<1> DEFINE r == AddTrn(m, reply, flags)
<1>1. MtgType(m) /\ m.highest \in Nat /\ m.trns \in Seq(TrnHdr)
  BY MtgFields DEF Linked
<1>2. r.highest = m.highest + 1 /\ r.trns = Append(m.trns, AddHdr(m, reply))
  BY <1>1 DEF AddTrn, MtgType
<1>3. \A i \in Trns(m) : /\ r.blk[i].trn_addr = m.blk[i].trn_addr
                         /\ r.blk[i].trn_chain = m.blk[i].trn_chain
  BY <1>1, AddOldBlk
<1> HIDE DEF r
<1>4. Trns(m) \subseteq Trns(r)
  BY <1>1, <1>2 DEF Trns
<1>5. /\ Len(m.trns) \in Nat /\ Len(r.trns) = Len(m.trns) + 1
      /\ \A k \in 1 .. Len(m.trns) : r.trns[k] = m.trns[k]
  BY <1>1, <1>2, AppendKeeps
<1> QED
  BY <1>1, <1>2, <1>3, <1>4, <1>5 DEF Keeps, r

\* An add that fails adds no transaction; what it appended is past the rest.
LEMMA AbortKeeps ==
  ASSUME NEW m, Linked(m), NEW reply \in Nat, CanReply(m, reply), NEW whole \in BOOLEAN
  PROVE  NoneAdded(m, AbortAdd(m, reply, whole))
<1> DEFINE r == AbortAdd(m, reply, whole)
<1>1. MtgType(m) /\ m.highest \in Nat /\ m.trns \in Seq(TrnHdr) /\ AddPref(m, reply) \in Nat
  BY MtgFields, AddChainFacts DEF Linked
<1>2. /\ r.highest = m.highest /\ r.blk = m.blk /\ r.highest_trn_addr = m.highest_trn_addr
      /\ \E h : r.trns = Append(m.trns, h)
  BY <1>1, AbortFields
<1> HIDE DEF r
<1>3. Trns(m) = Trns(r) /\ Stored(r) = Stored(m)
  BY <1>1, <1>2 DEF Trns, Stored
<1>4. /\ Len(m.trns) \in Nat /\ Len(r.trns) = Len(m.trns) + 1
      /\ \A k \in 1 .. Len(m.trns) : r.trns[k] = m.trns[k]
  BY <1>1, <1>2, AppendKeeps
<1> QED
  BY <1>1, <1>2, <1>3, <1>4 DEF Keeps, NoneAdded, r

\* expunge_trn adds a number and no transaction.
LEMMA ExpungeKeeps ==
  ASSUME NEW m, Linked(m), NEW pref \in Int, NEW chain \in Int, NEW flags \in TrnFlags
  PROVE  LET r == ExpungeTrn(m, pref, chain, flags)
         IN  /\ NoneAdded(m, r)
             /\ r.highest = m.highest + 1 /\ r.blk[m.highest + 1].trn_addr = 0
<1> DEFINE r == ExpungeTrn(m, pref, chain, flags)
           n == m.highest + 1
           hole == [prev |-> 0, next |-> 0, pref |-> pref, nref |-> 0,
                    trn_chain |-> chain, trn_addr |-> 0, deleted |-> TRUE, flags |-> flags,
                    chain_fref |-> 0, chain_lref |-> 0]
           blk == [i \in 1 .. n |-> IF i = n THEN hole ELSE m.blk[i]]
<1>1. MtgType(m) /\ m.highest \in Nat /\ m.trns \in Seq(TrnHdr)
  BY MtgFields DEF Linked
<1>2. r = [m EXCEPT !.highest = n, !.blk = blk]
  BY DEF ExpungeTrn
<1>3. /\ \A i \in Trns(m) : blk[i] = m.blk[i]
      /\ blk[n].trn_addr = 0
  BY <1>1 DEF Trns
<1>4. Stored(r) = Stored(m)
  BY ExpungeLinked
<1> HIDE DEF r, blk
<1>5. /\ r.highest = n /\ r.blk = blk /\ r.trns = m.trns
      /\ r.highest_trn_addr = m.highest_trn_addr
  BY <1>1, <1>2 DEF MtgType
<1>6. Trns(m) \subseteq Trns(r)
  BY <1>1, <1>5 DEF Trns
<1>7. Len(m.trns) \in Nat
  BY <1>1
<1> QED
  BY <1>1, <1>3, <1>4, <1>5, <1>6, <1>7 DEF Keeps, NoneAdded, r

\* set_trn_flags adds nothing.
LEMMA SetFlagsKeeps ==
  ASSUME NEW m, Linked(m), NEW t \in Trns(m), NEW flags \in TrnFlags
  PROVE  NoneAdded(m, SetTrnFlags(m, t, flags)) /\ SetTrnFlags(m, t, flags).highest = m.highest
<1> DEFINE r == SetTrnFlags(m, t, flags)
<1>1. MtgType(m) /\ m.highest \in Nat /\ m.trns \in Seq(TrnHdr)
  BY MtgFields DEF Linked
<1>2. /\ r.highest = m.highest /\ r.trns = m.trns /\ r.highest_trn_addr = m.highest_trn_addr
      /\ \A i \in Trns(m) : /\ r.blk[i].trn_addr = m.blk[i].trn_addr
                            /\ r.blk[i].trn_chain = m.blk[i].trn_chain
  BY <1>1, SetFlagsFields
<1> HIDE DEF r
<1>3. Trns(m) = Trns(r) /\ Stored(r) = Stored(m) /\ Len(m.trns) \in Nat
  BY <1>1, <1>2 DEF Trns, Stored
<1> QED
  BY <1>1, <1>2, <1>3 DEF Keeps, NoneAdded, r

\* delete_trn adds nothing.
LEMMA DeleteKeeps ==
  ASSUME NEW m, Linked(m), NEW t, CanDelete(m, t)
  PROVE  NoneAdded(m, DeleteTrn(m, t)) /\ DeleteTrn(m, t).highest = m.highest
<1> DEFINE r == DeleteTrn(m, t)
<1>1. MtgType(m) /\ m.highest \in Nat /\ m.trns \in Seq(TrnHdr) /\ t \in Trns(m)
  BY MtgFields DEF Linked, CanDelete
<1>2. /\ r.highest = m.highest /\ r.trns = m.trns /\ r.highest_trn_addr = m.highest_trn_addr
      /\ \A i \in Trns(m) : r.blk[i] = UnlinkedBlk(m, t, i)
  BY <1>1, DeleteFields
<1>3. \A i \in Trns(m) : /\ UnlinkedBlk(m, t, i).trn_addr = m.blk[i].trn_addr
                         /\ UnlinkedBlk(m, t, i).trn_chain = m.blk[i].trn_chain
  BY <1>1, UnlinkedFields
<1> HIDE DEF r
<1>4. Trns(m) = Trns(r) /\ Stored(r) = Stored(m) /\ Len(m.trns) \in Nat
  BY <1>1, <1>2, <1>3 DEF Trns, Stored
<1> QED
  BY <1>1, <1>2, <1>3, <1>4 DEF Keeps, NoneAdded, r

\* retrieve_trn adds nothing.
LEMMA RelinkKeeps ==
  ASSUME NEW m, Linked(m), NEW t, CanRetrieve(m, t), NEW nb
  PROVE  NoneAdded(m, RelinkTrn(m, t, nb)) /\ RelinkTrn(m, t, nb).highest = m.highest
<1> DEFINE r == RelinkTrn(m, t, nb)
<1>1. MtgType(m) /\ m.highest \in Nat /\ m.trns \in Seq(TrnHdr) /\ t \in Trns(m)
  BY MtgFields DEF Linked, CanRetrieve
<1>2. /\ r.highest = m.highest /\ r.trns = m.trns /\ r.highest_trn_addr = m.highest_trn_addr
      /\ \A i \in Trns(m) : r.blk[i] = RelinkedBlk(m, t, nb, i)
  <2>1. \A i \in Trns(m) : r.blk[i] = RelinkedBlk(m, t, nb, i)
    BY <1>1, RelinkBlk
  <2> QED
    BY <1>1, <2>1 DEF RelinkTrn, MtgType
<1>3. \A i \in Trns(m) : /\ RelinkedBlk(m, t, nb, i).trn_addr = m.blk[i].trn_addr
                         /\ RelinkedBlk(m, t, nb, i).trn_chain = m.blk[i].trn_chain
  BY <1>1, RelinkedFields
<1> HIDE DEF r
<1>4. Trns(m) = Trns(r) /\ Stored(r) = Stored(m) /\ Len(m.trns) \in Nat
  BY <1>1, <1>2, <1>3 DEF Trns, Stored
<1> QED
  BY <1>1, <1>2, <1>3, <1>4 DEF Keeps, NoneAdded, r


-----------------------------------------------------------------------------
(* The transactions file *)

Logged(m) == TrnLog(m) /\ ChainsRecorded(m)

\* Where no transaction is added, the file still records the meeting.
LEMMA NoneAddedLogged ==
  ASSUME NEW m, Logged(m), NEW r, NoneAdded(m, r)
  PROVE  Logged(r)
<1>1. /\ Stored(r) = Stored(m) /\ r.highest_trn_addr = m.highest_trn_addr
      /\ Len(m.trns) \in Nat /\ Len(r.trns) \in Nat /\ Len(r.trns) >= Len(m.trns)
      /\ \A k \in 1 .. Len(m.trns) : r.trns[k] = m.trns[k]
  BY DEF NoneAdded, Keeps
<1>2. \A i \in Stored(m) : /\ i # 0 /\ r.blk[i].trn_addr = m.blk[i].trn_addr
                           /\ r.blk[i].trn_chain = m.blk[i].trn_chain
                           /\ m.blk[i].trn_addr \in 1 .. Len(m.trns)
                           /\ m.blk[i].trn_addr \in 1 .. Len(r.trns)
                           /\ r.trns[m.blk[i].trn_addr] = m.trns[m.blk[i].trn_addr]
  <2> SUFFICES ASSUME NEW i \in Stored(m)
               PROVE  /\ i # 0 /\ r.blk[i].trn_addr = m.blk[i].trn_addr
                      /\ r.blk[i].trn_chain = m.blk[i].trn_chain
                      /\ m.blk[i].trn_addr \in 1 .. Len(m.trns)
                      /\ m.blk[i].trn_addr \in 1 .. Len(r.trns)
                      /\ r.trns[m.blk[i].trn_addr] = m.trns[m.blk[i].trn_addr]
    OBVIOUS
  <2>1. i \in Trns(m) /\ i # 0
    BY DEF Stored, Trns, NoneAdded, Keeps
  <2>2. m.blk[i].trn_addr \in 1 .. Len(m.trns)
    BY <2>1 DEF Logged, TrnLog
  <2> QED
    BY <1>1, <2>1, <2>2 DEF NoneAdded, Keeps
<1>3. TrnLog(r)
  <2>1. \A i \in Stored(m) :
             /\ r.blk[i].trn_addr \in 1 .. Len(r.trns)
             /\ r.trns[r.blk[i].trn_addr].whole
             /\ r.trns[r.blk[i].trn_addr].current = i
    <3>1. \A i \in Stored(m) : i # 0 => /\ m.trns[m.blk[i].trn_addr].whole
                                        /\ m.trns[m.blk[i].trn_addr].current = i
      BY Zenon DEF Logged, TrnLog
    <3> QED
      BY <1>2, <3>1, Zenon
  <2>2. ASSUME NEW i \in Stored(m)
        PROVE  \E p \in Stored(m) \cup {0} :
                   /\ IsPred(Stored(m), i, p)
                   /\ r.trns[r.blk[i].trn_addr].prev_trn = IF p = 0 THEN 0 ELSE r.blk[p].trn_addr
    <3>1. PICK p \in Stored(m) \cup {0} :
                   /\ IsPred(Stored(m), i, p)
                   /\ m.trns[m.blk[i].trn_addr].prev_trn = IF p = 0 THEN 0 ELSE m.blk[p].trn_addr
      BY <1>2 DEF Logged, TrnLog
    <3> QED
      BY <1>2, <3>1
  <2>3. \E l \in Stored(m) \cup {0} :
             /\ IsLast(Stored(m), l)
             /\ r.highest_trn_addr = IF l = 0 THEN 0 ELSE r.blk[l].trn_addr
    <3>1. PICK l \in Stored(m) \cup {0} :
             /\ IsLast(Stored(m), l)
             /\ m.highest_trn_addr = IF l = 0 THEN 0 ELSE m.blk[l].trn_addr
      BY DEF Logged, TrnLog
    <3> QED
      BY <1>1, <1>2, <3>1
  <2> QED
    BY <1>1, <1>2, <2>1, <2>2, <2>3 DEF TrnLog
<1>4. ChainsRecorded(r)
  <2> DEFINE O(i) == r.trns[r.blk[i].trn_addr].orig_pref
  <2>1. \A i \in Stored(m) : O(i) = m.trns[m.blk[i].trn_addr].orig_pref
    BY <1>2
  <2> HIDE DEF O
  <2>2. ASSUME NEW i \in Stored(m), O(i) # 0
        PROVE  O(i) < i /\ O(i) \in Stored(r) /\ r.blk[O(i)].trn_chain = r.blk[i].trn_chain
    <3>1. /\ O(i) < i /\ O(i) \in Stored(m) /\ m.blk[O(i)].trn_chain = m.blk[i].trn_chain
      BY <2>1, <2>2 DEF Logged, ChainsRecorded
    <3> QED
      BY <1>1, <1>2, <3>1
  <2>3. ASSUME NEW i \in Stored(m), NEW j \in Stored(m), O(i) = 0, O(j) = 0, i # j
        PROVE  r.blk[i].trn_chain # r.blk[j].trn_chain
    BY <2>1, <2>3, <1>2 DEF Logged, ChainsRecorded
  <2> QED
    BY <1>1, <2>2, <2>3 DEF ChainsRecorded, O
<1> QED
  BY <1>3, <1>4 DEF Logged

\* The header of an added transaction leads back to the transaction added before
\* it, and, if it is a reply, to the last one of its chain.
LEMMA AddLogged ==
  ASSUME NEW m, Linked(m), Logged(m), NEW reply \in Nat, CanReply(m, reply),
         NEW flags \in TrnFlags
  PROVE  Logged(AddTrn(m, reply, flags))
<1> DEFINE r == AddTrn(m, reply, flags)
           n == m.highest + 1
           a == Len(m.trns) + 1
           pref == AddPref(m, reply)
           ca == AddChain(m, reply)
<1>1. /\ MtgType(m) /\ m.highest \in Nat /\ m.trns \in Seq(TrnHdr) /\ Len(m.trns) \in Nat
      /\ m.highest_chain \in Nat
  BY MtgFields DEF Linked
<1>2. /\ m.last <= m.highest /\ pref \in 0 .. m.highest
  BY AddSets DEF Linked
<1>3. OneMore(Stored(m), n, Stored(r))
  BY AddChainNumbers DEF Linked
<1>4. /\ r.blk[n].trn_addr = a /\ r.blk[n].trn_chain = ca
  BY <1>1, <1>2, AddNewBlk
<1>5. /\ r.highest_trn_addr = a /\ r.trns = Append(m.trns, AddHdr(m, reply))
  BY <1>1 DEF AddTrn, MtgType
<1>6. /\ Len(r.trns) = a /\ r.trns[a] = AddHdr(m, reply)
      /\ \A k \in 1 .. Len(m.trns) : r.trns[k] = m.trns[k]
  BY <1>1, <1>5, AppendKeeps
<1>7. /\ r.trns[a].whole /\ r.trns[a].current = n /\ r.trns[a].orig_pref = pref
      /\ r.trns[a].prev_trn = m.highest_trn_addr
  BY <1>6 DEF AddHdr
<1>8. Keeps(m, r)
  BY AddKeeps
<1>9. /\ ca \in 1 .. n /\ pref \in Nat /\ IsLast(ChainMembers(m, ca), pref)
      /\ reply # 0 => pref # 0
      /\ reply = 0 => ca = m.highest_chain + 1 /\ pref = 0
  BY AddChainFacts DEF Linked, AddChain, AddPref
<1>10. /\ \A i \in Stored(m) : m.blk[i].trn_chain \in 1 .. m.highest_chain
       /\ Live(m) \subseteq Stored(m)
  BY DEF Linked, ChainNumbers
<1> HIDE DEF r, n, a, pref, ca
<1>11. \A i \in Stored(m) : /\ i \in Nat /\ i # 0 /\ i < n /\ r.blk[i].trn_addr = m.blk[i].trn_addr
                            /\ r.blk[i].trn_chain = m.blk[i].trn_chain
                            /\ m.blk[i].trn_addr \in 1 .. Len(m.trns)
                            /\ m.blk[i].trn_addr \in 1 .. a
                            /\ r.trns[m.blk[i].trn_addr] = m.trns[m.blk[i].trn_addr]
  <2> SUFFICES ASSUME NEW i \in Stored(m)
               PROVE  /\ i \in Nat /\ i # 0 /\ i < n /\ r.blk[i].trn_addr = m.blk[i].trn_addr
                      /\ r.blk[i].trn_chain = m.blk[i].trn_chain
                      /\ m.blk[i].trn_addr \in 1 .. Len(m.trns)
                      /\ m.blk[i].trn_addr \in 1 .. a
                      /\ r.trns[m.blk[i].trn_addr] = m.trns[m.blk[i].trn_addr]
    OBVIOUS
  <2>1. i \in Trns(m) /\ i \in Nat /\ i # 0 /\ i < n
    BY <1>1 DEF Stored, Trns, n
  <2>2. m.blk[i].trn_addr \in 1 .. Len(m.trns)
    BY <2>1 DEF Logged, TrnLog
  <2>3. m.blk[i].trn_addr \in 1 .. a
    BY <1>1, <2>2 DEF a
  <2> QED
    BY <1>6, <1>8, <2>1, <2>2, <2>3 DEF Keeps
<1>12. /\ n \in Nat /\ n # 0 /\ n \in Stored(r) /\ n \notin Stored(m)
       /\ \A i \in Stored(r) : i = n \/ i \in Stored(m)
       /\ \A i \in Stored(m) : i \in Stored(r)
       /\ a \in 1 .. a
  BY <1>1, <1>3 DEF OneMore, n, a
<1>13. TrnLog(r)
  <2>1. \A i \in Stored(r) :
             /\ r.blk[i].trn_addr \in 1 .. Len(r.trns)
             /\ r.trns[r.blk[i].trn_addr].whole
             /\ r.trns[r.blk[i].trn_addr].current = i
    <3> SUFFICES ASSUME NEW i \in Stored(r)
                 PROVE  /\ r.blk[i].trn_addr \in 1 .. Len(r.trns)
                        /\ r.trns[r.blk[i].trn_addr].whole
                        /\ r.trns[r.blk[i].trn_addr].current = i
      OBVIOUS
    <3>1. CASE i = n
      BY <3>1, <1>4, <1>6, <1>7, <1>12
    <3>2. CASE i \in Stored(m)
      <4>1. i # 0 => /\ m.trns[m.blk[i].trn_addr].whole
                     /\ m.trns[m.blk[i].trn_addr].current = i
        BY <3>2, Zenon DEF Logged, TrnLog
      <4> QED
        BY <3>2, <4>1, <1>6, <1>11, Zenon
    <3> QED
      BY <3>1, <3>2, <1>12
  <2>2. PICK l \in Stored(m) \cup {0} :
             /\ IsLast(Stored(m), l)
             /\ m.highest_trn_addr = IF l = 0 THEN 0 ELSE m.blk[l].trn_addr
    BY DEF Logged, TrnLog
  <2>3. ASSUME NEW i \in Stored(r)
        PROVE  \E p \in Stored(r) \cup {0} :
                   /\ IsPred(Stored(r), i, p)
                   /\ r.trns[r.blk[i].trn_addr].prev_trn = IF p = 0 THEN 0 ELSE r.blk[p].trn_addr
    <3>1. CASE i = n
      <4>1. IsPred(Stored(r), n, l)
        <5>1. CASE l = 0 /\ Stored(m) = {}
          BY <1>12, <5>1 DEF IsPred
        <5>2. CASE l \in Stored(m) /\ \A j \in Stored(m) : j <= l
          <6>1. l < n /\ l \in Stored(r)
            BY <1>11, <1>12, <5>2
          <6>2. \A j \in Stored(r) : j < n => j <= l
            BY <1>12, <5>2
          <6> QED
            BY <6>1, <6>2 DEF IsPred
        <5> QED
          BY <2>2, <5>1, <5>2 DEF IsLast
      <4>2. m.highest_trn_addr = IF l = 0 THEN 0 ELSE r.blk[l].trn_addr
        BY <1>11, <2>2
      <4> QED
        BY <3>1, <4>1, <4>2, <1>4, <1>7, <1>12, <2>2
    <3>2. CASE i \in Stored(m)
      <4>1. PICK p \in Stored(m) \cup {0} :
                   /\ IsPred(Stored(m), i, p)
                   /\ m.trns[m.blk[i].trn_addr].prev_trn = IF p = 0 THEN 0 ELSE m.blk[p].trn_addr
        BY <1>11, <3>2 DEF Logged, TrnLog
      <4>2. i \in Nat /\ i < n
        BY <1>11, <3>2
      <4>3. IsPred(Stored(r), i, p)
        <5>1. CASE p = 0 /\ \A j \in Stored(m) : j >= i
          BY <1>12, <4>2, <5>1 DEF IsPred
        <5>2. CASE p \in Stored(m) /\ p < i /\ \A j \in Stored(m) : j < i => j <= p
          BY <1>12, <4>2, <5>2 DEF IsPred
        <5> QED
          BY <4>1, <5>1, <5>2 DEF IsPred
      <4> QED
        BY <3>2, <4>1, <4>3, <1>11, <1>12
    <3> QED
      BY <3>1, <3>2, <1>12
  <2>4. IsLast(Stored(r), n) /\ r.highest_trn_addr = r.blk[n].trn_addr
    BY <1>4, <1>5, <1>11, <1>12 DEF IsLast
  <2>5. \E q \in Stored(r) \cup {0} :
             /\ IsLast(Stored(r), q)
             /\ r.highest_trn_addr = IF q = 0 THEN 0 ELSE r.blk[q].trn_addr
    BY <1>12, <2>4
  <2>6. \A i \in Stored(r) : i # 0
    BY <1>11, <1>12
  <2> QED
    BY <2>1, <2>3, <2>5, <2>6 DEF TrnLog
<1>14. ChainsRecorded(r)
  <2> DEFINE O(i) == r.trns[r.blk[i].trn_addr].orig_pref
  <2>1. \A i \in Stored(m) : O(i) = m.trns[m.blk[i].trn_addr].orig_pref
    BY <1>11
  <2>2. O(n) = pref
    BY <1>4, <1>7
  <2>3. pref # 0 => pref \in Stored(m) /\ m.blk[pref].trn_chain = ca
    BY <1>9, <1>10 DEF IsLast, ChainMembers
  <2>4. pref = 0 => \A i \in Stored(m) : m.blk[i].trn_chain # ca
    BY <1>1, <1>9, <1>10
  <2> HIDE DEF O
  <2>5. ASSUME NEW i \in Stored(r), O(i) # 0
        PROVE  O(i) < i /\ O(i) \in Stored(r) /\ r.blk[O(i)].trn_chain = r.blk[i].trn_chain
    <3>1. CASE i = n
      BY <3>1, <2>2, <2>3, <2>5, <1>4, <1>11, <1>12
    <3>2. CASE i \in Stored(m)
      <4>1. /\ O(i) < i /\ O(i) \in Stored(m) /\ m.blk[O(i)].trn_chain = m.blk[i].trn_chain
        BY <2>1, <2>5, <3>2 DEF Logged, ChainsRecorded
      <4> QED
        BY <3>2, <4>1, <1>11, <1>12
    <3> QED
      BY <3>1, <3>2, <1>12
  <2>6. ASSUME NEW i \in Stored(r), NEW j \in Stored(r), O(i) = 0, O(j) = 0, i # j
        PROVE  r.blk[i].trn_chain # r.blk[j].trn_chain
    <3>1. CASE i = n
      BY <3>1, <2>2, <2>4, <2>6, <1>4, <1>11, <1>12
    <3>2. CASE j = n
      BY <3>2, <2>2, <2>4, <2>6, <1>4, <1>11, <1>12
    <3>3. CASE i \in Stored(m) /\ j \in Stored(m)
      BY <3>3, <2>1, <2>6, <1>11 DEF Logged, ChainsRecorded
    <3> QED
      BY <3>1, <3>2, <3>3, <1>12
  <2> QED
    BY <2>5, <2>6 DEF ChainsRecorded, O
<1> QED
  BY <1>13, <1>14 DEF Logged, r

=============================================================================

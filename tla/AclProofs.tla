----------------------------- MODULE AclProofs -------------------------------
(***************************************************************************)
(* Proofs about Acl, for any servers, callers and principals, any list to  *)
(* start from that is Orderly, and any times and calls.                    *)
(*                                                                         *)
(* The inductive invariant IInv adds to the types who has the lock         *)
(* (LockInv), what a process that changes the list is about to put in      *)
(* place of the one that is there now (ChangeInv), and what the list kept  *)
(* by open_mtg is worth (CacheInv).                                        *)
(***************************************************************************)
EXTENDS Acl, WellFoundedInduction, TLAPS

NamesOn(list) == {list[k].principal : k \in DOMAIN list}

\* What is given when one name's modes are set, or its entry is deleted.
With(g, p, modes) == [q \in DOMAIN g \cup {p} |-> IF q = p THEN modes ELSE g[q]]
Without(g, p) == [q \in DOMAIN g \ {p} |-> g[q]]

\* One call of set_access or delete_access by caller makes new of old.
Allowed(old, new, caller) ==
    /\ Orderly(new)
    /\ AclCheck(old, caller, "c") /\ AclCheck(new, caller, "c")
    /\ \E p \in Names :
          \/ p \in DOMAIN Given(old) /\ Given(new) = Without(Given(old), p)
          \/ \E modes \in SUBSET Modes : Given(new) = With(Given(old), p, modes)

Pcs == {"idle", "open", "modify", "create", "write", "rename", "close", "lock", "work",
        "refused"}

IsFun(f) == f = [x \in DOMAIN f |-> f[x]]

SrvType(r) == /\ IsFun(r) /\ DOMAIN r = {"pc", "op", "p", "modes", "list"}
              /\ r.pc \in Pcs /\ r.op \in {"add", "set", "delete"} /\ r.p \in Names
              /\ r.modes \in SUBSET Modes /\ r.list \in Seq(Entry)

AclType(a, now) == /\ IsFun(a) /\ DOMAIN a = {"list", "mtime", "again"}
                   /\ Orderly(a.list) /\ a.mtime \in 1 .. now /\ a.again \in BOOLEAN

CopyType(c, now) == /\ IsFun(c) /\ DOMAIN c = {"list", "mtime"}
                    /\ c.list \in Seq(Entry) /\ c.mtime \in 0 .. now

FileTypes == /\ clock \in 1 .. MaxTime
             /\ AclType(acl, clock) /\ CopyType(tmp, clock)
             /\ IsFun(cache) /\ DOMAIN cache = Servers
             /\ \A s \in Servers : CopyType(cache[s], clock)
             /\ lock \in Servers \cup {Nobody} /\ calls \in 0 .. MaxCalls

Types == /\ FileTypes
         /\ IsFun(srv) /\ DOMAIN srv = Servers /\ \A s \in Servers : SrvType(srv[s])

Locked(r) == r.pc \in {"modify", "create", "write", "rename", "close", "work"}

\* A process is between its lock and its unlock if, and only if, it has the lock.
LockInv == \A s \in Servers : Locked(srv[s]) <=> lock = s

\* What a process with the lock has in core or on disk, against the list in place.
ChangeOK(r, a, t, caller) ==
    /\ r.pc = "modify" => r.list = a.list /\ r.op # "add"
    /\ r.pc \in {"create", "write", "rename"} => Allowed(a.list, r.list, caller)
    /\ r.pc = "rename" => t.list = r.list /\ t.mtime >= a.mtime

ChangeInv == \A s \in Servers : ChangeOK(srv[s], acl, tmp, Caller[s])

\* A list kept in core is as old as its time says.
KeptOK(c, a) == c.mtime <= a.mtime /\ (c.mtime = a.mtime /\ ~a.again => c.list = a.list)

CacheInv == \A s \in Servers : KeptOK(cache[s], acl)

IInv == Types /\ LockInv /\ ChangeInv /\ CacheInv

-----------------------------------------------------------------------------
(* Lists                                                                   *)

\* A set of numbers has a least one.
LEMMA LeastOf ==
  ASSUME NEW S, S \subseteq Nat, S # {}
  PROVE  Min(S) \in S /\ \A y \in S : Min(S) <= y
<1> DEFINE R == OpToRel(<, Nat)
<1>1. \A x, y \in Nat : x < y => <<x, y>> \in R
  BY DEF OpToRel
<1>2. IsWellFoundedOn(R, Nat)
  BY NatLessThanWellFounded
<1> HIDE DEF R
<1>3. PICK x \in S : \A y \in S : ~(<<y, x>> \in R)
  BY <1>2, WFMin
<1>4. ASSUME NEW y \in S PROVE x <= y
  <2>1. ~(y < x) /\ x \in Nat /\ y \in Nat
    BY <1>1, <1>3
  <2> QED
    BY <2>1
<1> QED
  BY <1>4 DEF Min

\* The first entry for p, or 0.
LEMMA EntryOfIs ==
  ASSUME NEW list \in Seq(Entry), NEW p
  PROVE  LET k == EntryOf(list, p)
         IN  \/ k = 0 /\ \A j \in 1 .. Len(list) : list[j].principal # p
             \/ k \in 1 .. Len(list) /\ list[k].principal = p
<1> DEFINE I == {i \in 1 .. Len(list) : list[i].principal = p}
           k == EntryOf(list, p)
<1>1. k = IF I # {} THEN Min(I) ELSE 0
  BY DEF EntryOf, SelectInSeq
<1>2. I \subseteq Nat
  OBVIOUS
<1> HIDE DEF k
<1>3. CASE I # {}
  <2>1. k \in I
    BY <1>1, <1>2, <1>3, LeastOf
  <2> QED
    BY <2>1 DEF k
<1>4. CASE I = {}
  BY <1>1, <1>4 DEF k
<1> QED
  BY <1>3, <1>4

\* The modes p has are those of the first entry for p or for everybody.
LEMMA AccessIs ==
  ASSUME NEW list \in Seq(Entry), NEW p
  PROVE  \/ /\ AclGetAccess(list, p) = {}
            /\ \A j \in 1 .. Len(list) : list[j].principal \notin {p, Everybody}
         \/ \E k \in 1 .. Len(list) :
               /\ AclGetAccess(list, p) = list[k].modes /\ list[k].principal \in {p, Everybody}
               /\ \A j \in 1 .. Len(list) : list[j].principal \in {p, Everybody} => k <= j
<1> DEFINE I == {i \in 1 .. Len(list) : list[i].principal \in {p, Everybody}}
           m == IF I # {} THEN Min(I) ELSE 0
<1>1. AclGetAccess(list, p) = IF m = 0 THEN {} ELSE list[m].modes
  BY DEF AclGetAccess, SelectInSeq
<1>2. I \subseteq Nat
  OBVIOUS
<1>3. CASE I # {}
  <2>1. m \in I /\ \A y \in I : m <= y
    BY <1>2, <1>3, LeastOf
  <2> HIDE DEF m
  <2>2. m # 0 /\ m \in 1 .. Len(list)
    BY <2>1
  <2> QED
    BY <1>1, <2>1, <2>2
<1>4. CASE I = {}
  BY <1>1, <1>4
<1> QED
  BY <1>3, <1>4

\* In an orderly list each entry counts, the one for everybody for all others.
LEMMA GivenIs ==
  ASSUME NEW list, Orderly(list)
  PROVE  /\ DOMAIN Given(list) = NamesOn(list) /\ NamesOn(list) \subseteq Names
         /\ \A p \in NamesOn(list) : Given(list)[p] = AclGetAccess(list, p)
         /\ \A k \in 1 .. Len(list) : Given(list)[list[k].principal] = list[k].modes
<1>1. /\ list \in Seq(Entry) /\ DOMAIN list = 1 .. Len(list)
      /\ \A k \in 1 .. Len(list) : list[k].principal \in Names
  <2>1. /\ list \in Seq(Entry) /\ DOMAIN list = 1 .. Len(list)
        /\ \A k \in 1 .. Len(list) : list[k] \in Entry
    BY DEF Orderly
  <2>2. \A e \in Entry : e.principal \in Names
    BY DEF Entry
  <2> QED
    BY <2>1, <2>2
<1>2. /\ DOMAIN Given(list) = NamesOn(list) /\ NamesOn(list) \subseteq Names
      /\ \A p \in NamesOn(list) : Given(list)[p] = AclGetAccess(list, p)
  BY <1>1 DEF Given, NamesOn
<1>3. ASSUME NEW k \in 1 .. Len(list) PROVE Given(list)[list[k].principal] = list[k].modes
  <2> DEFINE p == list[k].principal
  <2>1. PICK j \in 1 .. Len(list) :
               /\ AclGetAccess(list, p) = list[j].modes /\ list[j].principal \in {p, Everybody}
               /\ \A i \in 1 .. Len(list) : list[i].principal \in {p, Everybody} => j <= i
    BY <1>1, AccessIs
  <2>2. j <= k
    BY <2>1
  <2>3. j = k
    <3>1. CASE list[j].principal = p
      BY <1>1, <3>1 DEF Orderly
    <3>2. CASE list[j].principal = Everybody
      <4>1. j = Len(list)
        BY <1>1, <3>2 DEF Orderly
      <4> QED
        BY <2>2, <4>1
    <3> QED
      BY <2>1, <3>1, <3>2
  <2>4. p \in NamesOn(list)
    BY <1>1 DEF NamesOn
  <2> QED
    BY <1>2, <2>1, <2>3, <2>4
<1> QED
  BY <1>2, <1>3

\* What acl_check finds is what Access gives.
LEMMA ModesOfIs ==
  ASSUME NEW list, Orderly(list), NEW p
  PROVE  A!ModesOf(Given(list), p) = AclGetAccess(list, p)
<1>1. /\ list \in Seq(Entry) /\ DOMAIN list = 1 .. Len(list)
  BY DEF Orderly
<1>2. /\ DOMAIN Given(list) = NamesOn(list)
      /\ \A q \in NamesOn(list) : Given(list)[q] = AclGetAccess(list, q)
      /\ \A k \in 1 .. Len(list) : Given(list)[list[k].principal] = list[k].modes
  BY GivenIs
<1>3. CASE p \in NamesOn(list)
  BY <1>2, <1>3 DEF A!ModesOf
<1>4. CASE p \notin NamesOn(list) /\ Everybody \in NamesOn(list)
  <2>1. PICK k \in 1 .. Len(list) : list[k].principal = Everybody
    BY <1>1, <1>4 DEF NamesOn
  <2>2. \A j \in 1 .. Len(list) : list[j].principal # p
    BY <1>1, <1>4 DEF NamesOn
  <2>3. PICK j \in 1 .. Len(list) :
               /\ AclGetAccess(list, p) = list[j].modes /\ list[j].principal \in {p, Everybody}
    BY <1>1, <2>1, AccessIs
  <2>4. j = k
    BY <1>1, <2>1, <2>2, <2>3 DEF Orderly
  <2>5. Given(list)[Everybody] = list[k].modes
    BY <1>2, <2>1
  <2> QED
    BY <1>2, <1>4, <2>3, <2>4, <2>5 DEF A!ModesOf
<1>5. CASE p \notin NamesOn(list) /\ Everybody \notin NamesOn(list)
  <2>1. \A j \in 1 .. Len(list) : list[j].principal # p /\ list[j].principal # Everybody
    BY <1>1, <1>5 DEF NamesOn
  <2>2. AclGetAccess(list, p) = {}
    BY <1>1, <2>1, AccessIs
  <2> QED
    BY <1>2, <1>5, <2>2 DEF A!ModesOf
<1> QED
  BY <1>3, <1>4, <1>5

\* What is enough to know to say what a list gives.
LEMMA GivenBy ==
  ASSUME NEW list, Orderly(list), NEW g, g = [q \in DOMAIN g |-> g[q]],
         DOMAIN g = NamesOn(list), \A k \in 1 .. Len(list) : g[list[k].principal] = list[k].modes
  PROVE  Given(list) = g
<1>1. /\ DOMAIN Given(list) = NamesOn(list)
      /\ \A k \in 1 .. Len(list) : Given(list)[list[k].principal] = list[k].modes
      /\ DOMAIN list = 1 .. Len(list)
  BY GivenIs DEF Orderly
<1>2. ASSUME NEW q \in NamesOn(list) PROVE Given(list)[q] = g[q]
  <2>1. PICK k \in 1 .. Len(list) : list[k].principal = q
    BY <1>1 DEF NamesOn
  <2> QED
    BY <1>1, <2>1
<1>3. Given(list) = [q \in NamesOn(list) |-> Given(list)[q]]
  BY <1>1 DEF Given
<1> HIDE DEF Given
<1> QED
  BY <1>2, <1>3

\* Other modes for one name.
LEMMA Replaced ==
  ASSUME NEW list, Orderly(list), NEW k \in 1 .. Len(list), NEW modes \in SUBSET Modes
  PROVE  LET new == [list EXCEPT ![k].modes = modes]
             p == list[k].principal
         IN  /\ Orderly(new)
             /\ Given(new) = With(Given(list), p, modes)
<1> DEFINE new == [list EXCEPT ![k].modes = modes]
           p == list[k].principal
           g == With(Given(list), p, modes)
<1>1. /\ list \in Seq(Entry) /\ DOMAIN list = 1 .. Len(list) /\ Len(list) \in Nat
      /\ \A j \in 1 .. Len(list) : list[j] \in Entry
  BY DEF Orderly
<1>2. \A e \in Entry : [e EXCEPT !.modes = modes] \in Entry
                       /\ [e EXCEPT !.modes = modes].principal = e.principal
                       /\ [e EXCEPT !.modes = modes].modes = modes
  BY DEF Entry
<1>3. /\ new[k] = [list[k] EXCEPT !.modes = modes]
      /\ \A j \in 1 .. Len(list) : j # k => new[j] = list[j]
  BY <1>1
<1>4. new \in Seq(Entry) /\ Len(new) = Len(list) /\ DOMAIN new = 1 .. Len(list)
  <2>1. [list[k] EXCEPT !.modes = modes] \in Entry
    BY <1>1, <1>2
  <2>2. new = [list EXCEPT ![k] = [list[k] EXCEPT !.modes = modes]]
    OBVIOUS
  <2> QED
    BY <1>1, <2>1, <2>2
<1> HIDE DEF new
<1>5. \A j \in 1 .. Len(list) : new[j].principal = list[j].principal
  <2>1. list[k] \in Entry
    BY <1>1
  <2>2. new[k].principal = list[k].principal
    BY <2>1, <1>2, <1>3
  <2>3. ASSUME NEW j \in 1 .. Len(list) PROVE new[j].principal = list[j].principal
    <3>1. CASE j = k
      BY <3>1, <2>2
    <3>2. CASE j # k
      BY <3>2, <1>3
    <3> QED
      BY <3>1, <3>2
  <2> QED
    BY <2>3
<1>6. new[k].modes = modes /\ \A j \in 1 .. Len(list) : j # k => new[j].modes = list[j].modes
  <2>1. list[k] \in Entry
    BY <1>1
  <2>2. new[k].modes = modes
    BY <2>1, <1>2, <1>3
  <2>3. \A j \in 1 .. Len(list) : j # k => new[j].modes = list[j].modes
    BY <1>3
  <2> QED
    BY <2>2, <2>3
<1>7. Orderly(new)
  <2>1. /\ \A i, j \in 1 .. Len(list) : list[i].principal = list[j].principal => i = j
        /\ \A i \in 1 .. Len(list) : list[i].principal = Everybody => i = Len(list)
    BY <1>1 DEF Orderly
  <2>2. /\ \A i, j \in DOMAIN new : new[i].principal = new[j].principal => i = j
        /\ \A i \in DOMAIN new : new[i].principal = Everybody => i = Len(new)
    BY <1>4, <1>5, <2>1
  <2> QED
    BY <1>4, <2>2 DEF Orderly
<1>8. NamesOn(new) = NamesOn(list) /\ p \in NamesOn(list)
  BY <1>1, <1>4, <1>5 DEF NamesOn
<1>9. /\ DOMAIN Given(list) = NamesOn(list)
      /\ \A j \in 1 .. Len(list) : Given(list)[list[j].principal] = list[j].modes
  BY GivenIs
<1>10. DOMAIN g = NamesOn(new) /\ g = [q \in DOMAIN g |-> g[q]]
  BY <1>8, <1>9 DEF With
<1>11. ASSUME NEW j \in 1 .. Len(new) PROVE g[new[j].principal] = new[j].modes
  <2>1. j \in 1 .. Len(list) /\ new[j].principal = list[j].principal
    BY <1>4, <1>5
  <2>2. list[j].principal \in NamesOn(list)
    BY <1>1, <2>1 DEF NamesOn
  <2>3. g[list[j].principal] = IF list[j].principal = p
                               THEN modes ELSE Given(list)[list[j].principal]
    BY <1>9, <2>2 DEF With
  <2>4. list[j].principal = p <=> j = k
    BY <1>1, <2>1 DEF Orderly
  <2> QED
    BY <1>6, <1>9, <2>1, <2>3, <2>4
<1> HIDE DEF g
<1>12. Given(new) = g
  BY <1>7, <1>10, <1>11, GivenBy
<1> QED
  BY <1>7, <1>12 DEF new, g

\* One entry less.
LEMMA Removed ==
  ASSUME NEW list, Orderly(list), NEW k \in 1 .. Len(list)
  PROVE  LET new == RemoveAt(list, k)
             p == list[k].principal
         IN  /\ Orderly(new) /\ p \in DOMAIN Given(list)
             /\ Given(new) = Without(Given(list), p)
<1> DEFINE new == RemoveAt(list, k)
           p == list[k].principal
           n == Len(list)
           Old(j) == IF j < k THEN j ELSE j + 1
           g == Without(Given(list), p)
<1>1. /\ list \in Seq(Entry) /\ DOMAIN list = 1 .. n /\ n \in Nat /\ n > 0
      /\ \A j \in 1 .. n : list[j] \in Entry
  BY DEF Orderly
<1>2. /\ new \in Seq(Entry) /\ Len(new) = n - 1 /\ DOMAIN new = 1 .. n - 1
      /\ \A j \in 1 .. n - 1 : new[j] = list[Old(j)]
  <2> DEFINE a == SubSeq(list, 1, k - 1)
             b == SubSeq(list, k + 1, n)
  <2>1. /\ a \in Seq(Entry) /\ Len(a) = k - 1 /\ \A j \in 1 .. k - 1 : a[j] = list[j]
    BY <1>1
  <2>2. /\ b \in Seq(Entry) /\ Len(b) = n - k /\ \A j \in 1 .. n - k : b[j] = list[j + k]
    <3>1. k + 1 \in Nat /\ n - (k + 1) + 1 = n - k /\ n - k \in Nat
      BY <1>1
    <3>2. b \in Seq(Entry)
      BY <1>1
    <3>3. Len(b) = n - k
      <4>1. Len(b) = IF k + 1 <= n THEN n - (k + 1) + 1 ELSE 0
        BY <1>1, <3>1
      <4> HIDE DEF n, b
      <4> QED
        BY <1>1, <4>1
    <3>4. ASSUME NEW j \in 1 .. n - k PROVE b[j] = list[j + k]
      <4>1. (k + 1) + j - 1 = j + k /\ j \in 1 .. n - (k + 1) + 1
        BY <1>1
      <4>2. b[j] = list[(k + 1) + j - 1]
        BY <1>1, <4>1
      <4> QED
        BY <4>1, <4>2
    <3> QED
      BY <3>2, <3>3, <3>4
  <2>3. new = a \o b
    BY DEF RemoveAt
  <2> HIDE DEF a, b, new, n
  <2>4. /\ new \in Seq(Entry) /\ Len(new) = Len(a) + Len(b)
        /\ \A j \in 1 .. Len(a) + Len(b) : new[j] = IF j <= Len(a) THEN a[j] ELSE b[j - Len(a)]
    BY <2>1, <2>2, <2>3
  <2>5. Len(new) = n - 1
    BY <1>1, <2>1, <2>2, <2>4 DEF n
  <2>6. ASSUME NEW j \in 1 .. n - 1 PROVE new[j] = list[Old(j)]
    <3>1. CASE j < k
      BY <1>1, <2>1, <2>2, <2>4, <2>5, <3>1
    <3>2. CASE ~(j < k)
      <4>1. j - (k - 1) \in 1 .. n - k /\ (j - (k - 1)) + k = j + 1 /\ ~(j <= k - 1)
        BY <1>1, <3>2
      <4>2. new[j] = b[j - (k - 1)]
        BY <2>1, <2>4, <2>5, <4>1
      <4> QED
        BY <2>2, <3>2, <4>1, <4>2
    <3> QED
      BY <3>1, <3>2
  <2> QED
    BY <1>1, <2>4, <2>5, <2>6
<1>3. \A j \in 1 .. n - 1 : Old(j) \in 1 .. n /\ Old(j) # k
  BY <1>1
<1>4. \A i, j \in 1 .. n - 1 : Old(i) = Old(j) => i = j
  BY <1>1
<1>5. \A i \in 1 .. n : i # k => \E j \in 1 .. n - 1 : Old(j) = i
  <2> SUFFICES ASSUME NEW i \in 1 .. n, i # k PROVE \E j \in 1 .. n - 1 : Old(j) = i
    OBVIOUS
  <2>1. CASE i < k
    BY <1>1, <2>1
  <2>2. CASE i > k
    <3>1. i - 1 \in 1 .. n - 1 /\ Old(i - 1) = i
      BY <1>1, <2>2
    <3> QED
      BY <3>1
  <2> QED
    BY <1>1, <2>1, <2>2
<1>6. \A j \in 1 .. n - 1 : Old(j) = n => j = n - 1
  <2> SUFFICES ASSUME NEW j \in 1 .. n - 1, Old(j) = n PROVE j = n - 1
    OBVIOUS
  <2> HIDE DEF n
  <2>1. CASE j < k
    BY <1>1, <2>1
  <2>2. CASE ~(j < k)
    BY <1>1, <2>2
  <2> QED
    BY <2>1, <2>2
<1> HIDE DEF new, Old
<1>7. /\ \A i, j \in 1 .. n : list[i].principal = list[j].principal => i = j
      /\ \A i \in 1 .. n : list[i].principal = Everybody => i = n
  BY <1>1 DEF Orderly
<1>8. Orderly(new)
  <2>1. ASSUME NEW i \in 1 .. n - 1, NEW j \in 1 .. n - 1, new[i].principal = new[j].principal
        PROVE  i = j
    BY <1>2, <1>3, <1>4, <1>7, <2>1
  <2>2. ASSUME NEW i \in 1 .. n - 1, new[i].principal = Everybody PROVE i = n - 1
    BY <1>2, <1>3, <1>6, <1>7, <2>2
  <2> QED
    BY <1>2, <2>1, <2>2 DEF Orderly
<1>9. p \in NamesOn(list) /\ NamesOn(new) = NamesOn(list) \ {p}
  <2>1. p \in NamesOn(list)
    BY <1>1 DEF NamesOn
  <2>2. ASSUME NEW q \in NamesOn(new) PROVE q \in NamesOn(list) \ {p}
    <3>1. PICK j \in 1 .. n - 1 : new[j].principal = q
      BY <1>2 DEF NamesOn
    <3>2. Old(j) \in 1 .. n /\ Old(j) # k /\ list[Old(j)].principal = q
      BY <1>2, <1>3, <3>1
    <3>3. q # p
      BY <1>7, <3>2
    <3> QED
      BY <1>1, <3>2, <3>3 DEF NamesOn
  <2>3. ASSUME NEW q \in NamesOn(list) \ {p} PROVE q \in NamesOn(new)
    <3>1. PICK i \in 1 .. n : list[i].principal = q
      BY <1>1 DEF NamesOn
    <3>2. PICK j \in 1 .. n - 1 : Old(j) = i
      BY <1>5, <2>3, <3>1
    <3> QED
      BY <1>2, <3>1, <3>2 DEF NamesOn
  <2> QED
    BY <2>1, <2>2, <2>3
<1>10. /\ DOMAIN Given(list) = NamesOn(list)
       /\ \A j \in 1 .. n : Given(list)[list[j].principal] = list[j].modes
  BY GivenIs
<1>11. DOMAIN g = NamesOn(new) /\ g = [q \in DOMAIN g |-> g[q]]
  BY <1>9, <1>10 DEF Without
<1>12. ASSUME NEW j \in 1 .. Len(new) PROVE g[new[j].principal] = new[j].modes
  <2>1. j \in 1 .. n - 1 /\ new[j] = list[Old(j)] /\ Old(j) \in 1 .. n /\ Old(j) # k
    BY <1>2, <1>3
  <2>2. list[Old(j)].principal \in DOMAIN Given(list) \ {p}
    BY <1>1, <1>7, <1>10, <2>1 DEF NamesOn
  <2>3. g[list[Old(j)].principal] = Given(list)[list[Old(j)].principal]
    BY <2>2 DEF Without
  <2> QED
    BY <1>10, <2>1, <2>3
<1> HIDE DEF g
<1>13. Given(new) = g
  BY <1>8, <1>11, <1>12, GivenBy
<1> QED
  BY <1>8, <1>9, <1>10, <1>13 DEF new, g

\* Two lists in one.
LEMMA Joined ==
  ASSUME NEW a \in Seq(Entry), NEW b \in Seq(Entry)
  PROVE  /\ a \o b \in Seq(Entry) /\ Len(a \o b) = Len(a) + Len(b)
         /\ \A j \in 1 .. Len(a) + Len(b) :
               (a \o b)[j] = IF j <= Len(a) THEN a[j] ELSE b[j - Len(a)]
  OBVIOUS

\* Where a new entry goes: to the end, but before that of everybody.
LEMMA AddedAt ==
  ASSUME NEW list, Orderly(list), NEW p \in Names, p \notin NamesOn(list),
         NEW modes \in SUBSET Modes
  PROVE  LET new == AclAddAccess(list, p, modes)
             n == Len(list)
         IN  /\ new \in Seq(Entry) /\ Len(new) = n + 1
             /\ \E at \in 1 .. n + 1 :
                   /\ new[at] = [principal |-> p, modes |-> modes]
                   /\ \A j \in 1 .. n : new[IF j < at THEN j ELSE j + 1] = list[j]
                   /\ at = n + 1 \/ (at = n /\ list[n].principal = Everybody)
                   /\ at = n + 1 => n = 0 \/ list[n].principal # Everybody
<1> DEFINE n == Len(list)
           e == [principal |-> p, modes |-> modes]
           new == AclAddAccess(list, p, modes)
<1>1. /\ list \in Seq(Entry) /\ DOMAIN list = 1 .. n /\ n \in Nat
      /\ \A j \in 1 .. n : list[j] \in Entry
  BY DEF Orderly
<1>2. EntryOf(list, p) = 0
  <2>1. \A j \in 1 .. n : list[j].principal # p
    BY <1>1 DEF NamesOn
  <2> QED
    BY <1>1, <2>1, EntryOfIs
<1>3. e \in Entry
  BY DEF Entry
<1>4. new = IF list # << >> /\ Last(list).principal = Everybody
            THEN Append(Front(list), e) \o <<Last(list)>>
            ELSE Append(list, e)
  BY <1>2 DEF AclAddAccess
<1>5. n = 0 <=> list = << >>
  BY <1>1
<1> HIDE DEF new, e
<1>6. CASE n # 0 /\ list[n].principal = Everybody
  <2> DEFINE a == Front(list)
             b == Append(a, e)
             c == <<Last(list)>>
  <2>1. a \in Seq(Entry) /\ Len(a) = n - 1 /\ \A j \in 1 .. n - 1 : a[j] = list[j]
    BY <1>1, <1>6 DEF Front
  <2>2. c \in Seq(Entry) /\ Len(c) = 1 /\ c[1] = list[n]
    BY <1>1, <1>6 DEF Last
  <2>3. new = b \o c
    BY <1>4, <1>5, <1>6 DEF Last
  <2> HIDE DEF a, c
  <2>4. /\ b \in Seq(Entry) /\ Len(b) = n /\ b[n] = e
        /\ \A j \in 1 .. n - 1 : b[j] = list[j]
    <3>1. b \in Seq(Entry) /\ Len(b) = Len(a) + 1 /\ b[Len(a) + 1] = e
      BY <1>3, <2>1
    <3>2. \A j \in 1 .. Len(a) : b[j] = a[j]
      BY <1>3, <2>1
    <3> HIDE DEF b, n
    <3>3. Len(a) + 1 = n
      BY <1>1, <2>1
    <3> QED
      BY <2>1, <3>1, <3>2, <3>3
  <2> HIDE DEF b, n
  <2>5. /\ new \in Seq(Entry) /\ Len(new) = Len(b) + Len(c)
        /\ \A j \in 1 .. Len(b) + Len(c) : new[j] = IF j <= Len(b) THEN b[j] ELSE c[j - Len(b)]
    BY <2>2, <2>3, <2>4, Joined
  <2>6. new \in Seq(Entry) /\ Len(new) = n + 1 /\ \A j \in 1 .. n : new[j] = b[j]
    BY <1>1, <2>2, <2>4, <2>5
  <2>7. new[n + 1] = list[n]
    <3>1. n + 1 \in 1 .. Len(b) + Len(c) /\ ~(n + 1 <= Len(b)) /\ n + 1 - Len(b) = 1
      BY <1>1, <2>2, <2>4
    <3> QED
      BY <2>2, <2>5, <3>1
  <2>8. \A j \in 1 .. n : new[IF j < n THEN j ELSE j + 1] = list[j]
    <3> SUFFICES ASSUME NEW j \in 1 .. n PROVE new[IF j < n THEN j ELSE j + 1] = list[j]
      OBVIOUS
    <3>1. CASE j < n
      BY <1>1, <2>4, <2>6, <3>1
    <3>2. CASE j = n
      BY <1>1, <2>7, <3>2
    <3> QED
      BY <1>1, <3>1, <3>2
  <2>9. n \in 1 .. n + 1 /\ new[n] = e /\ n # n + 1
    BY <1>1, <1>6, <2>4, <2>6
  <2> QED
    BY <1>6, <2>6, <2>8, <2>9 DEF new, n, e
<1>7. CASE ~(n # 0 /\ list[n].principal = Everybody)
  <2>1. new = Append(list, e)
    BY <1>4, <1>5, <1>7 DEF Last
  <2>2. /\ new \in Seq(Entry) /\ Len(new) = n + 1 /\ new[n + 1] = e
        /\ \A j \in 1 .. n : new[j] = list[j]
    BY <1>1, <1>3, <2>1
  <2> HIDE DEF n
  <2>3. \A j \in 1 .. n : new[IF j < n + 1 THEN j ELSE j + 1] = list[j]
    BY <1>1, <2>2
  <2>4. n + 1 \in 1 .. n + 1
    BY <1>1
  <2> QED
    BY <1>7, <2>2, <2>3, <2>4 DEF new, n, e
<1> QED
  BY <1>6, <1>7

\* An entry for a name that had none.
LEMMA Added ==
  ASSUME NEW list, Orderly(list), NEW p \in Names, p \notin NamesOn(list),
         NEW modes \in SUBSET Modes
  PROVE  LET new == AclAddAccess(list, p, modes)
         IN  /\ Orderly(new)
             /\ Given(new) = With(Given(list), p, modes)
<1> DEFINE n == Len(list)
           e == [principal |-> p, modes |-> modes]
           new == AclAddAccess(list, p, modes)
           g == With(Given(list), p, modes)
<1>1. /\ list \in Seq(Entry) /\ DOMAIN list = 1 .. n /\ n \in Nat
      /\ \A j \in 1 .. n : list[j] \in Entry
  BY DEF Orderly
<1>2. /\ \A i, j \in 1 .. n : list[i].principal = list[j].principal => i = j
      /\ \A i \in 1 .. n : list[i].principal = Everybody => i = n
      /\ \A i \in 1 .. n : list[i].principal # p
  <2>1. /\ \A i, j \in 1 .. n : list[i].principal = list[j].principal => i = j
        /\ \A i \in 1 .. n : list[i].principal = Everybody => i = n
    BY <1>1 DEF Orderly
  <2>2. \A i \in 1 .. n : list[i].principal # p
    BY <1>1 DEF NamesOn
  <2> QED
    BY <2>1, <2>2
<1>3. new \in Seq(Entry) /\ Len(new) = n + 1
  BY AddedAt
<1>4. PICK at \in 1 .. n + 1 :
             /\ new[at] = e
             /\ \A j \in 1 .. n : new[IF j < at THEN j ELSE j + 1] = list[j]
             /\ at = n + 1 \/ (at = n /\ list[n].principal = Everybody)
             /\ at = n + 1 => n = 0 \/ list[n].principal # Everybody
  BY AddedAt
<1> DEFINE Old(j) == IF j < at THEN j ELSE j - 1
<1> HIDE DEF new, n
<1>5. e.principal = p /\ e.modes = modes
  OBVIOUS
<1> HIDE DEF e
<1>6. DOMAIN new = 1 .. n + 1
  BY <1>1, <1>3
<1>7. \A j \in 1 .. n + 1 : j # at => Old(j) \in 1 .. n /\ new[j] = list[Old(j)]
  <2> SUFFICES ASSUME NEW j \in 1 .. n + 1, j # at
               PROVE  Old(j) \in 1 .. n /\ new[j] = list[Old(j)]
    OBVIOUS
  <2>1. Old(j) \in 1 .. n /\ (IF Old(j) < at THEN Old(j) ELSE Old(j) + 1) = j
    BY <1>1
  <2> HIDE DEF Old
  <2> QED
    BY <1>4, <2>1
<1>8. \A i, j \in 1 .. n + 1 : i # at /\ j # at /\ Old(i) = Old(j) => i = j
  BY <1>1
<1>9. \A j \in 1 .. n + 1 : j # at /\ Old(j) = n => j = n + 1 \/ at = n + 1
  BY <1>1
<1>10. \A i \in 1 .. n : \E j \in 1 .. n + 1 : j # at /\ Old(j) = i
  <2> SUFFICES ASSUME NEW i \in 1 .. n PROVE \E j \in 1 .. n + 1 : j # at /\ Old(j) = i
    OBVIOUS
  <2>1. CASE i < at
    BY <1>1, <2>1
  <2>2. CASE ~(i < at)
    <3>1. i + 1 \in 1 .. n + 1 /\ i + 1 # at /\ Old(i + 1) = i
      BY <1>1, <2>2
    <3> QED
      BY <3>1
  <2> QED
    BY <2>1, <2>2
<1> HIDE DEF Old
<1>11. Orderly(new)
  <2>1. ASSUME NEW i \in 1 .. n + 1, NEW j \in 1 .. n + 1, new[i].principal = new[j].principal
        PROVE  i = j
    <3>1. CASE i # at /\ j # at
      BY <1>2, <1>7, <1>8, <2>1, <3>1
    <3>2. CASE i = at \/ j = at
      BY <1>2, <1>4, <1>5, <1>7, <2>1, <3>2
    <3> QED
      BY <3>1, <3>2
  <2>2. ASSUME NEW i \in 1 .. n + 1, new[i].principal = Everybody PROVE i = n + 1
    <3>1. CASE i = at
      <4>1. p = Everybody
        BY <1>4, <1>5, <2>2, <3>1
      <4>2. ~(at = n /\ list[n].principal = Everybody)
        BY <1>1, <1>2, <1>4, <4>1
      <4> QED
        BY <1>4, <3>1, <4>2
    <3>2. CASE i # at
      <4>1. Old(i) \in 1 .. n /\ list[Old(i)].principal = Everybody
        BY <1>7, <2>2, <3>2
      <4>2. Old(i) = n /\ n # 0
        BY <1>1, <1>2, <4>1
      <4>3. at # n + 1
        BY <1>4, <4>1, <4>2
      <4> QED
        BY <1>9, <3>2, <4>2, <4>3
    <3> QED
      BY <3>1, <3>2
  <2> QED
    BY <1>3, <1>6, <2>1, <2>2 DEF Orderly
<1>12. NamesOn(new) = NamesOn(list) \cup {p}
  <2>1. ASSUME NEW q \in NamesOn(new) PROVE q \in NamesOn(list) \cup {p}
    <3>1. PICK j \in 1 .. n + 1 : new[j].principal = q
      BY <1>6 DEF NamesOn
    <3> QED
      BY <1>1, <1>4, <1>5, <1>7, <3>1 DEF NamesOn
  <2>2. ASSUME NEW q \in NamesOn(list) PROVE q \in NamesOn(new)
    <3>1. PICK i \in 1 .. n : list[i].principal = q
      BY <1>1 DEF NamesOn
    <3>2. PICK j \in 1 .. n + 1 : j # at /\ Old(j) = i
      BY <1>10
    <3> QED
      BY <1>6, <1>7, <3>1, <3>2 DEF NamesOn
  <2>3. p \in NamesOn(new)
    BY <1>4, <1>5, <1>6 DEF NamesOn
  <2> QED
    BY <2>1, <2>2, <2>3
<1>13. /\ DOMAIN Given(list) = NamesOn(list)
       /\ \A j \in 1 .. n : Given(list)[list[j].principal] = list[j].modes
  BY GivenIs DEF n
<1>14. DOMAIN g = NamesOn(new) /\ g = [q \in DOMAIN g |-> g[q]]
  BY <1>12, <1>13 DEF With
<1>15. ASSUME NEW j \in 1 .. Len(new) PROVE g[new[j].principal] = new[j].modes
  <2>1. CASE j = at
    BY <1>4, <1>5, <2>1 DEF With
  <2>2. CASE j # at
    <3>1. j \in 1 .. n + 1 /\ Old(j) \in 1 .. n /\ new[j] = list[Old(j)]
      BY <1>3, <1>7, <2>2
    <3>2. list[Old(j)].principal \in DOMAIN Given(list) /\ list[Old(j)].principal # p
      BY <1>1, <1>2, <1>13, <3>1 DEF NamesOn
    <3>3. g[list[Old(j)].principal] = Given(list)[list[Old(j)].principal]
      BY <3>2 DEF With
    <3> QED
      BY <1>13, <3>1, <3>3
  <2> QED
    BY <2>1, <2>2
<1> HIDE DEF g
<1>16. Given(new) = g
  BY <1>11, <1>14, <1>15, GivenBy
<1> QED
  BY <1>11, <1>16 DEF new, g

\* What set_access and delete_access make of the list in place is what one call may.
LEMMA ModifiedAllowed ==
  ASSUME NEW s \in Servers, Orderly(srv[s].list), srv[s].p \in Names,
         srv[s].modes \in SUBSET Modes, MayModify(s),
         AclCheck(Modified(s), Caller[s], "c"), srv[s].op \in {"set", "delete"}
  PROVE  Allowed(srv[s].list, Modified(s), Caller[s])
<1> DEFINE list == srv[s].list
           p == srv[s].p
           modes == srv[s].modes
           new == Modified(s)
           k == EntryOf(list, p)
<1>1. list \in Seq(Entry) /\ DOMAIN list = 1 .. Len(list)
  BY DEF Orderly
<1>2. AclCheck(list, Caller[s], "c") /\ AclCheck(new, Caller[s], "c")
  BY DEF MayModify
<1>3. \/ k = 0 /\ \A j \in 1 .. Len(list) : list[j].principal # p
      \/ k \in 1 .. Len(list) /\ list[k].principal = p
  BY <1>1, EntryOfIs
<1>4. k # 0 <=> k \in 1 .. Len(list)
  <2> HIDE DEF k
  <2> QED
    BY <1>3
<1>5. CASE srv[s].op = "delete"
  <2>1. k \in 1 .. Len(list) /\ list[k].principal = p
    BY <1>3, <1>4, <1>5 DEF MayModify
  <2>2. new = RemoveAt(list, k)
    BY <1>5 DEF Modified, AclDeleteAccess
  <2> HIDE DEF new, k, list, p
  <2>3. /\ Orderly(new) /\ p \in DOMAIN Given(list)
        /\ Given(new) = Without(Given(list), p)
    BY <2>1, <2>2, Removed DEF list
  <2>4. p \in Names
    BY DEF p
  <2> QED
    BY <1>2, <2>3, <2>4 DEF Allowed, new, list
<1>6. CASE srv[s].op = "set"
  <2>1. Orderly(new) /\ Given(new) = With(Given(list), p, modes)
    <3>1. CASE k # 0
      <4>1. k \in 1 .. Len(list) /\ list[k].principal = p
        BY <1>3, <1>4, <3>1
      <4>2. new = [list EXCEPT ![k].modes = modes]
        BY <1>6, <3>1 DEF Modified, AclReplaceAccess
      <4>3. Orderly(list) /\ modes \in SUBSET Modes
        OBVIOUS
      <4> HIDE DEF new, k, list, p, modes
      <4>4. Orderly(new)
        BY <4>1, <4>2, <4>3, Replaced
      <4>5. Given(new) = With(Given(list), list[k].principal, modes)
        BY <4>1, <4>2, <4>3, Replaced
      <4> QED
        BY <4>1, <4>4, <4>5
    <3>2. CASE k = 0
      <4>1. p \notin NamesOn(list)
        <5>1. \A j \in 1 .. Len(list) : list[j].principal # p
          BY <1>3, <1>4, <3>2
        <5> QED
          BY <1>1, <5>1 DEF NamesOn
      <4>2. new = AclAddAccess(list, p, modes)
        BY <1>6, <3>2 DEF Modified, AclReplaceAccess
      <4> HIDE DEF new, k, list, p, modes
      <4> QED
        BY <4>1, <4>2, Added DEF list, modes, p
    <3> QED
      BY <3>1, <3>2
  <2> HIDE DEF new, k, list, p, modes
  <2>2. p \in Names /\ modes \in SUBSET Modes
    BY DEF p, modes
  <2> QED
    BY <1>2, <2>1, <2>2 DEF Allowed, new, list
<1> QED
  BY <1>5, <1>6

-----------------------------------------------------------------------------
(* The invariant                                                           *)

\* A step of one process, to r2: only who has the lock changes the files.
LEMMA StepIs ==
  ASSUME IInv, NEW s \in Servers, NEW r2, srv' = [srv EXCEPT ![s] = r2], SrvType(r2),
         FileTypes',
         Locked(r2) <=> lock' = s,
         \A q \in Servers : q # s => (lock' = q <=> lock = q),
         (acl' = acl /\ tmp' = tmp) \/ lock = s,
         ChangeOK(r2, acl', tmp', Caller[s]),
         \A q \in Servers : KeptOK(cache'[q], acl')
  PROVE  IInv'
<1>1. IsFun(srv) /\ DOMAIN srv = Servers /\ \A q \in Servers : SrvType(srv[q])
  BY DEF IInv, Types
<1>2. DOMAIN srv' = Servers /\ srv'[s] = r2 /\ \A q \in Servers : q # s => srv'[q] = srv[q]
  BY <1>1
<1>a. IsFun(srv')
  BY <1>1 DEF IsFun
<1>3. Types'
  <2>1. \A q \in Servers : SrvType(srv'[q])
    BY <1>1, <1>2
  <2> QED
    BY <1>2, <1>a, <2>1 DEF Types, SrvType, IsFun
<1>4. LockInv'
  <2>1. \A q \in Servers : Locked(srv[q]) <=> lock = q
    BY DEF IInv, LockInv
  <2>2. \A q \in Servers : Locked(srv'[q]) <=> lock' = q
    BY <1>2, <2>1
  <2> QED
    BY <2>2 DEF LockInv, Locked
<1>5. ChangeInv'
  <2>1. ASSUME NEW q \in Servers PROVE ChangeOK(srv'[q], acl', tmp', Caller[q])
    <3>1. CASE q = s
      BY <1>2, <3>1
    <3>2. CASE q # s /\ acl' = acl /\ tmp' = tmp
      <4>1. ChangeOK(srv[q], acl, tmp, Caller[q])
        BY DEF IInv, ChangeInv
      <4> QED
        BY <1>2, <3>2, <4>1
    <3>3. CASE q # s /\ lock = s
      <4>1. ~Locked(srv[q])
        BY <3>3 DEF IInv, LockInv
      <4> QED
        BY <1>2, <3>3, <4>1 DEF ChangeOK, Locked
    <3> QED
      BY <3>1, <3>2, <3>3
  <2> QED
    BY <2>1 DEF ChangeInv
<1>6. CacheInv'
  BY DEF CacheInv
<1> QED
  BY <1>3, <1>4, <1>5, <1>6 DEF IInv

\* What is known of one process.
LEMMA SrvKnown ==
  ASSUME IInv, NEW s \in Servers
  PROVE  /\ FileTypes /\ DOMAIN srv = Servers /\ SrvType(srv[s]) /\ s # Nobody
         /\ Locked(srv[s]) <=> lock = s
         /\ ChangeOK(srv[s], acl, tmp, Caller[s])
         /\ \A q \in Servers : KeptOK(cache[q], acl)
<1>1. FileTypes /\ DOMAIN srv = Servers /\ SrvType(srv[s])
  BY DEF IInv, Types
<1>2. s # Nobody
  BY ServersAssumption
<1>3. (Locked(srv[s]) <=> lock = s) /\ ChangeOK(srv[s], acl, tmp, Caller[s])
  BY DEF IInv, LockInv, ChangeInv
<1>4. \A q \in Servers : KeptOK(cache[q], acl)
  BY DEF IInv, CacheInv
<1> QED
  BY <1>1, <1>2, <1>3, <1>4

\* A process without a call.
LEMMA NoCallType == SrvType(NoCall) /\ NoCall.pc = "idle" /\ ~Locked(NoCall)
<1>1. IsFun(NoCall)
  BY DEF NoCall, IsFun
<1>2. /\ DOMAIN NoCall = {"pc", "op", "p", "modes", "list"} /\ NoCall.pc = "idle"
      /\ NoCall.op = "add" /\ NoCall.p = Everybody /\ NoCall.modes = {} /\ NoCall.list = << >>
  BY DEF NoCall
<1> QED
  BY <1>1, <1>2 DEF SrvType, Pcs, Names, Locked

\* Files and locks that stay.
LEMMA FilesStay ==
  ASSUME FileTypes, clock' = clock, acl' = acl, tmp' = tmp, cache' = cache,
         lock' \in Servers \cup {Nobody}, calls' \in 0 .. MaxCalls
  PROVE  FileTypes'
  BY DEF FileTypes, AclType, CopyType, Orderly, IsFun

\* A call that ends gives up the lock if it has it.
LEMMA UnlockKeeps ==
  ASSUME IInv, NEW s \in Servers, Unlock(s), clock' = clock, acl' = acl, tmp' = tmp,
         calls' = calls, cache' = cache \/ cache' = [cache EXCEPT ![s] = NoCache]
  PROVE  IInv'
<1>1. /\ FileTypes /\ s # Nobody /\ \A q \in Servers : KeptOK(cache[q], acl)
  BY SrvKnown
<1>2. SrvType(NoCall) /\ NoCall.pc = "idle" /\ ~Locked(NoCall)
  BY NoCallType
<1>3. srv' = [srv EXCEPT ![s] = NoCall] /\ lock' = IF lock = s THEN Nobody ELSE lock
  BY DEF Unlock
<1>4. lock' \in Servers \cup {Nobody}
  BY <1>1, <1>3 DEF FileTypes
<1>5. \A q \in Servers : q # s => (lock' = q <=> lock = q)
  BY <1>3, ServersAssumption
<1>6. lock' # s
  BY <1>1, <1>3
<1>7. ChangeOK(NoCall, acl', tmp', Caller[s])
  BY <1>2 DEF ChangeOK
<1>8. /\ IsFun(cache) /\ DOMAIN cache = Servers /\ \A q \in Servers : CopyType(cache[q], clock)
      /\ AclType(acl, clock) /\ clock \in Nat
  BY <1>1, BoundsAssumption DEF FileTypes
<1>9. CopyType(NoCache, clock) /\ KeptOK(NoCache, acl)
  <2>1. acl.mtime \in 1 .. clock
    BY <1>8 DEF AclType
  <2>2. /\ DOMAIN NoCache = {"list", "mtime"} /\ NoCache.mtime = 0 /\ NoCache.list \in Seq(Entry)
        /\ IsFun(NoCache)
    BY DEF NoCache, IsFun
  <2> QED
    BY <1>8, <2>1, <2>2 DEF CopyType, KeptOK
<1>10. /\ IsFun(cache') /\ DOMAIN cache' = Servers
       /\ \A q \in Servers : cache'[q] = cache[q] \/ cache'[q] = NoCache
  <2>1. CASE cache' = cache
    BY <1>8, <2>1 DEF IsFun
  <2>2. CASE cache' = [cache EXCEPT ![s] = NoCache]
    BY <1>8, <2>2 DEF IsFun
  <2> QED
    BY <2>1, <2>2
<1>11. \A q \in Servers : KeptOK(cache'[q], acl') /\ CopyType(cache'[q], clock)
  <2> SUFFICES ASSUME NEW q \in Servers PROVE KeptOK(cache'[q], acl') /\ CopyType(cache'[q], clock)
    OBVIOUS
  <2>1. CASE cache'[q] = cache[q]
    BY <1>1, <1>8, <2>1
  <2>2. CASE cache'[q] = NoCache
    BY <1>9, <2>2
  <2> QED
    BY <1>10, <2>1, <2>2
<1>12. FileTypes'
  <2>1. /\ clock \in 1 .. MaxTime /\ AclType(acl, clock) /\ CopyType(tmp, clock)
        /\ calls \in 0 .. MaxCalls
    BY <1>1 DEF FileTypes
  <2> QED
    BY <1>4, <1>10, <1>11, <2>1 DEF FileTypes, AclType, CopyType, Orderly, IsFun
<1> QED
  BY <1>2, <1>3, <1>5, <1>6, <1>7, <1>11, <1>12, StepIs

\* A call comes.
LEMMA CallKeeps ==
  ASSUME IInv, NEW s \in Servers, NEW op \in {"add", "set", "delete"}, NEW p \in Names,
         NEW modes \in SUBSET Modes, Call(s, op, p, modes)
  PROVE  IInv'
<1> DEFINE r2 == [NoCall EXCEPT !.pc = "open", !.op = op, !.p = p, !.modes = modes]
<1>1. /\ srv[s].pc = "idle" /\ calls < MaxCalls /\ calls' = calls + 1
      /\ srv' = [srv EXCEPT ![s] = r2]
      /\ clock' = clock /\ acl' = acl /\ tmp' = tmp /\ lock' = lock /\ cache' = cache
  BY DEF Call
<1>2. /\ FileTypes /\ (Locked(srv[s]) <=> lock = s) /\ \A q \in Servers : KeptOK(cache[q], acl)
  BY SrvKnown
<1>3. SrvType(r2) /\ r2.pc = "open"
  <2>1. SrvType(NoCall)
    BY NoCallType
  <2>2. IsFun(r2)
    BY DEF IsFun, NoCall
  <2>3. /\ DOMAIN r2 = DOMAIN NoCall /\ r2.pc = "open" /\ r2.op = op /\ r2.p = p
        /\ r2.modes = modes /\ r2.list = NoCall.list
    BY DEF NoCall
  <2> HIDE DEF r2
  <2> QED
    BY <2>1, <2>2, <2>3 DEF SrvType, Pcs
<1>4. FileTypes'
  <2>1. calls \in 0 .. MaxCalls /\ lock \in Servers \cup {Nobody}
    BY <1>2 DEF FileTypes
  <2>2. calls' \in 0 .. MaxCalls
    BY <1>1, <2>1, BoundsAssumption
  <2> QED
    BY <1>1, <1>2, <2>1, <2>2, FilesStay
<1> HIDE DEF r2
<1>5. ~Locked(r2) /\ lock' # s
  BY <1>1, <1>2, <1>3 DEF Locked
<1>6. ChangeOK(r2, acl', tmp', Caller[s])
  BY <1>3 DEF ChangeOK
<1>7. \A q \in Servers : KeptOK(cache'[q], acl')
  BY <1>1, <1>2
<1> QED
  BY <1>1, <1>3, <1>4, <1>5, <1>6, <1>7, StepIs

\* locked_open_mtg ...
LEMMA LockedOpenKeeps ==
  ASSUME IInv, NEW s \in Servers, LockedOpenMtg(s)
  PROVE  IInv'
<1> DEFINE r2 == [srv[s] EXCEPT !.pc = "modify", !.list = acl.list]
<1>1. /\ srv[s].op # "add" /\ lock = Nobody /\ lock' = s /\ srv' = [srv EXCEPT ![s] = r2]
      /\ clock' = clock /\ acl' = acl /\ tmp' = tmp /\ calls' = calls /\ cache' = cache
  BY DEF LockedOpenMtg
<1>2. /\ FileTypes /\ SrvType(srv[s]) /\ s # Nobody
      /\ \A q \in Servers : KeptOK(cache[q], acl)
  BY SrvKnown
<1>3. acl.list \in Seq(Entry)
  BY <1>2 DEF FileTypes, AclType, Orderly
<1>4. SrvType(r2) /\ r2.pc = "modify" /\ r2.list = acl.list /\ r2.op = srv[s].op
  BY <1>2, <1>3 DEF SrvType, Pcs, IsFun
<1>5. FileTypes'
  <2>1. calls \in 0 .. MaxCalls
    BY <1>2 DEF FileTypes
  <2> QED
    BY <1>1, <1>2, <2>1, FilesStay
<1> HIDE DEF r2
<1>6. Locked(r2) /\ \A q \in Servers : q # s => (lock' = q <=> lock = q)
  BY <1>1, <1>4, ServersAssumption DEF Locked
<1>7. ChangeOK(r2, acl', tmp', Caller[s])
  BY <1>1, <1>4 DEF ChangeOK
<1>8. \A q \in Servers : KeptOK(cache'[q], acl')
  BY <1>1, <1>2
<1> QED
  BY <1>1, <1>4, <1>5, <1>6, <1>7, <1>8, StepIs

\* ... that fails.
LEMMA LockedOpenFailsKeeps ==
  ASSUME IInv, NEW s \in Servers, LockedOpenFails(s)
  PROVE  IInv'
<1>1. /\ srv[s].pc = "open" /\ srv' = [srv EXCEPT ![s] = NoCall]
      /\ clock' = clock /\ acl' = acl /\ tmp' = tmp /\ lock' = lock /\ calls' = calls
      /\ cache' = cache
  BY DEF LockedOpenFails
<1>2. /\ FileTypes /\ (Locked(srv[s]) <=> lock = s) /\ \A q \in Servers : KeptOK(cache[q], acl)
  BY SrvKnown
<1>3. SrvType(NoCall) /\ NoCall.pc = "idle" /\ ~Locked(NoCall)
  BY NoCallType
<1>4. FileTypes'
  <2>1. calls \in 0 .. MaxCalls /\ lock \in Servers \cup {Nobody}
    BY <1>2 DEF FileTypes
  <2> QED
    BY <1>1, <1>2, <2>1, FilesStay
<1>5. lock' # s
  BY <1>1, <1>2 DEF Locked
<1>6. ChangeOK(NoCall, acl', tmp', Caller[s])
  BY <1>3 DEF ChangeOK
<1>7. \A q \in Servers : KeptOK(cache'[q], acl')
  BY <1>1, <1>2
<1> QED
  BY <1>1, <1>3, <1>4, <1>5, <1>6, <1>7, StepIs

\* The list is changed in core: what comes out is allowed.
LEMMA ModifyKeeps ==
  ASSUME IInv, NEW s \in Servers, Modify(s)
  PROVE  IInv'
<1> DEFINE new == Modified(s)
           r2 == [NoCall EXCEPT !.pc = "create", !.list = new]
<1>1. /\ srv[s].pc = "modify" /\ MayModify(s) /\ AclCheck(new, Caller[s], "c")
      /\ srv' = [srv EXCEPT ![s] = r2]
      /\ clock' = clock /\ acl' = acl /\ tmp' = tmp /\ lock' = lock /\ calls' = calls
      /\ cache' = cache
  BY DEF Modify
<1>2. /\ FileTypes /\ (Locked(srv[s]) <=> lock = s) /\ SrvType(srv[s])
      /\ ChangeOK(srv[s], acl, tmp, Caller[s])
      /\ \A q \in Servers : KeptOK(cache[q], acl)
  BY SrvKnown
<1>3. srv[s].list = acl.list /\ srv[s].op # "add"
  BY <1>1, <1>2 DEF ChangeOK
<1>4. Orderly(srv[s].list)
  BY <1>2, <1>3 DEF FileTypes, AclType
<1>5. srv[s].p \in Names /\ srv[s].modes \in SUBSET Modes /\ srv[s].op \in {"set", "delete"}
  BY <1>2, <1>3 DEF SrvType
<1>6. Allowed(acl.list, new, Caller[s])
  BY <1>1, <1>3, <1>4, <1>5, ModifiedAllowed
<1>7. new \in Seq(Entry)
  BY <1>6 DEF Allowed, Orderly
<1> HIDE DEF new
<1>8. SrvType(r2) /\ r2.pc = "create" /\ r2.list = new
  BY <1>7 DEF SrvType, NoCall, Pcs, Names, IsFun
<1> HIDE DEF r2
<1>9. FileTypes'
  <2>1. calls \in 0 .. MaxCalls /\ lock \in Servers \cup {Nobody}
    BY <1>2 DEF FileTypes
  <2> QED
    BY <1>1, <1>2, <2>1, FilesStay
<1>10. Locked(r2) /\ lock' = s
  BY <1>1, <1>2, <1>8 DEF Locked
<1>11. ChangeOK(r2, acl', tmp', Caller[s])
  BY <1>1, <1>6, <1>8 DEF ChangeOK
<1>12. \A q \in Servers : KeptOK(cache'[q], acl')
  BY <1>1, <1>2
<1> QED
  BY <1>1, <1>8, <1>9, <1>10, <1>11, <1>12, StepIs

\* A process goes on to another step, the lock as it was.
LEMMA GoesOn ==
  ASSUME IInv, NEW s \in Servers, NEW pc \in Pcs, Goto(s, pc)
  PROVE  LET r2 == [srv[s] EXCEPT !.pc = pc]
         IN  /\ srv' = [srv EXCEPT ![s] = r2] /\ SrvType(r2) /\ r2.pc = pc
             /\ r2.list = srv[s].list
<1>1. SrvType(srv[s])
  BY SrvKnown
<1> QED
  BY <1>1 DEF Goto, SrvType, IsFun

\* acl~ is emptied ...
LEMMA CreateTmpKeeps ==
  ASSUME IInv, NEW s \in Servers, CreateTmp(s)
  PROVE  IInv'
<1> DEFINE r2 == [srv[s] EXCEPT !.pc = "write"]
<1>1. /\ srv[s].pc = "create" /\ Goto(s, "write") /\ tmp' = NoFile
      /\ clock' = clock /\ acl' = acl /\ lock' = lock /\ calls' = calls /\ cache' = cache
  BY DEF CreateTmp
<1>2. /\ FileTypes /\ (Locked(srv[s]) <=> lock = s)
      /\ ChangeOK(srv[s], acl, tmp, Caller[s]) /\ \A q \in Servers : KeptOK(cache[q], acl)
  BY SrvKnown
<1>3. /\ srv' = [srv EXCEPT ![s] = r2] /\ SrvType(r2) /\ r2.pc = "write"
      /\ r2.list = srv[s].list
  <2>1. "write" \in Pcs
    BY DEF Pcs
  <2> QED
    BY <1>1, <2>1, GoesOn
<1> HIDE DEF r2
<1>4. CopyType(NoFile, clock)
  <2>1. /\ DOMAIN NoFile = {"list", "mtime"} /\ NoFile.mtime = 0 /\ NoFile.list \in Seq(Entry)
        /\ IsFun(NoFile)
    BY DEF NoFile, IsFun
  <2>2. clock \in Nat
    BY <1>2, BoundsAssumption DEF FileTypes
  <2> QED
    BY <2>1, <2>2 DEF CopyType
<1>5. FileTypes'
  BY <1>1, <1>2, <1>4 DEF FileTypes, AclType, CopyType, Orderly, IsFun
<1>6. Locked(r2) /\ lock = s
  BY <1>1, <1>2, <1>3 DEF Locked
<1>7. ChangeOK(r2, acl', tmp', Caller[s])
  BY <1>1, <1>2, <1>3 DEF ChangeOK
<1>8. \A q \in Servers : KeptOK(cache'[q], acl')
  BY <1>1, <1>2
<1> QED
  BY <1>1, <1>3, <1>5, <1>6, <1>7, <1>8, StepIs

\* ... and written.
LEMMA WriteTmpKeeps ==
  ASSUME IInv, NEW s \in Servers, WriteTmp(s)
  PROVE  IInv'
<1> DEFINE r2 == [srv[s] EXCEPT !.pc = "rename"]
           t == [list |-> srv[s].list, mtime |-> clock]
<1>1. /\ srv[s].pc = "write" /\ Goto(s, "rename") /\ tmp' = t
      /\ clock' = clock /\ acl' = acl /\ lock' = lock /\ calls' = calls /\ cache' = cache
  BY DEF WriteTmp
<1>2. /\ FileTypes /\ (Locked(srv[s]) <=> lock = s) /\ SrvType(srv[s])
      /\ ChangeOK(srv[s], acl, tmp, Caller[s]) /\ \A q \in Servers : KeptOK(cache[q], acl)
  BY SrvKnown
<1>3. /\ srv' = [srv EXCEPT ![s] = r2] /\ SrvType(r2) /\ r2.pc = "rename"
      /\ r2.list = srv[s].list
  <2>1. "rename" \in Pcs
    BY DEF Pcs
  <2> QED
    BY <1>1, <2>1, GoesOn
<1>4. IsFun(t) /\ DOMAIN t = {"list", "mtime"} /\ t.list = srv[s].list /\ t.mtime = clock
  BY DEF IsFun
<1> HIDE DEF r2, t
<1>5. clock \in Nat /\ acl.mtime \in 1 .. clock
  BY <1>2, BoundsAssumption DEF FileTypes, AclType
<1>6. CopyType(t, clock)
  BY <1>2, <1>4, <1>5 DEF CopyType, SrvType
<1>7. FileTypes'
  BY <1>1, <1>2, <1>6 DEF FileTypes, AclType, CopyType, Orderly, IsFun
<1>8. Locked(r2) /\ lock = s
  BY <1>1, <1>2, <1>3 DEF Locked
<1>9. ChangeOK(r2, acl', tmp', Caller[s])
  <2>1. Allowed(acl.list, r2.list, Caller[s])
    BY <1>1, <1>2, <1>3 DEF ChangeOK
  <2> QED
    BY <1>1, <1>3, <1>4, <1>5, <2>1 DEF ChangeOK
<1>10. \A q \in Servers : KeptOK(cache'[q], acl')
  BY <1>1, <1>2
<1> QED
  BY <1>1, <1>3, <1>7, <1>8, <1>9, <1>10, StepIs

\* rename: a list that is kept in core is no newer than the one that has gone, and the
\* new one is later or marked as written in the same second.
LEMMA RenameKeeps ==
  ASSUME IInv, NEW s \in Servers, Rename(s)
  PROVE  IInv'
<1> DEFINE r2 == [srv[s] EXCEPT !.pc = "close"]
           a == [list |-> tmp.list, mtime |-> tmp.mtime, again |-> tmp.mtime = acl.mtime]
<1>1. /\ srv[s].pc = "rename" /\ Goto(s, "close") /\ tmp' = NoFile /\ acl' = a
      /\ clock' = clock /\ lock' = lock /\ calls' = calls /\ cache' = cache
  BY DEF Rename
<1>2. /\ FileTypes /\ (Locked(srv[s]) <=> lock = s)
      /\ ChangeOK(srv[s], acl, tmp, Caller[s]) /\ \A q \in Servers : KeptOK(cache[q], acl)
  BY SrvKnown
<1>3. /\ srv' = [srv EXCEPT ![s] = r2] /\ SrvType(r2) /\ r2.pc = "close"
  <2>1. "close" \in Pcs
    BY DEF Pcs
  <2> QED
    BY <1>1, <2>1, GoesOn
<1>4. /\ IsFun(a) /\ DOMAIN a = {"list", "mtime", "again"}
      /\ a.list = tmp.list /\ a.mtime = tmp.mtime
      /\ a.again \in BOOLEAN /\ (a.again <=> tmp.mtime = acl.mtime)
  BY DEF IsFun
<1> HIDE DEF r2, a
<1>5. tmp.list = srv[s].list /\ tmp.mtime >= acl.mtime /\ Orderly(tmp.list)
  BY <1>1, <1>2 DEF ChangeOK, Allowed
<1>6. clock \in Nat /\ acl.mtime \in 1 .. clock /\ tmp.mtime \in 0 .. clock
  BY <1>2, BoundsAssumption DEF FileTypes, AclType, CopyType
<1>7. AclType(a, clock)
  BY <1>4, <1>5, <1>6 DEF AclType
<1>8. CopyType(NoFile, clock)
  <2>1. /\ DOMAIN NoFile = {"list", "mtime"} /\ NoFile.mtime = 0 /\ NoFile.list \in Seq(Entry)
        /\ IsFun(NoFile)
    BY DEF NoFile, IsFun
  <2> QED
    BY <1>6, <2>1 DEF CopyType
<1>9. FileTypes'
  BY <1>1, <1>2, <1>7, <1>8 DEF FileTypes, AclType, CopyType, Orderly, IsFun
<1>10. Locked(r2) /\ lock = s
  BY <1>1, <1>2, <1>3 DEF Locked
<1>11. ChangeOK(r2, acl', tmp', Caller[s])
  BY <1>3 DEF ChangeOK
<1>12. ASSUME NEW q \in Servers PROVE KeptOK(cache'[q], acl')
  <2>1. cache[q].mtime \in Nat /\ cache[q].mtime <= acl.mtime
    BY <1>2, <1>6 DEF FileTypes, CopyType, KeptOK
  <2>2. /\ cache[q].mtime <= a.mtime
        /\ cache[q].mtime = a.mtime => a.again
    <3>1. cache[q].mtime <= tmp.mtime
      BY <1>5, <1>6, <2>1
    <3>2. cache[q].mtime = tmp.mtime => tmp.mtime = acl.mtime
      BY <1>5, <1>6, <2>1
    <3> QED
      BY <1>4, <3>1, <3>2
  <2> QED
    BY <1>1, <2>2 DEF KeptOK
<1> QED
  BY <1>1, <1>3, <1>9, <1>10, <1>11, <1>12, StepIs

\* open_mtg reads the list again if the file's time is later.
LEMMA CachedIs ==
  ASSUME IInv, NEW s \in Servers
  PROVE  /\ CopyType(Cached(s), clock) /\ KeptOK(Cached(s), acl)
         /\ ~acl.again => Cached(s).list = acl.list
<1>1. /\ FileTypes /\ KeptOK(cache[s], acl)
  BY SrvKnown
<1>2. /\ clock \in Nat /\ acl.mtime \in 1 .. clock /\ acl.list \in Seq(Entry)
      /\ CopyType(cache[s], clock)
  BY <1>1, BoundsAssumption DEF FileTypes, AclType, Orderly
<1>3. CASE cache[s].mtime # 0 /\ acl.mtime <= cache[s].mtime
  <2>1. Cached(s) = cache[s]
    BY <1>3 DEF Cached
  <2>2. cache[s].mtime = acl.mtime
    BY <1>1, <1>2, <1>3 DEF KeptOK, CopyType
  <2> QED
    BY <1>1, <1>2, <2>1, <2>2 DEF KeptOK
<1>4. CASE ~(cache[s].mtime # 0 /\ acl.mtime <= cache[s].mtime)
  <2> DEFINE c == [list |-> acl.list, mtime |-> acl.mtime]
  <2>1. Cached(s) = c
    BY <1>4 DEF Cached
  <2>2. IsFun(c) /\ DOMAIN c = {"list", "mtime"} /\ c.list = acl.list /\ c.mtime = acl.mtime
    BY DEF IsFun
  <2> HIDE DEF c
  <2> QED
    BY <1>2, <2>1, <2>2 DEF KeptOK, CopyType
<1> QED
  BY <1>3, <1>4

\* open_mtg.
LEMMA OpenMtgKeeps ==
  ASSUME IInv, NEW s \in Servers, OpenMtg(s)
  PROVE  IInv'
<1> DEFINE pc == IF AclCheck(Cached(s).list, Caller[s], "w") THEN "lock" ELSE "refused"
           r2 == [srv[s] EXCEPT !.pc = pc]
<1>1. /\ srv[s].pc = "open" /\ Goto(s, pc) /\ cache' = [cache EXCEPT ![s] = Cached(s)]
      /\ clock' = clock /\ acl' = acl /\ tmp' = tmp /\ lock' = lock /\ calls' = calls
  BY DEF OpenMtg
<1>2. /\ FileTypes /\ (Locked(srv[s]) <=> lock = s) /\ \A q \in Servers : KeptOK(cache[q], acl)
  BY SrvKnown
<1>3. pc \in {"lock", "refused"} /\ pc \in Pcs
  BY DEF Pcs
<1> HIDE DEF pc
<1>4. srv' = [srv EXCEPT ![s] = r2] /\ SrvType(r2) /\ r2.pc = pc
  BY <1>1, <1>3, GoesOn
<1> HIDE DEF r2
<1>5. CopyType(Cached(s), clock) /\ KeptOK(Cached(s), acl)
  BY CachedIs
<1>6. IsFun(cache) /\ DOMAIN cache = Servers /\ \A q \in Servers : CopyType(cache[q], clock)
  BY <1>2 DEF FileTypes
<1>7. /\ IsFun(cache') /\ DOMAIN cache' = Servers
      /\ \A q \in Servers : CopyType(cache'[q], clock) /\ KeptOK(cache'[q], acl)
  BY <1>1, <1>2, <1>5, <1>6 DEF IsFun
<1>8. FileTypes'
  BY <1>1, <1>2, <1>7 DEF FileTypes, AclType, CopyType, Orderly, IsFun
<1>9. ~Locked(r2) /\ lock' # s
  BY <1>1, <1>2, <1>3, <1>4 DEF Locked
<1>10. ChangeOK(r2, acl', tmp', Caller[s])
  BY <1>3, <1>4 DEF ChangeOK
<1>11. \A q \in Servers : KeptOK(cache'[q], acl')
  BY <1>1, <1>7
<1> QED
  BY <1>1, <1>4, <1>8, <1>9, <1>10, <1>11, StepIs

\* aopen waits for the lock.
LEMMA LockControlKeeps ==
  ASSUME IInv, NEW s \in Servers, LockControl(s)
  PROVE  IInv'
<1> DEFINE r2 == [srv[s] EXCEPT !.pc = "work"]
<1>1. /\ lock = Nobody /\ lock' = s /\ Goto(s, "work")
      /\ clock' = clock /\ acl' = acl /\ tmp' = tmp /\ calls' = calls /\ cache' = cache
  BY DEF LockControl
<1>2. /\ FileTypes /\ \A q \in Servers : KeptOK(cache[q], acl)
  BY SrvKnown
<1>3. srv' = [srv EXCEPT ![s] = r2] /\ SrvType(r2) /\ r2.pc = "work"
  <2>1. "work" \in Pcs
    BY DEF Pcs
  <2> QED
    BY <1>1, <2>1, GoesOn
<1> HIDE DEF r2
<1>4. FileTypes'
  <2>1. calls \in 0 .. MaxCalls
    BY <1>2 DEF FileTypes
  <2> QED
    BY <1>1, <1>2, <2>1, FilesStay
<1>5. Locked(r2) /\ \A q \in Servers : q # s => (lock' = q <=> lock = q)
  BY <1>1, <1>3, ServersAssumption DEF Locked
<1>6. ChangeOK(r2, acl', tmp', Caller[s])
  BY <1>3 DEF ChangeOK
<1>7. \A q \in Servers : KeptOK(cache'[q], acl')
  BY <1>1, <1>2
<1> QED
  BY <1>1, <1>3, <1>4, <1>5, <1>6, <1>7, StepIs

\* Time passes.
LEMMA TickKeeps ==
  ASSUME IInv, Tick
  PROVE  IInv'
<1>1. /\ clock < MaxTime /\ clock' = clock + 1 /\ acl' = acl /\ tmp' = tmp /\ lock' = lock
      /\ srv' = srv /\ cache' = cache /\ calls' = calls
  BY DEF Tick
<1>2. FileTypes /\ IsFun(srv) /\ DOMAIN srv = Servers /\ \A s \in Servers : SrvType(srv[s])
  BY DEF IInv, Types
<1>3. clock \in 1 .. MaxTime /\ clock \in Nat
  BY <1>2, BoundsAssumption DEF FileTypes
<1>4. \A k \in 1 .. clock : k \in 1 .. clock + 1
  BY <1>3
<1>5. \A k \in 0 .. clock : k \in 0 .. clock + 1
  BY <1>3
<1>6. AclType(acl, clock + 1) /\ CopyType(tmp, clock + 1)
      /\ \A s \in Servers : CopyType(cache[s], clock + 1)
  BY <1>2, <1>4, <1>5 DEF FileTypes, AclType, CopyType
<1>7. clock' \in 1 .. MaxTime
  BY <1>1, <1>3, BoundsAssumption
<1>8. FileTypes'
  BY <1>1, <1>2, <1>6, <1>7 DEF FileTypes, AclType, CopyType, Orderly, IsFun
<1>9. Types'
  BY <1>1, <1>2, <1>8 DEF Types, SrvType, IsFun
<1>10. LockInv' /\ CacheInv'
  BY <1>1 DEF IInv, LockInv, Locked, CacheInv, KeptOK
<1>11. ChangeInv'
  <2>1. \A s \in Servers : ChangeOK(srv[s], acl, tmp, Caller[s])
    BY DEF IInv, ChangeInv
  <2> QED
    BY <1>1, <2>1 DEF ChangeInv
<1> QED
  BY <1>9, <1>10, <1>11 DEF IInv

\* At the start nobody has the lock, and nobody has a list in core.
LEMMA Initially == Init => IInv
<1>1. SUFFICES ASSUME Init PROVE IInv
  OBVIOUS
<1>2. /\ clock = 1 /\ tmp = NoFile /\ lock = Nobody /\ calls = 0
      /\ srv = [s \in Servers |-> NoCall] /\ cache = [s \in Servers |-> NoCache]
      /\ acl = [list |-> FirstAcl, mtime |-> 1, again |-> FALSE]
  BY <1>1 DEF Init
<1>3. /\ IsFun(acl) /\ DOMAIN acl = {"list", "mtime", "again"}
      /\ acl.list = FirstAcl /\ acl.mtime = 1
      /\ acl.again = FALSE
  BY <1>2 DEF IsFun
<1>4. AclType(acl, 1)
  <2>1. acl.mtime \in 1 .. 1
    BY <1>3
  <2>2. acl.again \in BOOLEAN
    BY <1>3, Zenon
  <2> QED
    BY <1>3, <2>1, <2>2, FirstAclAssumption DEF AclType
<1>5. /\ DOMAIN NoFile = {"list", "mtime"} /\ NoFile.mtime = 0 /\ NoFile.list \in Seq(Entry)
      /\ DOMAIN NoCache = {"list", "mtime"} /\ NoCache.mtime = 0 /\ NoCache.list \in Seq(Entry)
      /\ IsFun(NoFile) /\ IsFun(NoCache)
  BY DEF NoFile, NoCache, IsFun
<1>6. CopyType(NoFile, 1) /\ CopyType(NoCache, 1) /\ KeptOK(NoCache, acl)
  BY <1>3, <1>5 DEF CopyType, KeptOK
<1>7. SrvType(NoCall) /\ NoCall.pc = "idle" /\ ~Locked(NoCall)
  BY NoCallType
<1>a. IsFun(srv) /\ IsFun(cache)
  BY <1>2 DEF IsFun
<1>8. FileTypes
  <2>1. 1 \in 1 .. MaxTime /\ 0 \in 0 .. MaxCalls
    BY BoundsAssumption
  <2> QED
    BY <1>2, <1>a, <1>4, <1>6, <2>1 DEF FileTypes
<1>9. Types
  BY <1>2, <1>a, <1>7, <1>8 DEF Types
<1>10. LockInv
  BY <1>2, <1>7, ServersAssumption DEF LockInv
<1>11. ChangeInv
  BY <1>2, <1>7 DEF ChangeInv, ChangeOK
<1>12. CacheInv
  BY <1>2, <1>6 DEF CacheInv
<1> QED
  BY <1>9, <1>10, <1>11, <1>12 DEF IInv

\* A step that gives up the lock, if the process has it, and changes nothing else.
LEMMA EndsKeep ==
  ASSUME IInv, NEW s \in Servers,
         ModifyRefused(s) \/ CloseFails(s) \/ Close(s) \/ Answer(s) \/ Dies(s)
  PROVE  IInv'
<1>1. /\ Unlock(s) /\ clock' = clock /\ acl' = acl /\ tmp' = tmp /\ calls' = calls
      /\ cache' = cache \/ cache' = [cache EXCEPT ![s] = NoCache]
  BY DEF ModifyRefused, CloseFails, Close, Answer, Dies
<1> QED
  BY <1>1, UnlockKeeps

\* Every step keeps the invariant.
LEMMA StepKeeps == IInv /\ [Next]_vars => IInv'
<1>1. SUFFICES ASSUME IInv, [Next]_vars PROVE IInv'
  OBVIOUS
<1>2. ASSUME NEW s \in Servers, Call(s, "add", Everybody, {}) PROVE IInv'
  <2>1. Everybody \in Names /\ {} \in SUBSET Modes
    BY DEF Names
  <2> QED
    BY <1>1, <1>2, <2>1, CallKeeps
<1>3. ASSUME NEW s \in Servers, NEW p \in Names, Call(s, "delete", p, {}) PROVE IInv'
  <2>1. {} \in SUBSET Modes
    OBVIOUS
  <2> QED
    BY <1>1, <1>3, <2>1, CallKeeps
<1>4. ASSUME NEW s \in Servers, NEW p \in Names, NEW modes \in SUBSET Modes,
             Call(s, "set", p, modes)
      PROVE  IInv'
  BY <1>1, <1>4, CallKeeps
<1>5. ASSUME NEW s \in Servers, Step(s) PROVE IInv'
  BY <1>1, <1>5, LockedOpenKeeps, LockedOpenFailsKeeps, ModifyKeeps, CreateTmpKeeps,
     WriteTmpKeeps, RenameKeeps, OpenMtgKeeps, LockControlKeeps, EndsKeep DEF Step
<1>6. ASSUME NEW s \in Servers, Dies(s) PROVE IInv'
  BY <1>1, <1>6, EndsKeep
<1>7. CASE Tick
  BY <1>1, <1>7, TickKeeps
<1>8. CASE UNCHANGED vars
  <2>1. /\ clock' = clock /\ acl' = acl /\ tmp' = tmp /\ lock' = lock
        /\ srv' = srv /\ cache' = cache /\ calls' = calls
    BY <1>8 DEF vars
  <2>2. Types'
    BY <1>1, <2>1 DEF IInv, Types, FileTypes, AclType, CopyType, SrvType, Orderly, IsFun
  <2>3. LockInv' /\ CacheInv'
    BY <1>1, <2>1 DEF IInv, LockInv, Locked, CacheInv, KeptOK
  <2>4. ChangeInv'
    BY <1>1, <2>1 DEF IInv, ChangeInv
  <2> QED
    BY <2>2, <2>3, <2>4 DEF IInv
<1> QED
  BY <1>1, <1>2, <1>3, <1>4, <1>5, <1>6, <1>7, <1>8 DEF Next

\* The inductive invariant holds in every reachable state.
THEOREM Invariance == Spec => []IInv
  BY Initially, StepKeeps, PTL DEF Spec

\* Lists, files and processes are of their types, and no file or copy is from the future.
THEOREM TypeCorrect == Spec => []TypeOK
<1>1. ASSUME IInv PROVE TypeOK
  <2>1. FileTypes /\ IsFun(srv) /\ DOMAIN srv = Servers /\ \A s \in Servers : SrvType(srv[s])
    BY <1>1 DEF IInv, Types
  <2>2. acl \in [list : Seq(Entry), mtime : 1 .. clock, again : BOOLEAN]
    <3>1. /\ acl.list \in Seq(Entry) /\ acl.mtime \in 1 .. clock /\ acl.again \in BOOLEAN
          /\ acl = [list |-> acl.list, mtime |-> acl.mtime, again |-> acl.again]
      BY <2>1 DEF FileTypes, AclType, Orderly, IsFun
    <3> QED
      BY <3>1
  <2>3. \A c : CopyType(c, clock) => c \in [list : Seq(Entry), mtime : 0 .. clock]
    <3> SUFFICES ASSUME NEW c, CopyType(c, clock)
                 PROVE  c \in [list : Seq(Entry), mtime : 0 .. clock]
      OBVIOUS
    <3>1. /\ c.list \in Seq(Entry) /\ c.mtime \in 0 .. clock
          /\ c = [list |-> c.list, mtime |-> c.mtime]
      BY DEF CopyType, IsFun
    <3> QED
      BY <3>1
  <2>4. tmp \in [list : Seq(Entry), mtime : 0 .. clock]
    BY <2>1, <2>3 DEF FileTypes, IsFun
  <2>5. cache \in [Servers -> [list : Seq(Entry), mtime : 0 .. clock]]
    BY <2>1, <2>3 DEF FileTypes, IsFun
  <2>6. ASSUME NEW s \in Servers
        PROVE  srv[s] \in [pc : Pcs, op : {"add", "set", "delete"}, p : Names,
                           modes : SUBSET Modes, list : Seq(Entry)]
    <3> DEFINE r == srv[s]
    <3>1. SrvType(r)
      BY <2>1
    <3> HIDE DEF r
    <3>2. r = [pc |-> r.pc, op |-> r.op, p |-> r.p, modes |-> r.modes, list |-> r.list]
      BY <3>1 DEF SrvType, IsFun
    <3> QED
      BY <3>1, <3>2 DEF SrvType, r
  <2>7. srv \in [Servers -> [pc : Pcs, op : {"add", "set", "delete"}, p : Names,
                             modes : SUBSET Modes, list : Seq(Entry)]]
    BY <2>1, <2>6 DEF IsFun
  <2>8. clock \in 1 .. MaxTime /\ lock \in Servers \cup {Nobody} /\ calls \in 0 .. MaxCalls
    BY <2>1 DEF FileTypes
  <2> QED
    BY <2>2, <2>4, <2>5, <2>7, <2>8 DEF TypeOK, Pcs
<1> QED
  BY <1>1, Invariance, PTL

-----------------------------------------------------------------------------
(* What users are promised                                                 *)

\* A list that one call may make: a step of Access.
LEMMA AllowedIsNext ==
  ASSUME Orderly(acl.list), NEW caller \in Principals, Allowed(acl.list, acl'.list, caller)
  PROVE  A!Next \/ Given(acl'.list) = Given(acl.list)
<1> DEFINE old == acl.list
           new == acl'.list
<1>1. /\ Orderly(old) /\ Orderly(new)
      /\ "c" \in AclGetAccess(old, caller) /\ "c" \in AclGetAccess(new, caller)
  BY DEF Allowed, AclCheck
<1>2. PICK p \in Names :
             \/ p \in DOMAIN Given(old) /\ Given(new) = Without(Given(old), p)
             \/ \E modes \in SUBSET Modes : Given(new) = With(Given(old), p, modes)
  BY DEF Allowed
<1>3. A!Controls(Given(old), caller) /\ A!Controls(Given(new), caller)
  BY <1>1, ModesOfIs DEF A!Controls
<1>4. p \in A!Names
  BY DEF Names, A!Names
<1>5. CASE p \in DOMAIN Given(old) /\ Given(new) = Without(Given(old), p)
  <2>1. A!DeleteAccess(p)
    BY <1>5 DEF A!DeleteAccess, Without
  <2> QED
    BY <1>3, <1>4, <2>1 DEF A!Next
<1>6. ASSUME NEW modes \in SUBSET Modes, Given(new) = With(Given(old), p, modes)
      PROVE  A!Next \/ Given(new) = Given(old)
  <2>1. A!SetAccess(p, modes)
    BY <1>6 DEF A!SetAccess, With
  <2> QED
    BY <1>3, <1>4, <2>1 DEF A!Next
<1> QED
  BY <1>2, <1>5, <1>6

\* Only the rename changes the list in place.
LEMMA OnlyRename ==
  ASSUME [Next]_vars
  PROVE  acl' = acl \/ \E s \in Servers : Rename(s)
<1>1. CASE UNCHANGED vars
  BY <1>1 DEF vars
<1>2. CASE Tick
  BY <1>2 DEF Tick
<1>3. ASSUME NEW s \in Servers, Dies(s) PROVE acl' = acl
  BY <1>3 DEF Dies
<1>4. ASSUME NEW s \in Servers, NEW op, NEW p, NEW modes, Call(s, op, p, modes) PROVE acl' = acl
  BY <1>4 DEF Call
<1>5. ASSUME NEW s \in Servers, Step(s), ~Rename(s) PROVE acl' = acl
  BY <1>5 DEF Step, LockedOpenMtg, LockedOpenFails, Modify, ModifyRefused, CreateTmp, WriteTmp,
              CloseFails, Close, OpenMtg, LockControl, Answer
<1> QED
  BY <1>1, <1>2, <1>3, <1>4, <1>5 DEF Next

\* Every step is a call that Access allows, or changes nothing that is given.
LEMMA AccessStep == IInv /\ [Next]_vars => [A!Next]_(Given(acl.list))
<1>1. SUFFICES ASSUME IInv, [Next]_vars
               PROVE  A!Next \/ Given(acl'.list) = Given(acl.list)
  BY DEF Given
<1>2. CASE acl' = acl
  BY <1>2
<1>3. ASSUME NEW s \in Servers, Rename(s)
      PROVE  A!Next \/ Given(acl'.list) = Given(acl.list)
  <2>1. FileTypes /\ ChangeOK(srv[s], acl, tmp, Caller[s])
    BY <1>1, SrvKnown
  <2>2. /\ srv[s].pc = "rename"
        /\ acl' = [list |-> tmp.list, mtime |-> tmp.mtime, again |-> tmp.mtime = acl.mtime]
    BY <1>3 DEF Rename
  <2>3. acl'.list = tmp.list
    BY <2>2
  <2>4. Allowed(acl.list, acl'.list, Caller[s])
    BY <2>1, <2>2, <2>3 DEF ChangeOK
  <2>5. Orderly(acl.list) /\ Caller[s] \in Principals
    BY <2>1, ServersAssumption DEF FileTypes, AclType
  <2> QED
    BY <2>4, <2>5, AllowedIsNext
<1> QED
  BY <1>1, <1>2, <1>3, OnlyRename

\* The list in place changes only by what one call of somebody who controls the meeting,
\* and still does afterwards, asks for: no call of another server comes in between the
\* reading of the list and the rename, whatever dies or fails on the way.
THEOREM AclGivesAccess == Spec => IsAccess
<1>1. Init => A!Init
  <2>1. SUFFICES ASSUME Init PROVE A!Init
    OBVIOUS
  <2>2. acl.list = FirstAcl
    BY <2>1 DEF Init
  <2> QED
    BY <2>2 DEF A!Init
<1> QED
  BY <1>1, Invariance, AccessStep, PTL DEF Spec, IsAccess, A!Spec

\* An operation that opens the meeting decides by the list in place, unless that one
\* replaced another in the same second: then the list kept in core is as new as the
\* file by its time, and may be the old one.
THEOREM DecidesByList == Spec => DecidesByListInPlace
<1> DEFINE P == \A s \in Servers :
              (srv[s].pc = "open" /\ srv'[s].pc \in {"lock", "refused"} /\ ~acl.again) =>
                 srv'[s].pc = (IF AclCheck(acl.list, Caller[s], "w") THEN "lock" ELSE "refused")
<1>1. ASSUME IInv, [Next]_vars, NEW s \in Servers,
             srv[s].pc = "open", srv'[s].pc \in {"lock", "refused"}, ~acl.again
      PROVE  srv'[s].pc = (IF AclCheck(acl.list, Caller[s], "w") THEN "lock" ELSE "refused")
  <2>1. DOMAIN srv = Servers /\ SrvType(srv[s])
    BY <1>1, SrvKnown
  <2>2. NoCall.pc = "idle"
    BY NoCallType
  <2>3. \A q \in Servers : q # s => ~(\E r2 : srv' = [srv EXCEPT ![q] = r2])
    BY <1>1, <2>1
  <2>4. \A q \in Servers : \A pc : q # s => ~Goto(q, pc)
    BY <1>1, <2>1 DEF Goto
  <2>5. OpenMtg(s)
    <3>1. srv' # srv
      BY <1>1
    <3>2. ~Tick /\ ~(UNCHANGED vars)
      BY <3>1 DEF Tick, vars
    <3>3. \A r2 : srv' = [srv EXCEPT ![s] = r2] => r2.pc \in {"lock", "refused"}
      BY <1>1, <2>1
    <3>4. ASSUME NEW q \in Servers, Unlock(q) PROVE FALSE
      BY <2>2, <2>3, <3>3, <3>4 DEF Unlock
    <3>5. ASSUME NEW q \in Servers,
                 Dies(q) \/ ModifyRefused(q) \/ CloseFails(q) \/ Close(q) \/ Answer(q)
          PROVE  FALSE
      BY <3>4, <3>5 DEF Dies, ModifyRefused, CloseFails, Close, Answer
    <3>6. ASSUME NEW q \in Servers, NEW op, NEW p, NEW modes, Call(q, op, p, modes) PROVE FALSE
      <4>1. q = s
        BY <2>3, <3>6 DEF Call
      <4> QED
        BY <1>1, <3>6, <4>1 DEF Call
    <3>7. ASSUME NEW q \in Servers, LockedOpenMtg(q) \/ LockedOpenFails(q) PROVE FALSE
      <4>1. q = s
        BY <2>3, <3>7 DEF LockedOpenMtg, LockedOpenFails
      <4>2. CASE LockedOpenMtg(s)
        <5>1. srv'[s].pc = "modify"
          BY <2>1, <4>2 DEF LockedOpenMtg, SrvType
        <5> QED
          BY <1>1, <5>1
      <4>3. CASE LockedOpenFails(s)
        BY <2>2, <3>3, <4>3 DEF LockedOpenFails
      <4> QED
        BY <3>7, <4>1, <4>2, <4>3
    <3>8. ASSUME NEW q \in Servers,
                 Modify(q) \/ CreateTmp(q) \/ WriteTmp(q) \/ Rename(q) \/ LockControl(q)
          PROVE  FALSE
      <4>1. q = s
        BY <2>3, <2>4, <3>8 DEF Modify, CreateTmp, WriteTmp, Rename, LockControl
      <4> QED
        BY <1>1, <3>8, <4>1 DEF Modify, CreateTmp, WriteTmp, Rename, LockControl
    <3>9. ASSUME NEW q \in Servers, OpenMtg(q) PROVE q = s
      BY <2>4, <3>9 DEF OpenMtg
    <3> QED
      BY <1>1, <3>2, <3>5, <3>6, <3>7, <3>8, <3>9 DEF Next, Step
  <2>6. ~acl.again => Cached(s).list = acl.list
    BY <1>1, CachedIs
  <2>7. srv'[s].pc = IF AclCheck(Cached(s).list, Caller[s], "w") THEN "lock" ELSE "refused"
    BY <2>1, <2>5 DEF OpenMtg, Goto, SrvType
  <2> QED
    BY <1>1, <2>6, <2>7
<1>2. IInv /\ [Next]_vars => [P]_vars
  BY <1>1
<1> QED
  BY <1>2, Invariance, PTL DEF Spec, DecidesByListInPlace

=============================================================================

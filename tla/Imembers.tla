------------------------------ MODULE Imembers ------------------------------
(***************************************************************************)
(* Moira's table of list members (imembers) and what the queries that      *)
(* change it do (third/moira/server/qsupport.pc).  The table is flattened: *)
(* a list has a row for everything in it, and in the lists in it, with the *)
(* number of ways it is in it (ref_count) and whether it was added itself  *)
(* (direct).  Adding a member adds, to the list and to all the lists it is *)
(* in, the member and all that is in that.                                 *)
(*                                                                         *)
(* A table is a record: ref, the ref_count of each row, 0 if there is no   *)
(* such row, and direct, the rows with the flag.  Tags and access are left *)
(* out.                                                                    *)
(***************************************************************************)
EXTENDS Integers, FiniteSets, FiniteSetsExt, Functions

CONSTANTS Lists,
          Others,        \* members that are not lists: users, strings, machines
          MaxListDepth   \* MAXLISTDEPTH, the size of the arrays

ASSUME ListsAssumption == IsFiniteSet(Lists) /\ Lists \cap Others = {}
ASSUME DepthAssumption == MaxListDepth \in Nat \ {0, 1}

Members == Lists \cup Others
Rows == Lists \X Members

NoRows == [ref |-> [r \in Rows |-> 0], direct |-> {}]
Present(im) == {r \in Rows : im.ref[r] > 0}

\* The lists that have l in them, and what is in m.
Ancestors(im, l) == {a \in Lists : im.ref[<<a, l>>] > 0}
Descendants(im, m) == IF m \in Lists THEN {d \in Members : im.ref[<<m, d>>] > 0} ELSE {}

\* A cursor's rows do not fit into the array, whose first entry is taken.
Overfull(rows) == Cardinality(rows) + 1 >= MaxListDepth

\* What both queries go through: l and its ancestors, and for each of them m and
\* the descendants in D, with the number of ways the one comes to be in the other.
Touched(im, l, m, D) == ({l} \cup Ancestors(im, l)) \X ({m} \cup D)
Ways(im, l, m, r) == (IF r[1] = l THEN 1 ELSE im.ref[<<r[1], l>>])
                   * (IF r[2] = m THEN 1 ELSE im.ref[<<m, r[2]>>])

\* MR_LISTLOOP: a list would come to be in itself.
Loops(im, l, m, D) == \E a \in Lists : <<a, a>> \in Touched(im, l, m, D)

-----------------------------------------------------------------------------
(* add_member_to_list *)

CanAdd(im, l, m) ==
    /\ <<l, m>> \notin im.direct
    /\ ~Overfull(Ancestors(im, l)) /\ ~Overfull(Descendants(im, m))
    /\ ~Loops(im, l, m, Descendants(im, m))

AddMember(im, l, m) ==
    LET touched == Touched(im, l, m, Descendants(im, m))
    IN  [ref |-> [r \in Rows |-> im.ref[r] + IF r \in touched THEN Ways(im, l, m, r) ELSE 0],
         direct |-> im.direct \cup {<<l, m>>}]

-----------------------------------------------------------------------------
(* delete_member_from_list *)

\* What of m's rows gets into the array: the rest is passed over without an error.
Fetched(im, m) ==
    LET all == Descendants(im, m)
    IN  IF Overfull(all) THEN kSubset(MaxListDepth - 1, all) ELSE {all}

CanDelete(im, l, m, D) ==
    /\ <<l, m>> \in im.direct
    /\ ~Overfull(Ancestors(im, l))
    /\ ~Loops(im, l, m, D)

\* Variant: the row goes, though there may be other ways to be in the list.
DeleteMemberWhole(im, l, m, D) ==
    LET ref == [r \in Rows |-> IF r \in Touched(im, l, m, D) THEN 0 ELSE im.ref[r]]
    IN  [ref |-> ref, direct |-> {r \in im.direct \ {<<l, m>>} : ref[r] > 0}]

\* Rows go when their ref_count would fall to 0, or below it.  A row that should be
\* there and is not stays away.
DeleteMember(im, l, m, D) ==
    LET touched == Touched(im, l, m, D)
        less(r) == Max({0, im.ref[r] - Ways(im, l, m, r)})
        ref == [r \in Rows |-> IF r \in touched THEN less(r) ELSE im.ref[r]]
    IN  [ref |-> ref, direct |-> {r \in im.direct \ {<<l, m>>} : ref[r] > 0}]

-----------------------------------------------------------------------------
(* What the table stands for: the number of ways that lead from a list to a  *)
(* member over direct rows, in at most as many steps as there are lists.     *)

Walks(direct, n) ==
    LET walks[k \in 0 .. n] ==
          IF k = 0 THEN [r \in Rows |-> 0]
          ELSE [r \in Rows |->
                  (IF r \in direct THEN 1 ELSE 0)
                  + SumFunctionOnSet([c \in Lists |-> walks[k - 1][<<c, r[2]>>]],
                                     {c \in Lists : <<r[1], c>> \in direct})]
    IN  walks[n]

\* Every member's row has the number of ways it is in the list, no other row is
\* there, and no list is in itself.
IsFlattened(im) ==
    /\ im.ref = Walks(im.direct, Cardinality(Lists))
    /\ \A l \in Lists : im.ref[<<l, l>>] = 0

=============================================================================

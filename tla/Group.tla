------------------------------- MODULE Group -------------------------------
(***************************************************************************)
(* Group<MemberT> (src/src/business/Group/Group.hpp): an ordered list of    *)
(* members with a capacity.  The operators take and return a group         *)
(* [capacity, members]; for each method of the class there is the result   *)
(* it returns and, when that result is "OK", the group it leaves behind.   *)
(***************************************************************************)
EXTENDS Naturals, Sequences, SequencesExt

\* The groups over a set of members, whatever their size.
Groups(Members) == [capacity : Nat, members : Seq(Members)]

NewGroup(capacity) == [capacity |-> capacity, members |-> <<>>]

MemberSet(g) == ToSet(g.members)

\* FindMemberIter: the first position that holds m.
IndexOf(g, m) ==
    CHOOSE i \in DOMAIN g.members :
        /\ g.members[i] = m
        /\ \A j \in DOMAIN g.members : g.members[j] = m => i <= j

\* Mutant of AddMemberResult: the capacity is compared with > instead of >=.
AddMemberResult_offByOne(g, m) ==
    CASE Contains(g.members, m) -> "ALREADY_IN_GROUP"
      [] ~Contains(g.members, m) /\ Len(g.members) > g.capacity -> "FULL"
      [] OTHER -> "OK"

AddMemberResult(g, m) ==
    CASE Contains(g.members, m) -> "ALREADY_IN_GROUP"
      [] ~Contains(g.members, m) /\ Len(g.members) >= g.capacity -> "FULL"
      [] OTHER -> "OK"

AddMember(g, m) == [g EXCEPT !.members = Append(@, m)]

RemoveMemberResult(g, m) == IF Contains(g.members, m) THEN "OK" ELSE "NOT_IN_GROUP"

RemoveMember(g, m) == [g EXCEPT !.members = RemoveAt(@, IndexOf(g, m))]

SetCapacityResult(g, capacity) ==
    IF capacity < Len(g.members) THEN "INVALID_CAPACITY" ELSE "OK"

SetCapacity(g, capacity) == [g EXCEPT !.capacity = capacity]

ClearMembers(g) == [g EXCEPT !.members = <<>>]

\* A group in which nobody occurs twice and nobody is beyond the capacity.
WellFormed(g) ==
    /\ Len(g.members) <= g.capacity
    /\ \A i, j \in DOMAIN g.members : g.members[i] = g.members[j] => i = j
=============================================================================

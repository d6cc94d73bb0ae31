---------------------------- MODULE Group_proofs ----------------------------
(* What the operations on a group return, for any members and capacity.     *)
EXTENDS Group, FiniteSetTheorems, SequenceTheorems, TLAPS

\* An accepted AddMember appends one new member and keeps the group well formed.
LEMMA AddMemberEffect ==
    ASSUME NEW M, NEW g \in Groups(M), NEW m \in M,
           AddMemberResult(g, m) = "OK", WellFormed(g)
    PROVE  /\ AddMember(g, m) \in Groups(M)
           /\ WellFormed(AddMember(g, m))
           /\ Len(AddMember(g, m).members) = Len(g.members) + 1
           /\ MemberSet(AddMember(g, m)) = MemberSet(g) \cup {m}
<1> DEFINE s == g.members
           h == AddMember(g, m)
<1>1. s \in Seq(M) /\ g.capacity \in Nat /\ Len(s) \in Nat /\ DOMAIN s = 1 .. Len(s)
    BY DEF Groups
<1>2. h.members = Append(s, m) /\ h.capacity = g.capacity
    BY DEF AddMember, Groups
<1>3. h \in Groups(M)
    BY <1>1 DEF AddMember, Groups
<1>4. (\A i \in 1 .. Len(s) : s[i] # m) /\ Len(s) < g.capacity
    BY <1>1 DEF AddMemberResult, Contains
<1>5. /\ Len(Append(s, m)) = Len(s) + 1
      /\ \A i \in 1 .. Len(s) : Append(s, m)[i] = s[i]
      /\ Append(s, m)[Len(s) + 1] = m
      /\ DOMAIN Append(s, m) = 1 .. Len(s) + 1
    BY <1>1
<1>6. WellFormed(h)
    <2>1. Len(h.members) <= h.capacity
        BY <1>1, <1>2, <1>4, <1>5
    <2>2. ASSUME NEW i \in DOMAIN h.members, NEW j \in DOMAIN h.members,
                 h.members[i] = h.members[j]
          PROVE  i = j
        BY <2>2, <1>1, <1>2, <1>4, <1>5 DEF WellFormed
    <2> QED
        BY <2>1, <2>2 DEF WellFormed
<1>7. MemberSet(h) = MemberSet(g) \cup {m}
    <2>1. MemberSet(h) = {Append(s, m)[i] : i \in 1 .. Len(s) + 1}
        BY <1>2, <1>5 DEF MemberSet, ToSet
    <2>2. MemberSet(g) = {s[i] : i \in 1 .. Len(s)}
        BY <1>1 DEF MemberSet, ToSet
    <2>3. 1 .. Len(s) + 1 = 1 .. Len(s) \cup {Len(s) + 1}
        BY <1>1
    <2> QED
        BY <2>1, <2>2, <2>3, <1>5
<1> QED
    BY <1>2, <1>3, <1>5, <1>6, <1>7

\* Removing position k of a sequence shifts the elements behind it by one.
LEMMA RemoveAtEffect ==
    ASSUME NEW M, NEW s \in Seq(M), NEW k \in 1 .. Len(s)
    PROVE  /\ RemoveAt(s, k) \in Seq(M)
           /\ Len(RemoveAt(s, k)) = Len(s) - 1
           /\ \A i \in 1 .. Len(s) - 1 :
                 RemoveAt(s, k)[i] = IF i < k THEN s[i] ELSE s[i + 1]
<1> DEFINE a == SubSeq(s, 1, k - 1)
           b == SubSeq(s, k + 1, Len(s))
<1>1. /\ a \in Seq(M) /\ Len(a) = k - 1
      /\ \A i \in 1 .. k - 1 : a[i] = s[i]
    BY SubSeqProperties
<1>2. /\ b \in Seq(M) /\ Len(b) = Len(s) - k
      /\ \A i \in 1 .. Len(s) - k : b[i] = s[k + i]
    BY SubSeqProperties
<1>3. RemoveAt(s, k) = a \o b
    BY DEF RemoveAt
<1> HIDE DEF a, b
<1>4. /\ a \o b \in Seq(M)
      /\ Len(a \o b) = Len(s) - 1
      /\ \A i \in 1 .. Len(s) - 1 :
            (a \o b)[i] = IF i <= k - 1 THEN a[i] ELSE b[i - (k - 1)]
    BY <1>1, <1>2, ConcatProperties
<1>5. ASSUME NEW i \in 1 .. Len(s) - 1
      PROVE  (a \o b)[i] = IF i < k THEN s[i] ELSE s[i + 1]
    <2>1. CASE i < k
        BY <1>1, <1>4, <2>1
    <2>2. CASE ~(i < k)
        <3>1. i - (k - 1) \in 1 .. Len(s) - k /\ k + (i - (k - 1)) = i + 1 /\ ~(i <= k - 1)
            BY <2>2
        <3> QED
            BY <1>2, <1>4, <2>2, <3>1
    <2> QED
        BY <2>1, <2>2
<1> QED
    BY <1>3, <1>4, <1>5

\* In a well-formed group the position found is the only one that holds m.
LEMMA IndexOfMember ==
    ASSUME NEW M, NEW g \in Groups(M), NEW m, WellFormed(g),
           RemoveMemberResult(g, m) = "OK"
    PROVE  IndexOf(g, m) \in 1 .. Len(g.members) /\ g.members[IndexOf(g, m)] = m
<1>1. DOMAIN g.members = 1 .. Len(g.members) /\ Len(g.members) \in Nat
    BY DEF Groups
<1>2. PICK i \in 1 .. Len(g.members) : g.members[i] = m
    BY DEF RemoveMemberResult, Contains
<1>3. \A j \in DOMAIN g.members : g.members[j] = m => i <= j
    BY <1>1, <1>2 DEF WellFormed
<1> QED
    BY <1>1, <1>2, <1>3 DEF IndexOf

\* An accepted RemoveMember takes out exactly that member and keeps the order
\* of the others, so the group stays well formed.
LEMMA RemoveMemberEffect ==
    ASSUME NEW M, NEW g \in Groups(M), NEW m,
           RemoveMemberResult(g, m) = "OK", WellFormed(g)
    PROVE  /\ RemoveMember(g, m) \in Groups(M)
           /\ WellFormed(RemoveMember(g, m))
           /\ Len(RemoveMember(g, m).members) = Len(g.members) - 1
           /\ m \in MemberSet(g)
           /\ MemberSet(RemoveMember(g, m)) = MemberSet(g) \ {m}
<1> DEFINE s == g.members
           k == IndexOf(g, m)
           r == RemoveAt(s, k)
           h == RemoveMember(g, m)
<1>1. s \in Seq(M) /\ g.capacity \in Nat /\ Len(s) \in Nat /\ DOMAIN s = 1 .. Len(s)
    BY DEF Groups
<1>2. k \in 1 .. Len(s)
    BY IndexOfMember
<1>3. h.members = r /\ h.capacity = g.capacity
    BY DEF RemoveMember, Groups
<1>4. r \in Seq(M) /\ Len(r) = Len(s) - 1
    BY <1>1, <1>2, RemoveAtEffect
<1>5. \A i \in 1 .. Len(s) - 1 : r[i] = IF i < k THEN s[i] ELSE s[i + 1]
    BY <1>1, <1>2, RemoveAtEffect
<1>6. DOMAIN r = 1 .. Len(s) - 1
    BY <1>1, <1>2, <1>4
<1>7. h \in Groups(M)
    BY <1>1, <1>4 DEF RemoveMember, Groups
<1> HIDE DEF r, k
<1>8. WellFormed(h)
    <2>1. Len(h.members) <= h.capacity
        BY <1>1, <1>3, <1>4 DEF WellFormed
    <2>2. ASSUME NEW i \in DOMAIN h.members, NEW j \in DOMAIN h.members,
                 h.members[i] = h.members[j]
          PROVE  i = j
        <3>1. i \in 1 .. Len(s) - 1 /\ j \in 1 .. Len(s) - 1 /\ r[i] = r[j]
            BY <2>2, <1>3, <1>6
        \* where the i-th and j-th members of the result were before
        <3> DEFINE p == IF i < k THEN i ELSE i + 1
                   q == IF j < k THEN j ELSE j + 1
        <3>2. p \in DOMAIN s /\ q \in DOMAIN s
            BY <1>1, <1>2, <3>1
        <3>3. r[i] = s[p] /\ r[j] = s[q]
            BY <1>5, <3>1
        <3>4. p = q
            BY <3>1, <3>2, <3>3 DEF WellFormed
        <3> QED
            BY <1>1, <1>2, <3>1, <3>4
    <2> QED
        BY <2>1, <2>2 DEF WellFormed
<1>9. s[k] = m
    BY IndexOfMember DEF k
<1>10. m \in MemberSet(g)
    BY <1>1, <1>2, <1>9 DEF MemberSet, ToSet
<1>11. MemberSet(h) \subseteq MemberSet(g) \ {m}
    <2> SUFFICES ASSUME NEW i \in DOMAIN r
                 PROVE  \E p \in DOMAIN s : s[p] = r[i] /\ s[p] # m
        BY <1>3 DEF MemberSet, ToSet
    <2>1. \A p \in DOMAIN s : s[p] = m => p = k
        BY <1>1, <1>2, <1>9 DEF WellFormed
    <2>2. CASE i < k
        BY <1>1, <1>2, <1>5, <1>6, <2>1, <2>2
    <2>3. CASE ~(i < k)
        <3>1. i + 1 \in DOMAIN s /\ s[i + 1] = r[i] /\ i + 1 # k
            BY <1>1, <1>2, <1>5, <1>6, <2>3
        <3> QED
            BY <2>1, <3>1
    <2> QED
        BY <2>2, <2>3
<1>12. MemberSet(g) \ {m} \subseteq MemberSet(h)
    <2> SUFFICES ASSUME NEW p \in DOMAIN s, s[p] # m
                 PROVE  \E i \in DOMAIN r : r[i] = s[p]
        BY <1>3 DEF MemberSet, ToSet
    <2>1. p \in 1 .. Len(s) /\ p # k
        BY <1>1, <1>9
    <2>2. CASE p < k
        <3>1. p \in DOMAIN r /\ r[p] = s[p]
            BY <1>1, <1>2, <1>5, <1>6, <2>1, <2>2
        <3> QED
            BY <3>1
    <2>3. CASE ~(p < k)
        <3>1. p - 1 \in DOMAIN r /\ r[p - 1] = s[p]
            BY <1>1, <1>2, <1>5, <1>6, <2>1, <2>3
        <3> QED
            BY <3>1
    <2> QED
        BY <2>2, <2>3
<1> QED
    BY <1>3, <1>4, <1>7, <1>8, <1>10, <1>11, <1>12

\* An accepted SetCapacity keeps the members and leaves room for them.
LEMMA SetCapacityEffect ==
    ASSUME NEW M, NEW g \in Groups(M), NEW k \in Nat,
           SetCapacityResult(g, k) = "OK", WellFormed(g)
    PROVE  /\ SetCapacity(g, k) \in Groups(M)
           /\ WellFormed(SetCapacity(g, k))
           /\ SetCapacity(g, k).members = g.members
<1>1. Len(g.members) <= k
    BY DEF SetCapacityResult, Groups
<1> QED
    BY <1>1 DEF SetCapacity, Groups, WellFormed

\* A new group is empty and well formed.
LEMMA NewGroupEffect ==
    ASSUME NEW M, NEW k \in Nat
    PROVE  /\ NewGroup(k) \in Groups(M)
           /\ WellFormed(NewGroup(k))
           /\ Len(NewGroup(k).members) = 0
           /\ MemberSet(NewGroup(k)) = {}
<1>1. NewGroup(k).members = << >> /\ NewGroup(k).capacity = k
    BY DEF NewGroup
<1>2. << >> \in Seq(M) /\ Len(<< >>) = 0 /\ DOMAIN << >> = {}
    OBVIOUS
<1> QED
    BY <1>1, <1>2 DEF NewGroup, Groups, WellFormed, MemberSet, ToSet

\* The first member accepted by a new group is then its only member.
LEMMA FirstMember ==
    ASSUME NEW M, NEW m \in M, NEW k \in Nat,
           AddMemberResult(NewGroup(k), m) = "OK"
    PROVE  /\ AddMember(NewGroup(k), m) \in Groups(M)
           /\ WellFormed(AddMember(NewGroup(k), m))
           /\ Len(AddMember(NewGroup(k), m).members) = 1
           /\ MemberSet(AddMember(NewGroup(k), m)) = {m}
<1>1. /\ NewGroup(k) \in Groups(M) /\ WellFormed(NewGroup(k))
      /\ Len(NewGroup(k).members) = 0 /\ MemberSet(NewGroup(k)) = {}
    BY NewGroupEffect
<1>2. /\ AddMember(NewGroup(k), m) \in Groups(M)
      /\ WellFormed(AddMember(NewGroup(k), m))
      /\ Len(AddMember(NewGroup(k), m).members) = Len(NewGroup(k).members) + 1
      /\ MemberSet(AddMember(NewGroup(k), m)) = MemberSet(NewGroup(k)) \cup {m}
    <2> DEFINE g == NewGroup(k)
    <2>1. g \in Groups(M) /\ WellFormed(g) /\ AddMemberResult(g, m) = "OK"
        BY <1>1
    <2> HIDE DEF g
    <2>2. /\ AddMember(g, m) \in Groups(M)
          /\ WellFormed(AddMember(g, m))
          /\ Len(AddMember(g, m).members) = Len(g.members) + 1
          /\ MemberSet(AddMember(g, m)) = MemberSet(g) \cup {m}
        BY <2>1, AddMemberEffect
    <2> QED
        BY <2>2 DEF g
<1> QED
    BY <1>1, <1>2

\* In a well-formed group there are as many members as places taken.
LEMMA MemberCount ==
    ASSUME NEW M, NEW g \in Groups(M), WellFormed(g)
    PROVE  IsFiniteSet(MemberSet(g)) /\ Cardinality(MemberSet(g)) = Len(g.members)
<1> DEFINE n == Len(g.members)
           S == MemberSet(g)
<1>1. n \in Nat /\ g.members \in [1 .. n -> S]
    BY DEF Groups, MemberSet, ToSet
<1>2. g.members \in Bijection(1 .. n, S)
    BY <1>1 DEF WellFormed, Bijection, Injection, Surjection, IsInjective, MemberSet, ToSet, Groups
<1>3. ExistsBijection(1 .. n, S)
    BY <1>2 DEF ExistsBijection
<1> QED
    BY <1>1, <1>3, FS_NatBijection, FS_CountingElements
=============================================================================

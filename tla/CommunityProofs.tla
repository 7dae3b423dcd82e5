--------------------------- MODULE CommunityProofs ---------------------------
(***************************************************************************)
(* Proofs about Community, for any players, guilds and channels.  The      *)
(* operations on parties are operators from a state to a state: each is    *)
(* shown to keep a state sound that is a little more than PartiesAgree.    *)
(***************************************************************************)
EXTENDS Community, SequenceTheorems, TLAPS

-----------------------------------------------------------------------------
(* Lists of members.                                                       *)

\* A list of different elements.
Distinct(s) == \A i, j \in 1..Len(s) : s[i] = s[j] => i = j

LEMMA DistinctIsInjective ==
    ASSUME NEW S, NEW s \in Seq(S)
    PROVE  /\ IsInjective(s) <=> Distinct(s)
           /\ ToSet(s) \in SUBSET S
           /\ \A x : x \in ToSet(s) <=> \E i \in 1..Len(s) : s[i] = x
           /\ Len(s) \in Nat
           /\ ToSet(s) = {} <=> s = <<>>
<1>1. Len(s) \in Nat /\ DOMAIN s = 1..Len(s) /\ \A i \in 1..Len(s) : s[i] \in S
  BY LenProperties
<1>2. \A x : x \in ToSet(s) <=> \E i \in 1..Len(s) : s[i] = x
  BY <1>1 DEF ToSet
<1>3. IsInjective(s) <=> Distinct(s)
  BY <1>1 DEF IsInjective, Distinct
<1>4. ToSet(s) = {} <=> s = <<>>
  <2>1. ASSUME s # <<>> PROVE ToSet(s) # {}
    <3>1. 1 \in 1..Len(s)
      BY <2>1, EmptySeq
    <3>. QED
      BY <1>2, <3>1
  <2>2. ASSUME s = <<>> PROVE ToSet(s) = {}
    BY <2>2 DEF ToSet
  <2>. QED
    BY <2>1, <2>2
<1>. QED
  BY <1>1, <1>2, <1>3, <1>4

\* Of a list of different elements, x and nothing else goes.
LEMMA RemovedOnce ==
    ASSUME NEW S, NEW s \in Seq(S), IsInjective(s), NEW x
    PROVE  /\ RemoveFirst(s, x) \in Seq(S)
           /\ IsInjective(RemoveFirst(s, x))
           /\ ToSet(RemoveFirst(s, x)) = ToSet(s) \ {x}
<1>. DEFINE n == Len(s)
<1>1. /\ n \in Nat /\ DOMAIN s = 1..n /\ \A i \in 1..n : s[i] \in S
      /\ \A i, j \in 1..n : s[i] = s[j] => i = j
      /\ \A y : y \in ToSet(s) <=> \E i \in 1..n : s[i] = y
  BY LenProperties, DistinctIsInjective DEF Distinct
<1>. HIDE DEF n
<1>2. CASE \A i \in 1..n : s[i] # x
  <2>1. RemoveFirst(s, x) = s
    BY <1>2 DEF RemoveFirst, n
  <2>2. x \notin ToSet(s)
    BY <1>1, <1>2
  <2>. QED
    BY <2>1, <2>2
<1>3. CASE \E i \in 1..n : s[i] = x
  <2>1. PICK i \in 1..n : s[i] = x
    BY <1>3
  <2>2. {j \in 1..n : s[j] = x} = {i}
    BY <1>1, <2>1
  <2>3. Min({i}) = i
    BY DEF Min
  <2>4. RemoveFirst(s, x) = SubSeq(s, 1, i - 1) \o SubSeq(s, i + 1, n)
    <3>1. SelectInSeq(s, LAMBDA v : v = x) = Min({j \in 1..n : s[j] = x})
      BY <2>2 DEF SelectInSeq, n
    <3>2. SelectInSeq(s, LAMBDA v : v = x) = i
      BY <2>2, <2>3, <3>1
    <3>. QED
      BY <1>3, <3>2 DEF RemoveFirst, RemoveAt, n
  <2>. DEFINE A == SubSeq(s, 1, i - 1)
              B == SubSeq(s, i + 1, n)
              t == RemoveFirst(s, x)
  <2>5. /\ A \in Seq(S) /\ Len(A) = i - 1
        /\ \A k \in 1..(i - 1) : A[k] = s[k]
    <3>1. /\ 1 \in Int /\ i - 1 \in Int /\ \A k \in 1..(i - 1) : s[k] \in S
          /\ i - 1 - 1 + 1 = i - 1
      BY <1>1
    <3>2. /\ A \in Seq(S)
          /\ Len(A) = IF 1 <= i - 1 THEN i - 1 - 1 + 1 ELSE 0
          /\ \A k \in 1..(i - 1 - 1 + 1) : A[k] = s[1 + k - 1]
      BY <3>1, SubSeqProperties
    <3>. HIDE DEF A
    <3>. QED
      BY <1>1, <3>1, <3>2
  <2>6. /\ B \in Seq(S) /\ Len(B) = n - i
        /\ \A k \in 1..(n - i) : B[k] = s[k + i]
    <3>1. /\ i + 1 \in Int /\ n \in Int /\ \A k \in (i + 1)..n : s[k] \in S
          /\ n - (i + 1) + 1 = n - i
      BY <1>1
    <3>2. /\ B \in Seq(S)
          /\ Len(B) = IF i + 1 <= n THEN n - (i + 1) + 1 ELSE 0
          /\ \A k \in 1..(n - (i + 1) + 1) : B[k] = s[i + 1 + k - 1]
      BY <3>1, SubSeqProperties
    <3>. HIDE DEF B
    <3>. QED
      BY <1>1, <3>1, <3>2
  <2>7. /\ t \in Seq(S) /\ Len(t) = n - 1
        /\ \A k \in 1..(i - 1) : t[k] = s[k]
        /\ \A k \in i..(n - 1) : t[k] = s[k + 1]
    <3>1. t = A \o B
      BY <2>4
    <3>. HIDE DEF A, B, t
    <3>2. /\ t \in Seq(S) /\ Len(t) = Len(A) + Len(B)
          /\ \A k \in 1..(Len(A) + Len(B)) : t[k] = IF k <= Len(A) THEN A[k] ELSE B[k - Len(A)]
      BY <2>5, <2>6, <3>1, ConcatProperties
    <3>3. Len(A) = i - 1 /\ Len(B) = n - i /\ Len(A) + Len(B) = n - 1
      BY <1>1, <2>5, <2>6
    <3>4. ASSUME NEW k \in i..(n - 1) PROVE t[k] = s[k + 1]
      <4>1. k \in 1..(n - 1) /\ ~(k <= i - 1) /\ k - (i - 1) \in 1..(n - i)
            /\ (k - (i - 1)) + i = k + 1
        BY <1>1
      <4>. QED
        BY <2>6, <3>2, <3>3, <4>1
    <3>5. ASSUME NEW k \in 1..(i - 1) PROVE t[k] = s[k]
      <4>1. k \in 1..(n - 1) /\ k <= i - 1
        BY <1>1
      <4>. QED
        BY <2>5, <3>2, <3>3, <4>1
    <3>. QED
      BY <3>2, <3>3, <3>4, <3>5
  <2>. HIDE DEF t
  <2>8. Distinct(t)
    BY <1>1, <2>7 DEF Distinct
  <2>9. ASSUME NEW y PROVE y \in ToSet(t) <=> y \in ToSet(s) /\ y # x
    <3>1. ASSUME NEW k \in 1..(n - 1), t[k] = y PROVE y \in ToSet(s) /\ y # x
      <4>1. \E l \in 1..n : l # i /\ s[l] = y
        <5>1. CASE k \in 1..(i - 1)
          BY <1>1, <2>7, <3>1, <5>1
        <5>2. CASE k \in i..(n - 1)
          <6>1. k + 1 \in 1..n /\ k + 1 # i
            BY <1>1, <5>2
          <6>. QED
            BY <2>7, <3>1, <5>2, <6>1
        <5>. QED
          BY <1>1, <5>1, <5>2
      <4>. QED
        BY <1>1, <2>1, <4>1
    <3>2. ASSUME NEW k \in 1..n, s[k] = y, y # x PROVE \E l \in 1..(n - 1) : t[l] = y
      <4>1. k # i
        BY <2>1, <3>2
      <4>2. CASE k < i
        BY <1>1, <2>7, <3>2, <4>2
      <4>3. CASE k > i
        <5>1. k - 1 \in i..(n - 1) /\ k - 1 \in 1..(n - 1) /\ (k - 1) + 1 = k
          BY <1>1, <4>3
        <5>. QED
          BY <2>7, <3>2, <5>1
      <4>. QED
        BY <1>1, <4>1, <4>2, <4>3
    <3>. QED
      BY <1>1, <2>7, <3>1, <3>2, DistinctIsInjective
  <2>10. t \in Seq(S) /\ IsInjective(t) /\ ToSet(t) = ToSet(s) \ {x}
    BY <2>7, <2>8, <2>9, DistinctIsInjective
  <2>. QED
    BY <2>10 DEF t
<1>. QED
  BY <1>2, <1>3

LEMMA AppendedOnce ==
    ASSUME NEW S, NEW s \in Seq(S), IsInjective(s), NEW x \in S, x \notin ToSet(s)
    PROVE  /\ Append(s, x) \in Seq(S)
           /\ IsInjective(Append(s, x))
           /\ ToSet(Append(s, x)) = ToSet(s) \cup {x}
<1>. DEFINE n == Len(s)
            t == Append(s, x)
<1>1. /\ n \in Nat
      /\ \A i, j \in 1..n : s[i] = s[j] => i = j
      /\ \A y : y \in ToSet(s) <=> \E i \in 1..n : s[i] = y
  BY DistinctIsInjective DEF Distinct
<1>2. /\ t \in Seq(S) /\ Len(t) = n + 1
      /\ \A i \in 1..n : t[i] = s[i]
      /\ t[n + 1] = x
  BY AppendProperties
<1>. HIDE DEF n, t
<1>3. Distinct(t)
  BY <1>1, <1>2 DEF Distinct
<1>4. ASSUME NEW y PROVE y \in ToSet(t) <=> y \in ToSet(s) \/ y = x
  <2>1. y \in ToSet(t) <=> \E i \in 1..(n + 1) : t[i] = y
    BY <1>2, DistinctIsInjective
  <2>2. n + 1 \in 1..(n + 1) /\ \A i \in 1..(n + 1) : i \in 1..n \/ i = n + 1
    BY <1>1
  <2>3. \A i \in 1..n : i \in 1..(n + 1)
    BY <1>1
  <2>. QED
    BY <1>1, <1>2, <2>1, <2>2, <2>3
<1>5. t \in Seq(S) /\ IsInjective(t) /\ ToSet(t) = ToSet(s) \cup {x}
  BY <1>2, <1>3, <1>4, DistinctIsInjective
<1>. QED
  BY <1>5 DEF t

LEMMA PrependedOnce ==
    ASSUME NEW S, NEW s \in Seq(S), IsInjective(s), NEW x \in S, x \notin ToSet(s)
    PROVE  /\ <<x>> \o s \in Seq(S)
           /\ IsInjective(<<x>> \o s)
           /\ ToSet(<<x>> \o s) = ToSet(s) \cup {x}
<1>. DEFINE n == Len(s)
            t == <<x>> \o s
<1>1. /\ n \in Nat
      /\ \A i, j \in 1..n : s[i] = s[j] => i = j
      /\ \A y : y \in ToSet(s) <=> \E i \in 1..n : s[i] = y
      /\ \A i \in 1..n : s[i] # x
  BY DistinctIsInjective DEF Distinct
<1>2. /\ t \in Seq(S) /\ Len(t) = n + 1
      /\ t[1] = x
      /\ \A i \in 2..(n + 1) : t[i] = s[i - 1]
  <2>1. <<x>> \in Seq(S) /\ Len(<<x>>) = 1 /\ <<x>>[1] = x
    OBVIOUS
  <2>2. /\ t \in Seq(S) /\ Len(t) = 1 + n
        /\ \A i \in 1..(1 + n) : t[i] = IF i <= 1 THEN <<x>>[i] ELSE s[i - 1]
    BY <2>1, ConcatProperties
  <2>. HIDE DEF t, n
  <2>. QED
    BY <1>1, <2>1, <2>2
<1>. HIDE DEF n, t
<1>3. Distinct(t)
  <2>1. \A i \in 1..(n + 1) : i = 1 \/ (i \in 2..(n + 1) /\ i - 1 \in 1..n /\ (i - 1) + 1 = i)
    BY <1>1
  <2>2. ASSUME NEW i \in 1..(n + 1), NEW j \in 1..(n + 1), t[i] = t[j] PROVE i = j
    <3>1. CASE i = 1 /\ j = 1
      BY <3>1
    <3>2. CASE i = 1 /\ j # 1
      BY <1>1, <1>2, <2>1, <2>2, <3>2
    <3>3. CASE i # 1 /\ j = 1
      BY <1>1, <1>2, <2>1, <2>2, <3>3
    <3>4. CASE i # 1 /\ j # 1
      <4>1. s[i - 1] = s[j - 1] /\ i - 1 \in 1..n /\ j - 1 \in 1..n
        BY <1>2, <2>1, <2>2, <3>4
      <4>2. i - 1 = j - 1
        BY <1>1, <4>1
      <4>. QED
        BY <1>1, <4>2
    <3>. QED
      BY <3>1, <3>2, <3>3, <3>4
  <2>. QED
    BY <1>2, <2>2 DEF Distinct
<1>4. ASSUME NEW y PROVE y \in ToSet(t) <=> y \in ToSet(s) \/ y = x
  <2>1. y \in ToSet(t) <=> \E i \in 1..(n + 1) : t[i] = y
    BY <1>2, DistinctIsInjective
  <2>2. 1 \in 1..(n + 1) /\ \A i \in 1..(n + 1) : i = 1 \/ (i \in 2..(n + 1) /\ i - 1 \in 1..n)
    BY <1>1
  <2>3. \A i \in 1..n : i + 1 \in 1..(n + 1) /\ i + 1 \in 2..(n + 1) /\ (i + 1) - 1 = i
    BY <1>1
  <2>4. ASSUME y = x PROVE \E i \in 1..(n + 1) : t[i] = y
    BY <1>2, <2>2, <2>4
  <2>5. ASSUME NEW i \in 1..n, s[i] = y PROVE \E k \in 1..(n + 1) : t[k] = y
    BY <1>2, <2>3, <2>5
  <2>6. ASSUME NEW i \in 1..(n + 1), t[i] = y, y # x PROVE \E k \in 1..n : s[k] = y
    BY <1>2, <2>2, <2>6
  <2>. QED
    BY <1>1, <2>1, <2>4, <2>5, <2>6
<1>5. t \in Seq(S) /\ IsInjective(t) /\ ToSet(t) = ToSet(s) \cup {x}
  BY <1>2, <1>3, <1>4, DistinctIsInjective
<1>. QED
  BY <1>5 DEF t

-----------------------------------------------------------------------------
(* Guilds.                                                                 *)

GuildInv ==
    /\ players \in SUBSET Player
    /\ guild \in [Player -> Guilds \cup {None}]
    /\ membersOnline \in [Guilds -> SUBSET (Player \cup {None})]
    /\ forsaken \in SUBSET Guilds
    /\ \A p \in Player : guild[p] # None => p \in players
    /\ MembersOnline

LEMMA ChangeGuildKeeps ==
    ASSUME GuildInv, NEW p \in Player, NEW h \in Guilds \cup {None}, ChangeGuild(p, h),
           players' = players
    PROVE  GuildInv'
<1>. USE PlayersAssumption, GuildAssumption DEF GuildInv, ChangeGuild
<1>1. /\ guild' \in [Player -> Guilds \cup {None}]
      /\ membersOnline' \in [Guilds -> SUBSET (Player \cup {None})]
      /\ \A q \in Player : guild'[q] # None => q \in players'
  BY DEF AddMember, RemoveMember
<1>2. ASSUME NEW x \in Guilds
      PROVE  membersOnline'[x] = IF x = guild[p] THEN membersOnline[x] \ {p}
                                 ELSE IF x = h THEN membersOnline[x] \cup {p}
                                 ELSE membersOnline[x]
  BY DEF AddMember, RemoveMember
<1>3. ASSUME NEW x \in Guilds
      PROVE  {q \in players' : guild'[q] = x} = IF x = guild[p] THEN {q \in players : guild[q] = x} \ {p}
                                 ELSE IF x = h THEN {q \in players : guild[q] = x} \cup {p}
                                 ELSE {q \in players : guild[q] = x}
  <2>1. \A q \in Player : guild'[q] = IF q = p THEN h ELSE guild[q]
    OBVIOUS
  <2>. QED
    BY <2>1
<1>4. MembersOnline'
  <2>. SUFFICES ASSUME NEW x \in Guilds
                PROVE  LET members == {q \in players' : guild'[q] = x} IN
                       /\ members \subseteq membersOnline'[x]
                       /\ x \notin forsaken => membersOnline'[x] = members
    BY DEF MembersOnline
  <2>1. /\ {q \in players : guild[q] = x} \subseteq membersOnline[x]
        /\ x \notin forsaken => membersOnline[x] = {q \in players : guild[q] = x}
    BY DEF MembersOnline
  <2>. DEFINE was == {q \in players : guild[q] = x}
              members == {q \in players' : guild'[q] = x}
  <2>2. /\ x = guild[p] => membersOnline'[x] = membersOnline[x] \ {p} /\ members = was \ {p}
        /\ x # guild[p] /\ x = h => /\ membersOnline'[x] = membersOnline[x] \cup {p}
                                    /\ members = was \cup {p}
        /\ x # guild[p] /\ x # h => membersOnline'[x] = membersOnline[x] /\ members = was
    BY <1>2, <1>3
  <2>. HIDE DEF was, members
  <2>3. members \subseteq membersOnline'[x]
    BY <2>1, <2>2 DEF was
  <2>4. x \notin forsaken => membersOnline'[x] = members
    BY <2>1, <2>2 DEF was
  <2>. QED
    BY <2>3, <2>4 DEF members
<1>. QED
  BY <1>1, <1>4

LEMMA ForsakeGuildKeeps ==
    ASSUME GuildInv, NEW p \in Player, NEW h \in Guilds \cup {None}, ForsakeGuild(p, h),
           players' = players
    PROVE  GuildInv'
<1>. USE PlayersAssumption, GuildAssumption DEF GuildInv, ForsakeGuild
<1>1. /\ guild' \in [Player -> Guilds \cup {None}]
      /\ \A q \in Player : guild'[q] # None => q \in players'
      /\ forsaken' \in SUBSET Guilds
  OBVIOUS
<1>2. ASSUME NEW x \in Guilds
      PROVE  {q \in players' : guild'[q] = x} = {q \in players : guild[q] = x} \ {p}
  BY <1>1
<1>3. ASSUME NEW x \in Guilds, x \notin forsaken'
      PROVE  x \notin forsaken /\ p \notin {q \in players : guild[q] = x}
  BY <1>3
<1>4. MembersOnline'
  BY <1>2, <1>3 DEF MembersOnline
<1>. QED
  BY <1>1, <1>4

LEMMA EnterGuildKeeps ==
    ASSUME GuildInv, NEW p \in Player, p \notin players, EnterGuild(p),
           players' = players \cup {p}
    PROVE  GuildInv'
<1>. USE PlayersAssumption, GuildAssumption DEF GuildInv
<1>1. PICK h \in Guilds \cup {None} :
        /\ guild' = [guild EXCEPT ![p] = h]
        /\ membersOnline' = AddMember(membersOnline, h, p)
        /\ UNCHANGED forsaken
  BY DEF EnterGuild
<1>2. /\ guild' \in [Player -> Guilds \cup {None}]
      /\ membersOnline' \in [Guilds -> SUBSET (Player \cup {None})]
      /\ \A q \in Player : guild'[q] # None => q \in players'
  BY <1>1 DEF AddMember
<1>3. ASSUME NEW x \in Guilds
      PROVE  membersOnline'[x] = IF x = h THEN membersOnline[x] \cup {p} ELSE membersOnline[x]
  BY <1>1 DEF AddMember
<1>4. ASSUME NEW x \in Guilds
      PROVE  {q \in players' : guild'[q] = x} = IF x = h THEN {q \in players : guild[q] = x} \cup {p}
                                                ELSE {q \in players : guild[q] = x}
  <2>1. \A q \in Player : guild'[q] = IF q = p THEN h ELSE guild[q]
    BY <1>1
  <2>. QED
    BY <2>1
<1>5. MembersOnline'
  <2>. SUFFICES ASSUME NEW x \in Guilds
                PROVE  LET members == {q \in players' : guild'[q] = x} IN
                       /\ members \subseteq membersOnline'[x]
                       /\ x \notin forsaken => membersOnline'[x] = members
    BY <1>1 DEF MembersOnline
  <2>1. /\ {q \in players : guild[q] = x} \subseteq membersOnline[x]
        /\ x \notin forsaken => membersOnline[x] = {q \in players : guild[q] = x}
    BY DEF MembersOnline
  <2>. DEFINE was == {q \in players : guild[q] = x}
              members == {q \in players' : guild'[q] = x}
  <2>2. \/ membersOnline'[x] = membersOnline[x] \cup {p} /\ members = was \cup {p}
        \/ membersOnline'[x] = membersOnline[x] /\ members = was
    BY <1>3, <1>4
  <2>. HIDE DEF was, members
  <2>3. members \subseteq membersOnline'[x]
    BY <2>1, <2>2 DEF was
  <2>4. ASSUME x \notin forsaken PROVE membersOnline'[x] = members
    <3>1. membersOnline[x] = was
      BY <2>1, <2>4 DEF was
    <3>2. membersOnline[x] \cup {p} = was \cup {p}
      BY <3>1
    <3>3. CASE membersOnline'[x] = membersOnline[x] \cup {p} /\ members = was \cup {p}
      BY <3>2, <3>3, Zenon
    <3>4. CASE membersOnline'[x] = membersOnline[x] /\ members = was
      BY <3>1, <3>4, Zenon
    <3>. QED
      BY <2>2, <3>3, <3>4, Zenon
  <2>. QED
    BY <2>3, <2>4 DEF members
<1>. QED
  BY <1>1, <1>2, <1>5

LEMMA LeaveGuildKeeps ==
    ASSUME GuildInv, NEW p \in Player, LeaveGuild(p), players' = players \ {p}
    PROVE  GuildInv'
<1>. USE PlayersAssumption, GuildAssumption DEF GuildInv
<1>1. /\ guild' = [guild EXCEPT ![p] = None]
      /\ UNCHANGED forsaken
  BY DEF LeaveGuild
<1>2. ASSUME NEW x \in Guilds
      PROVE  LET told == IF x = guild[p] THEN membersOnline[x] \ {p} ELSE membersOnline[x] IN
             membersOnline'[x] = IF p \in told THEN (told \ {p}) \cup {None} ELSE told
  BY DEF LeaveGuild, RemoveMember
<1>3. /\ guild' \in [Player -> Guilds \cup {None}]
      /\ \A q \in Player : guild'[q] # None => q \in players'
  BY <1>1
<1>4. membersOnline' \in [Guilds -> SUBSET (Player \cup {None})]
  <2>1. \A x \in Guilds : membersOnline'[x] \in SUBSET (Player \cup {None})
    BY <1>2
  <2>2. membersOnline' = [x \in Guilds |-> membersOnline'[x]]
    BY DEF LeaveGuild
  <2>. QED
    BY <2>1, <2>2
<1>5. ASSUME NEW x \in Guilds
      PROVE  {q \in players' : guild'[q] = x} = {q \in players : guild[q] = x} \ {p}
  BY <1>1
<1>6. MembersOnline'
  <2>. SUFFICES ASSUME NEW x \in Guilds
                PROVE  LET members == {q \in players : guild[q] = x} \ {p} IN
                       /\ members \subseteq membersOnline'[x]
                       /\ x \notin forsaken => membersOnline'[x] = members
    BY <1>1, <1>5 DEF MembersOnline
  <2>1. /\ {q \in players : guild[q] = x} \subseteq membersOnline[x]
        /\ x \notin forsaken => membersOnline[x] = {q \in players : guild[q] = x}
    BY DEF MembersOnline
  <2>. DEFINE was == {q \in players : guild[q] = x}
              told == IF x = guild[p] THEN membersOnline[x] \ {p} ELSE membersOnline[x]
  <2>2. membersOnline'[x] = IF p \in told THEN (told \ {p}) \cup {None} ELSE told
    BY <1>2
  <2>3. p \in was <=> p \in players /\ guild[p] = x
    OBVIOUS
  <2>4. p \in players \/ guild[p] # x
    OBVIOUS
  <2>. HIDE DEF was
  <2>5. was \ {p} \subseteq membersOnline'[x]
    <3>1. was \ {p} \subseteq told
      BY <2>1 DEF was
    <3>. HIDE DEF told
    <3>. QED
      BY <2>2, <3>1
  <2>6. ASSUME x \notin forsaken PROVE membersOnline'[x] = was \ {p}
    <3>1. membersOnline[x] = was
      BY <2>1, <2>6 DEF was
    <3>2. told = was \ {p}
      BY <2>3, <2>4, <3>1
    <3>. HIDE DEF told
    <3>. QED
      BY <2>2, <3>2
  <2>. QED
    BY <2>5, <2>6 DEF was
<1>. QED
  BY <1>1, <1>3, <1>4, <1>6

\* Only these four calls change a guild or its list.
LEMMA GuildStepKeeps == GuildInv /\ [Next]_vars => GuildInv'
<1>. SUFFICES ASSUME GuildInv, [Next]_vars PROVE GuildInv'
  OBVIOUS
<1>1. CASE UNCHANGED <<players, guildVars>>
  BY <1>1 DEF GuildInv, MembersOnline, guildVars
<1>2. CASE PartyStep \/ ChatStep \/ UNCHANGED vars
  BY <1>1, <1>2 DEF PartyStep, ChatStep, vars
<1>3. CASE GuildStep
  <2>1. PICK p \in Player, h \in Guilds \cup {None} : ChangeGuild(p, h) \/ ForsakeGuild(p, h)
    BY <1>3 DEF GuildStep, GuildNext
  <2>2. players' = players
    BY <1>3 DEF GuildStep
  <2>. QED
    BY <2>1, <2>2, ChangeGuildKeeps, ForsakeGuildKeeps
<1>4. ASSUME NEW p \in Player, Login(p) PROVE GuildInv'
  BY <1>4, EnterGuildKeeps DEF Login
<1>5. ASSUME NEW p \in Player, Logout(p) PROVE GuildInv'
  BY <1>5, LeaveGuildKeeps DEF Logout
<1>. QED
  BY <1>2, <1>3, <1>4, <1>5 DEF Next

-----------------------------------------------------------------------------
(* Chat channels.                                                          *)

ChatTypes ==
    /\ players \in SUBSET Player
    /\ users \in [Channel -> SUBSET Player]
    /\ owner \in [PrivateChannels -> Player \cup {None}]
    /\ invites \in [PrivateChannels -> SUBSET Player]

ChatInv == ChatTypes /\ ChannelsKept

\* A private channel is none of the others.
LEMMA PrivateIsPrivate ==
    /\ PrivateChannels \subseteq Channel
    /\ PrivateChannels \cap NormalChannels = {}
    /\ \A g : PartyChannel(g) \notin PrivateChannels
    /\ \A p : PrivateChannels \cap OwnChannels(p) = {}
BY DEF PrivateChannels, Channel, NormalChannels, OwnChannels, PrivateChannel, NormalChannel,
       PartyChannel, GuildChannel

\* What listening asks of a private channel.
Kept(c) ==
    /\ c \in channels <=> owner[c] # None
    /\ owner[c] # None => owner[c] \in users[c]
    /\ invites[c] \subseteq players
    /\ users[c] \subseteq invites[c] \cup {owner[c]}

\* Deleting the channels that a leaving player owns, and forgetting it elsewhere.
LEMMA RemovedFromAll ==
    ASSUME ChatInv, NEW p \in Player, RemoveUserFromAllChannels(p),
           players' \in {players, players \ {p}}
    PROVE  ChatInv'
<1>. DEFINE C == Owned(p)
<1>. USE PlayersAssumption, PrivateIsPrivate DEF ChatInv, ChatTypes
<1>1. /\ C \subseteq PrivateChannels
      /\ \A c \in PrivateChannels : c \in C <=> owner[c] = p
  BY DEF Owned
<1>2. /\ channels' = channels \ C
      /\ users' = [c \in Channel |-> IF c \in C THEN {} ELSE users[c] \ {p}]
      /\ owner' = [c \in PrivateChannels |-> IF c \in C THEN None ELSE owner[c]]
      /\ invites' = [c \in PrivateChannels |-> IF c \in C THEN {} ELSE invites[c] \ {p}]
  BY DEF RemoveUserFromAllChannels, Deleted
<1>. HIDE DEF C
<1>3. ChatTypes'
  BY <1>2
<1>4. \A c \in Channel : users'[c] \subseteq players'
  BY <1>2 DEF ChannelsKept
<1>5. ASSUME NEW c \in PrivateChannels PROVE Kept(c)'
  <2>1. Kept(c)
    BY DEF ChannelsKept, Kept
  <2>2. CASE c \in C
    BY <1>2, <2>2 DEF Kept
  <2>3. CASE c \notin C
    <3>1. owner[c] # p /\ owner'[c] = owner[c] /\ c \in Channel
      BY <1>1, <1>2, <2>3
    <3>. QED
      BY <1>2, <2>1, <2>3, <3>1 DEF Kept
  <2>. QED
    BY <2>2, <2>3
<1>6. ASSUME NEW c \in PrivateChannels, NEW d \in PrivateChannels, c # d, owner'[c] # None
      PROVE  owner'[c] # owner'[d]
  BY <1>2, <1>6 DEF ChannelsKept
<1>. QED
  BY <1>3, <1>4, <1>5, <1>6 DEF ChannelsKept, Kept

LEMMA ChatNextKeeps ==
    ASSUME ChatInv, ChatNext, players' = players
    PROVE  ChatInv'
<1>. USE PlayersAssumption, PrivateIsPrivate DEF ChatInv, ChatTypes
<1>1. ASSUME NEW p \in Player, RequestChannels(p) PROVE ChatInv'
  BY <1>1 DEF RequestChannels, ChannelsKept
<1>2. ASSUME NEW p \in Player, CreatePrivateChannel(p) PROVE ChatInv'
  <2>1. PICK i \in Slots :
            /\ PrivateChannel(i) \notin channels
            /\ channels' = channels \cup {PrivateChannel(i)}
            /\ owner' = [owner EXCEPT ![PrivateChannel(i)] = p]
            /\ users' = [users EXCEPT ![PrivateChannel(i)] = {p}]
            /\ invites' = invites
    BY <1>2 DEF CreatePrivateChannel
  <2>. DEFINE c == PrivateChannel(i)
  <2>2. c \in PrivateChannels /\ c \in Channel /\ p \in players
        /\ \A d \in PrivateChannels : owner[d] # p
    BY <1>2 DEF CreatePrivateChannel, Owned, PrivateChannels
  <2>3. ChatTypes' /\ \A d \in Channel : users'[d] \subseteq players'
    BY <2>1, <2>2 DEF ChannelsKept
  <2>4. ASSUME NEW d \in PrivateChannels PROVE Kept(d)'
    BY <2>1, <2>2 DEF Kept, ChannelsKept
  <2>5. ASSUME NEW d \in PrivateChannels, NEW e \in PrivateChannels, d # e, owner'[d] # None
        PROVE  owner'[d] # owner'[e]
    BY <2>1, <2>2, <2>5 DEF ChannelsKept
  <2>. QED
    BY <2>3, <2>4, <2>5 DEF ChannelsKept, Kept
<1>3. ASSUME NEW p \in Player, Reconnect(p) PROVE ChatInv'
  BY <1>3, RemovedFromAll DEF Reconnect
<1>4. ASSUME NEW p \in Player, NEW c \in Channel, OpenChannel(p, c) PROVE ChatInv'
  <2>1. /\ p \in players
        /\ users' = [users EXCEPT ![c] = @ \cup {p}]
        /\ channels' = channels /\ owner' = owner /\ invites' = invites
        /\ c \in PrivateChannels => p = owner[c] \/ p \in invites[c]
    BY <1>4 DEF OpenChannel, Reaches, IsInvited
  <2>. QED
    BY <2>1 DEF ChannelsKept
<1>5. ASSUME NEW p \in Player, NEW c \in Channel, CloseChannel(p, c) PROVE ChatInv'
  <2>. DEFINE C == {c} \cap Owned(p)
  <2>1. /\ channels' = channels \ C
        /\ users' = [d \in Channel |-> IF d \in C THEN {} ELSE IF d = c THEN users[d] \ {p}
                                                                ELSE users[d]]
        /\ owner' = [d \in PrivateChannels |-> IF d \in C THEN None ELSE owner[d]]
        /\ invites' = [d \in PrivateChannels |-> IF d \in C THEN {} ELSE invites[d]]
    BY <1>5 DEF CloseChannel, Deleted
  <2>2. /\ C \subseteq PrivateChannels
        /\ c \in PrivateChannels /\ c \notin C => owner[c] # p
    BY DEF Owned
  <2>. HIDE DEF C
  <2>3. ChatTypes' /\ \A d \in Channel : users'[d] \subseteq players'
    BY <2>1 DEF ChannelsKept
  <2>4. ASSUME NEW d \in PrivateChannels PROVE Kept(d)'
    <3>1. Kept(d)
      BY DEF Kept, ChannelsKept
    <3>. QED
      BY <2>1, <2>2, <3>1 DEF Kept
  <2>5. ASSUME NEW d \in PrivateChannels, NEW e \in PrivateChannels, d # e, owner'[d] # None
        PROVE  owner'[d] # owner'[e]
    BY <2>1, <2>5 DEF ChannelsKept
  <2>. QED
    BY <2>3, <2>4, <2>5 DEF ChannelsKept, Kept
<1>6. ASSUME NEW p \in Player, NEW q \in Player, ChannelInvite(p, q) PROVE ChatInv'
  <2>1. PICK c \in PrivateChannels : invites' = [invites EXCEPT ![c] = @ \cup {q}]
    BY <1>6 DEF ChannelInvite, Owned
  <2>. QED
    BY <1>6, <2>1 DEF ChannelInvite, ChannelsKept
<1>7. ASSUME NEW p \in Player, NEW q \in Player, ChannelExclude(p, q) PROVE ChatInv'
  <2>1. PICK c \in PrivateChannels :
            /\ owner[c] = p
            /\ invites' = [invites EXCEPT ![c] = @ \ {q}]
            /\ users' = [users EXCEPT ![c] = @ \ {q}]
    BY <1>7 DEF ChannelExclude, Owned
  <2>2. p # q /\ channels' = channels /\ owner' = owner
    BY <1>7 DEF ChannelExclude
  <2>. QED
    BY <2>1, <2>2 DEF ChannelsKept
<1>8. ASSUME Reload PROVE ChatInv'
  <2>1. PICK c \in NormalChannels :
            \E kept \in SUBSET users[c] : users' = [users EXCEPT ![c] = kept]
    BY <1>8 DEF Reload
  <2>. QED
    BY <1>8, <2>1 DEF Reload, ChannelsKept, Channel
<1>. QED
  BY <1>1, <1>2, <1>3, <1>4, <1>5, <1>6, <1>7, <1>8 DEF ChatNext

LEMMA ChatStepKeeps == ChatInv /\ [Next]_vars => ChatInv'
<1>. SUFFICES ASSUME ChatInv, [Next]_vars PROVE ChatInv'
  OBVIOUS
<1>1. CASE UNCHANGED <<players, chatVars>>
  BY <1>1 DEF ChatInv, ChatTypes, ChannelsKept, chatVars
<1>2. CASE GuildStep \/ UNCHANGED vars
  BY <1>1, <1>2 DEF GuildStep, vars
<1>3. CASE PartyStep
  <2>. DEFINE gone == {p \in Player : party[p] # 0 /\ party'[p] = 0}
  <2>1. /\ players' = players /\ channels' = channels /\ owner' = owner /\ invites' = invites
        /\ users' = [c \in Channel |->
                        users[c] \ {p \in gone : c = PartyChannel(party'[p])}]
    BY <1>3 DEF PartyStep, ClosePartyChannel
  <2>2. \A c \in PrivateChannels : users'[c] = users[c]
    BY <2>1, PrivateIsPrivate DEF ChatInv, ChatTypes
  <2>3. users' \in [Channel -> SUBSET Player]
    BY <2>1 DEF ChatInv, ChatTypes
  <2>4. \A c \in Channel : users'[c] \subseteq players
    BY <2>1 DEF ChatInv, ChannelsKept
  <2>. QED
    BY <2>1, <2>2, <2>3, <2>4 DEF ChatInv, ChatTypes, ChannelsKept
<1>4. CASE ChatStep
  BY <1>4, ChatNextKeeps DEF ChatStep
<1>5. ASSUME NEW p \in Player, Login(p) PROVE ChatInv'
  <2>1. players' = players \cup {p} /\ UNCHANGED chatVars
    BY <1>5 DEF Login
  <2>. QED
    BY <2>1 DEF chatVars, ChatInv, ChatTypes, ChannelsKept
<1>6. ASSUME NEW p \in Player, Logout(p) PROVE ChatInv'
  BY <1>6, RemovedFromAll DEF Logout
<1>. QED
  BY <1>2, <1>3, <1>4, <1>5, <1>6 DEF Next

\* Nobody who has left the game listens or is invited, a private channel lasts as
\* long as its owner listens (Chat::removeUserFromAllChannels), and only where
\* setGuild returned early does a guild count whom it has lost.
THEOREM ListenersAreThere == Spec => []ListenersPresent
<1>1. Init => ChatInv /\ GuildInv
  <2>1. Init => ChatInv
    BY PrivateIsPrivate DEF Init, ChatInit, ChatInv, ChatTypes, ChannelsKept
  <2>2. Init => GuildInv
    BY DEF Init, GuildInit, GuildInv, MembersOnline
  <2>. QED
    BY <2>1, <2>2
<1>2. ChatInv /\ GuildInv /\ [Next]_vars => ChatInv' /\ GuildInv'
  BY ChatStepKeeps, GuildStepKeeps
<1>3. ChatInv /\ GuildInv => ListenersPresent
  BY DEF ChatInv, GuildInv, ListenersPresent
<1>. QED
  BY <1>1, <1>2, <1>3, PTL DEF Spec

-----------------------------------------------------------------------------
(* Parties.  Nearly every operation changes the lists of one party and what *)
(* some players know of that party, so that only that one has to be looked  *)
(* at again (SoundElsewhere).                                               *)

PartyRecord ==
    [leader : Player \cup {None}, memberList : Seq(Player), inviteList : SUBSET Player,
     sharedExpActive : BOOLEAN, sharedExpEnabled : BOOLEAN, fought : SUBSET Player]

\* s has the three fields.
IsState(s) == s \in [parties : {s.parties}, party : {s.party}, invited : {s.invited}]

StateTypes(s) ==
    /\ IsState(s)
    /\ s.parties \in Seq(PartyRecord)
    /\ s.party \in [Player -> {0} \cup DOMAIN s.parties]
    /\ s.invited \in [Player -> SUBSET DOMAIN s.parties]

\* The lists of the party g, and whoever has its id, belong together.
MembersSound(s, g) ==
    LET r == s.parties[g] IN
    /\ IsInjective(r.memberList)
    /\ r.leader \notin Members(r)
    /\ \A p \in Members(r) : s.party[p] = g
    /\ \A p \in Player : s.party[p] = g =>
          p \in Roster(r) /\ r.leader \in Player /\ s.party[r.leader] = g

InvitesSound(s, g) ==
    LET r == s.parties[g] IN
    /\ r.inviteList = {p \in Player : g \in s.invited[p]}
    /\ r.inviteList # {} => r.leader \in Player /\ s.party[r.leader] = g

PartySound(s, g) == MembersSound(s, g) /\ InvitesSound(s, g)

Sound(s) == StateTypes(s) /\ \A g \in DOMAIN s.parties : PartySound(s, g)

\* Sound, but for the party g that is being changed.
SoundBut(s, g) ==
    /\ StateTypes(s)
    /\ g \in DOMAIN s.parties
    /\ \A h \in DOMAIN s.parties \ {g} : PartySound(s, h)

\* Who is in a party or invited to one is in P.
Within(s, P) == \A p \in Player : s.party[p] # 0 \/ s.invited[p] # {} => p \in P

PartyInv == players \in SUBSET Player /\ Sound(State) /\ Within(State, players)

LEMMA PartyInDomain ==
    ASSUME NEW s, StateTypes(s), NEW g \in DOMAIN s.parties
    PROVE  /\ s.parties[g] \in PartyRecord
           /\ g \in Nat /\ g # 0
           /\ s.parties[g].memberList \in Seq(Player)
           /\ Members(s.parties[g]) \in SUBSET Player
           /\ s.parties[g].inviteList \in SUBSET Player
           /\ s.parties[g].leader \in Player \cup {None}
<1>1. /\ g \in 1..Len(s.parties) /\ Len(s.parties) \in Nat
      /\ s.parties[g] \in PartyRecord
  BY LenProperties, ElementOfSeq DEF StateTypes
<1>2. s.parties[g].memberList \in Seq(Player)
  BY <1>1 DEF PartyRecord
<1>. QED
  BY <1>1, <1>2, DistinctIsInjective DEF PartyRecord, Members

LEMMA ReplacedIn ==
    ASSUME NEW S, NEW s \in Seq(S), NEW i \in DOMAIN s, NEW x \in S
    PROVE  LET t == [s EXCEPT ![i] = x] IN
           /\ t \in Seq(S)
           /\ DOMAIN t = DOMAIN s
           /\ t[i] = x
           /\ \A j \in DOMAIN s \ {i} : t[j] = s[j]
<1>1. Len(s) \in Nat /\ DOMAIN s = 1..Len(s) /\ s \in [1..Len(s) -> S]
  BY LenProperties
<1>2. [s EXCEPT ![i] = x] \in [1..Len(s) -> S]
  BY <1>1
<1>. QED
  BY <1>1, <1>2, SeqDef

LEMMA UpdatedKeeps ==
    ASSUME NEW r \in PartyRecord
    PROVE  /\ Updated(r) \in PartyRecord
           /\ Updated(r).leader = r.leader
           /\ Updated(r).memberList = r.memberList
           /\ Updated(r).inviteList = r.inviteList
BY DEF PartyRecord, Updated, SharedExperienceOk

LEMMA DisbandedParty ==
    /\ Disbanded \in PartyRecord
    /\ Disbanded.leader = None /\ Members(Disbanded) = {} /\ Disbanded.inviteList = {}
    /\ IsInjective(Disbanded.memberList)
<1>1. <<>> \in Seq(Player) /\ ToSet(<<>>) = {} /\ IsInjective(<<>>)
  BY EmptySeq DEF ToSet, IsInjective
<1>. QED
  BY <1>1 DEF Disbanded, PartyRecord, Members

-----------------------------------------------------------------------------

\* What t changes in s is about the party g.
Elsewhere(s, t, g) ==
    /\ DOMAIN t.parties = DOMAIN s.parties
    /\ \A h \in DOMAIN s.parties \ {g} : t.parties[h] = s.parties[h]
    /\ \A p \in Player : \A h \in DOMAIN s.parties \ {g} :
          /\ t.party[p] = h <=> s.party[p] = h
          /\ h \in t.invited[p] <=> h \in s.invited[p]

LEMMA SoundElsewhere ==
    ASSUME NEW s, NEW t, NEW g, SoundBut(s, g), StateTypes(t), Elsewhere(s, t, g)
    PROVE  SoundBut(t, g) /\ (PartySound(t, g) => Sound(t))
<1>1. ASSUME NEW h \in DOMAIN t.parties \ {g} PROVE PartySound(t, h)
  <2>1. /\ h \in DOMAIN s.parties \ {g} /\ PartySound(s, h)
        /\ t.parties[h] = s.parties[h]
        /\ \A p \in Player : t.party[p] = h <=> s.party[p] = h
        /\ \A p \in Player : h \in t.invited[p] <=> h \in s.invited[p]
    BY DEF SoundBut, Elsewhere
  <2>2. /\ Members(s.parties[h]) \subseteq Player /\ s.parties[h].inviteList \subseteq Player
        /\ s.parties[h].leader \in Player \cup {None}
    BY <2>1, PartyInDomain DEF SoundBut
  <2>3. MembersSound(t, h)
    BY <2>1, <2>2 DEF PartySound, MembersSound
  <2>4. InvitesSound(t, h)
    BY <2>1, <2>2 DEF PartySound, InvitesSound
  <2>. QED
    BY <2>3, <2>4 DEF PartySound
<1>2. g \in DOMAIN t.parties
  BY DEF SoundBut, Elsewhere
<1>. QED
  BY <1>1, <1>2 DEF SoundBut, Sound

\* Nobody comes to a party or is invited.
Shrinks(s, t) ==
    \A p \in Player : /\ t.party[p] # 0 => s.party[p] # 0
                      /\ t.invited[p] \subseteq s.invited[p]

\* Enough of the party g is right for it to be disbanded.
Closable(s, g) ==
    LET r == s.parties[g] IN
    /\ \A p \in Player : s.party[p] = g => p \in Roster(r)
    /\ \A p \in Player : p \in Roster(r) => s.party[p] \in {0, g}
    /\ r.inviteList = {p \in Player : g \in s.invited[p]}

LEMMA Disbands ==
    ASSUME NEW s, NEW g, SoundBut(s, g), Closable(s, g)
    PROVE  Sound(Disband(s, g)) /\ Shrinks(s, Disband(s, g))
<1>. DEFINE r == s.parties[g]
            t == Disband(s, g)
<1>1. /\ StateTypes(s) /\ g \in DOMAIN s.parties /\ g # 0
      /\ s.parties \in Seq(PartyRecord)
      /\ s.party \in [Player -> {0} \cup DOMAIN s.parties]
      /\ s.invited \in [Player -> SUBSET DOMAIN s.parties]
  BY PartyInDomain DEF SoundBut, StateTypes
<1>2. /\ t.parties = [s.parties EXCEPT ![g] = Disbanded]
      /\ t.party = [p \in Player |-> IF p \in Roster(r) THEN 0 ELSE s.party[p]]
      /\ t.invited = [p \in Player |-> IF p \in r.inviteList THEN s.invited[p] \ {g}
                                                          ELSE s.invited[p]]
      /\ IsState(t)
  BY DEF Disband, IsState
<1>. HIDE DEF t
<1>3. /\ t.parties \in Seq(PartyRecord) /\ DOMAIN t.parties = DOMAIN s.parties
      /\ t.parties[g] = Disbanded
      /\ \A h \in DOMAIN s.parties \ {g} : t.parties[h] = s.parties[h]
  BY <1>1, <1>2, ReplacedIn, DisbandedParty
<1>4. /\ t.party \in [Player -> {0} \cup DOMAIN t.parties]
      /\ t.invited \in [Player -> SUBSET DOMAIN t.parties]
  BY <1>1, <1>2, <1>3
<1>5. StateTypes(t)
  BY <1>2, <1>3, <1>4 DEF StateTypes
<1>6. /\ \A p \in Player : p \in Roster(r) => s.party[p] \in {0, g}
      /\ \A p \in Player : s.party[p] = g => p \in Roster(r)
      /\ \A p \in Player : g \in s.invited[p] <=> p \in r.inviteList
  BY DEF Closable
<1>7. ASSUME NEW p \in Player
      PROVE  /\ \A h \in DOMAIN s.parties \ {g} : t.party[p] = h <=> s.party[p] = h
             /\ \A h \in DOMAIN s.parties \ {g} : h \in t.invited[p] <=> h \in s.invited[p]
             /\ t.party[p] # g /\ g \notin t.invited[p]
             /\ t.party[p] # 0 => s.party[p] # 0
             /\ t.invited[p] \subseteq s.invited[p]
  <2>1. \A h \in DOMAIN s.parties : h # 0
    BY <1>1, PartyInDomain
  <2>. QED
    BY <1>1, <1>2, <1>6, <2>1
<1>8. Elsewhere(s, t, g) /\ Shrinks(s, t)
  BY <1>3, <1>7 DEF Elsewhere, Shrinks
<1>9. PartySound(t, g)
  BY <1>3, <1>7, DisbandedParty DEF PartySound, MembersSound, InvitesSound
<1>10. Sound(t) /\ Shrinks(s, t)
  BY <1>5, <1>8, <1>9, SoundElsewhere
<1>. QED
  BY <1>10 DEF t

-----------------------------------------------------------------------------
(* What the operations do to the lists of one party.                       *)

Fine(r) == r \in PartyRecord /\ IsInjective(r.memberList) /\ r.leader \notin Members(r)

LEMMA SoundIsFine ==
    ASSUME NEW s, NEW g \in DOMAIN s.parties, StateTypes(s), MembersSound(s, g)
    PROVE  Fine(s.parties[g])
BY PartyInDomain DEF Fine, MembersSound

LEMMA LeadershipPassed ==
    ASSUME NEW r, Fine(r), r.leader \in Player, NEW q \in Members(r)
    PROVE  /\ Fine(PassLeadership(r, q))
           /\ PassLeadership(r, q).leader = q
           /\ Members(PassLeadership(r, q)) = (Members(r) \ {q}) \cup {r.leader}
           /\ PassLeadership(r, q).inviteList = r.inviteList
<1>. DEFINE rest == RemoveFirst(r.memberList, q)
            list == <<r.leader>> \o rest
            x == [r EXCEPT !.leader = q, !.memberList = list]
            t == PassLeadership(r, q)
<1>1. /\ r \in PartyRecord /\ r.memberList \in Seq(Player)
      /\ q \in Player /\ r.leader \notin ToSet(r.memberList) /\ IsInjective(r.memberList)
  BY DistinctIsInjective DEF Fine, PartyRecord, Members
<1>2. /\ rest \in Seq(Player) /\ IsInjective(rest) /\ ToSet(rest) = ToSet(r.memberList) \ {q}
  BY <1>1, RemovedOnce
<1>. HIDE DEF rest
<1>3. /\ list \in Seq(Player) /\ IsInjective(list) /\ ToSet(list) = ToSet(rest) \cup {r.leader}
  BY <1>1, <1>2, PrependedOnce
<1>. HIDE DEF list
<1>4. /\ x \in PartyRecord /\ x.leader = q /\ x.memberList = list
      /\ x.inviteList = r.inviteList
  BY <1>1, <1>3 DEF PartyRecord
<1>5. t = Updated(x)
  BY DEF PassLeadership, list, rest
<1>6. q # r.leader
  BY DEF Fine
<1>. HIDE DEF x, t
<1>7. /\ t \in PartyRecord /\ t.leader = q /\ t.memberList = list
      /\ t.inviteList = r.inviteList
  BY <1>4, <1>5, UpdatedKeeps
<1>8. /\ Fine(t) /\ t.leader = q /\ t.inviteList = r.inviteList
      /\ Members(t) = (Members(r) \ {q}) \cup {r.leader}
  BY <1>1, <1>2, <1>3, <1>6, <1>7 DEF Fine, Members
<1>. QED
  BY <1>8 DEF t

LEMMA MemberRemoved ==
    ASSUME NEW r, Fine(r), NEW p
    PROVE  LET t == Updated([r EXCEPT !.memberList = RemoveFirst(@, p)]) IN
           /\ Fine(t) /\ t.leader = r.leader /\ Members(t) = Members(r) \ {p}
           /\ t.inviteList = r.inviteList
<1>. DEFINE list == RemoveFirst(r.memberList, p)
            x == [r EXCEPT !.memberList = list]
            t == Updated(x)
<1>1. /\ r \in PartyRecord /\ r.memberList \in Seq(Player)
      /\ r.leader \notin ToSet(r.memberList) /\ IsInjective(r.memberList)
  BY DEF Fine, PartyRecord, Members
<1>2. /\ list \in Seq(Player) /\ IsInjective(list) /\ ToSet(list) = ToSet(r.memberList) \ {p}
  BY <1>1, RemovedOnce
<1>. HIDE DEF list
<1>3. /\ x \in PartyRecord /\ x.leader = r.leader /\ x.memberList = list
      /\ x.inviteList = r.inviteList
  BY <1>1, <1>2 DEF PartyRecord
<1>. HIDE DEF x
<1>4. /\ t \in PartyRecord /\ t.leader = r.leader /\ t.memberList = list
      /\ t.inviteList = r.inviteList
  BY <1>3, UpdatedKeeps
<1>. HIDE DEF t
<1>5. /\ Fine(t) /\ t.leader = r.leader /\ Members(t) = Members(r) \ {p}
      /\ t.inviteList = r.inviteList
  BY <1>1, <1>2, <1>4 DEF Fine, Members
<1>. QED
  BY <1>5 DEF t, x, list

LEMMA MemberJoined ==
    ASSUME NEW r, Fine(r), NEW p \in Player, p \notin Members(r), p # r.leader
    PROVE  /\ Fine(Joined(r, p)) /\ Joined(r, p).leader = r.leader
           /\ Members(Joined(r, p)) = Members(r) \cup {p}
           /\ Joined(r, p).inviteList = r.inviteList \ {p}
<1>. DEFINE list == Append(r.memberList, p)
            x == [r EXCEPT !.inviteList = @ \ {p}, !.memberList = list]
            t == Joined(r, p)
<1>1. /\ r \in PartyRecord /\ r.memberList \in Seq(Player)
      /\ p \notin ToSet(r.memberList)
      /\ r.leader \notin ToSet(r.memberList) /\ IsInjective(r.memberList)
  BY DEF Fine, PartyRecord, Members
<1>2. /\ list \in Seq(Player) /\ IsInjective(list) /\ ToSet(list) = ToSet(r.memberList) \cup {p}
  BY <1>1, AppendedOnce
<1>. HIDE DEF list
<1>3. /\ x \in PartyRecord /\ x.leader = r.leader /\ x.memberList = list
      /\ x.inviteList = r.inviteList \ {p}
  BY <1>1, <1>2 DEF PartyRecord
<1>4. t = Updated(x)
  BY DEF Joined, list
<1>. HIDE DEF x, t
<1>5. /\ t \in PartyRecord /\ t.leader = r.leader /\ t.memberList = list
      /\ t.inviteList = r.inviteList \ {p}
  BY <1>3, <1>4, UpdatedKeeps
<1>6. /\ Fine(t) /\ t.leader = r.leader /\ Members(t) = Members(r) \cup {p}
      /\ t.inviteList = r.inviteList \ {p}
  BY <1>1, <1>2, <1>5 DEF Fine, Members
<1>. QED
  BY <1>6 DEF t

-----------------------------------------------------------------------------
(* The operations on parties, each from a sound state to a sound state.    *)

LEMMA SoundIsSoundBut ==
    ASSUME NEW s, Sound(s), NEW g \in DOMAIN s.parties
    PROVE  /\ SoundBut(s, g) /\ MembersSound(s, g) /\ InvitesSound(s, g)
           /\ Fine(s.parties[g]) /\ s.parties[g] \in PartyRecord
           /\ s.parties \in Seq(PartyRecord)
           /\ s.party \in [Player -> {0} \cup DOMAIN s.parties]
           /\ s.invited \in [Player -> SUBSET DOMAIN s.parties]
           /\ IsState(s) /\ g # 0
BY PartyInDomain, SoundIsFine DEF Sound, SoundBut, PartySound, StateTypes

LEMMA DisbandsIfEmpty ==
    ASSUME NEW s, Sound(s), NEW g \in DOMAIN s.parties,
           s.parties[g].leader \in Player => s.party[s.parties[g].leader] \in {0, g}
    PROVE  Sound(DisbandIfEmpty(s, g)) /\ Shrinks(s, DisbandIfEmpty(s, g))
<1>1. SoundBut(s, g) /\ MembersSound(s, g) /\ InvitesSound(s, g)
  BY SoundIsSoundBut
<1>2. Closable(s, g)
  BY <1>1 DEF Closable, MembersSound, InvitesSound, Roster
<1>3. Sound(Disband(s, g)) /\ Shrinks(s, Disband(s, g))
  BY <1>1, <1>2, Disbands
<1>4. Shrinks(s, s)
  BY DEF Shrinks
<1>. QED
  BY <1>3, <1>4 DEF DisbandIfEmpty

LEMMA UninvitedSound ==
    ASSUME NEW s, Sound(s), NEW g \in DOMAIN s.parties, NEW p \in s.parties[g].inviteList
    PROVE  Sound(Uninvited(s, g, p)) /\ Shrinks(s, Uninvited(s, g, p))
<1>. DEFINE r == s.parties[g]
            x == Without(r, p)
            t == [s EXCEPT !.parties[g] = Without(@, p), !.invited[p] = @ \ {g}]
<1>1. /\ SoundBut(s, g) /\ MembersSound(s, g) /\ InvitesSound(s, g) /\ r \in PartyRecord
      /\ s.party \in [Player -> {0} \cup DOMAIN s.parties]
      /\ s.invited \in [Player -> SUBSET DOMAIN s.parties]
      /\ IsState(s) /\ s.parties \in Seq(PartyRecord)
  BY SoundIsSoundBut
<1>2. /\ x \in PartyRecord /\ x.leader = r.leader /\ x.memberList = r.memberList
      /\ x.inviteList = r.inviteList \ {p} /\ p \in Player
  BY <1>1 DEF Without, PartyRecord
<1>. HIDE DEF x
<1>3. /\ IsState(t) /\ t.parties = [s.parties EXCEPT ![g] = x] /\ t.party = s.party
      /\ t.invited = [s.invited EXCEPT ![p] = @ \ {g}]
  BY <1>1 DEF IsState, x
<1>4. /\ t.parties \in Seq(PartyRecord) /\ DOMAIN t.parties = DOMAIN s.parties
      /\ t.parties[g] = x /\ \A h \in DOMAIN s.parties \ {g} : t.parties[h] = s.parties[h]
  BY <1>1, <1>2, <1>3, ReplacedIn
<1>. HIDE DEF t
<1>5. /\ t.invited \in [Player -> SUBSET DOMAIN s.parties]
      /\ \A q \in Player : t.invited[q] = IF q = p THEN s.invited[q] \ {g} ELSE s.invited[q]
  BY <1>1, <1>2, <1>3
<1>6. SoundBut(t, g) /\ (PartySound(t, g) => Sound(t)) /\ t.parties[g] = x
  <2>1. StateTypes(t)
    BY <1>1, <1>3, <1>4, <1>5 DEF StateTypes
  <2>2. Elsewhere(s, t, g)
    BY <1>3, <1>4, <1>5 DEF Elsewhere
  <2>. QED
    BY <1>1, <1>4, <2>1, <2>2, SoundElsewhere
<1>7. r.leader \in Player /\ s.party[r.leader] = g
  BY <1>1 DEF InvitesSound
<1>8. MembersSound(t, g)
  BY <1>1, <1>2, <1>3, <1>6 DEF MembersSound, Members, Roster
<1>9. InvitesSound(t, g)
  BY <1>1, <1>2, <1>3, <1>5, <1>6, <1>7 DEF InvitesSound
<1>10. Sound(t) /\ g \in DOMAIN t.parties
  BY <1>6, <1>8, <1>9 DEF PartySound, SoundBut
<1>11. Sound(DisbandIfEmpty(t, g)) /\ Shrinks(t, DisbandIfEmpty(t, g))
  BY <1>2, <1>3, <1>6, <1>7, <1>10, DisbandsIfEmpty
<1>12. Shrinks(s, t)
  BY <1>3, <1>5 DEF Shrinks
<1>13. Uninvited(s, g, p) = DisbandIfEmpty(t, g)
  BY DEF Uninvited, t
<1>. QED
  BY <1>11, <1>12, <1>13 DEF Shrinks

LEMMA LeftSound ==
    ASSUME NEW s, Sound(s), NEW p \in Player, s.party[p] # 0
    PROVE  Sound(Left(s, p)) /\ Shrinks(s, Left(s, p)) /\ Left(s, p).party[p] = 0
<1>. DEFINE g       == s.party[p]
            r       == s.parties[g]
            missing == MissingLeader(r, p)
            led     == IF r.leader = p /\ ~missing THEN PassLeadership(r, Head(r.memberList))
                                                   ELSE r
            left    == Updated([led EXCEPT !.memberList = RemoveFirst(@, p)])
            t       == [s EXCEPT !.parties[g] = left, !.party[p] = 0]
<1>1. g \in DOMAIN s.parties /\ StateTypes(s)
  BY DEF Sound, StateTypes
<1>2. /\ SoundBut(s, g) /\ MembersSound(s, g) /\ InvitesSound(s, g)
      /\ Fine(r) /\ r \in PartyRecord /\ g # 0
      /\ s.party \in [Player -> {0} \cup DOMAIN s.parties]
      /\ s.invited \in [Player -> SUBSET DOMAIN s.parties]
      /\ IsState(s) /\ s.parties \in Seq(PartyRecord)
  BY <1>1, SoundIsSoundBut
<1>3. /\ p \in Roster(r) /\ r.leader \in Player /\ s.party[r.leader] = g
      /\ \A q \in Members(r) : q \in Player /\ s.party[q] = g
      /\ \A q \in Player : s.party[q] = g => q \in Roster(r)
      /\ r.leader \notin Members(r)
  BY <1>1, <1>2, PartyInDomain DEF MembersSound
<1>4. /\ Fine(led) /\ led.leader \in Player /\ led.inviteList = r.inviteList
      /\ Roster(led) = Roster(r)
      /\ missing => led = r /\ r.leader = p
      /\ ~missing => led.leader # p
  <2>1. CASE r.leader = p /\ ~missing
    <3>1. r.memberList \in Seq(Player) /\ r.memberList # <<>>
      BY <1>2, <2>1 DEF MissingLeader, PartyRecord
    <3>2. Head(r.memberList) \in Members(r)
      <4>1. 1 \in 1..Len(r.memberList) /\ Head(r.memberList) = r.memberList[1]
        BY <3>1, EmptySeq
      <4>. QED
        BY <3>1, <4>1, DistinctIsInjective DEF Members
    <3>3. /\ Fine(led) /\ led.leader = Head(r.memberList)
          /\ Members(led) = (Members(r) \ {Head(r.memberList)}) \cup {r.leader}
          /\ led.inviteList = r.inviteList
      BY <1>2, <1>3, <2>1, <3>2, LeadershipPassed
    <3>. HIDE DEF led
    <3>. QED
      BY <1>3, <2>1, <3>2, <3>3 DEF Roster
  <2>2. CASE ~(r.leader = p /\ ~missing)
    BY <1>2, <1>3, <2>2 DEF MissingLeader
  <2>. QED
    BY <2>1, <2>2
<1>. HIDE DEF missing, led
<1>5. /\ Fine(left) /\ left.leader = led.leader /\ Members(left) = Members(led) \ {p}
      /\ left.inviteList = r.inviteList /\ left \in PartyRecord
  BY <1>4, MemberRemoved DEF Fine
<1>. HIDE DEF left
<1>6. /\ IsState(t) /\ t.parties = [s.parties EXCEPT ![g] = left] /\ t.invited = s.invited
      /\ t.party = [s.party EXCEPT ![p] = 0]
  BY <1>2 DEF IsState
<1>7. /\ t.parties \in Seq(PartyRecord) /\ DOMAIN t.parties = DOMAIN s.parties
      /\ t.parties[g] = left /\ \A h \in DOMAIN s.parties \ {g} : t.parties[h] = s.parties[h]
  BY <1>1, <1>2, <1>5, <1>6, ReplacedIn
<1>. HIDE DEF t
<1>8. /\ t.party \in [Player -> {0} \cup DOMAIN s.parties]
      /\ \A q \in Player : t.party[q] = IF q = p THEN 0 ELSE s.party[q]
  BY <1>2, <1>6
<1>9. StateTypes(t)
  BY <1>2, <1>6, <1>7, <1>8 DEF StateTypes
<1>10. Elsewhere(s, t, g)
  <2>1. \A h \in DOMAIN s.parties : h # 0
    BY <1>1, PartyInDomain
  <2>. QED
    BY <1>6, <1>7, <1>8, <2>1 DEF Elsewhere
<1>11. SoundBut(t, g) /\ (PartySound(t, g) => Sound(t)) /\ g \in DOMAIN t.parties
  BY <1>1, <1>2, <1>7, <1>9, <1>10, SoundElsewhere
<1>12. Shrinks(s, t) /\ t.party[p] = 0
  BY <1>6, <1>8 DEF Shrinks
<1>13. left.inviteList = {q \in Player : g \in t.invited[q]}
  BY <1>2, <1>5, <1>6 DEF InvitesSound
<1>14. CASE missing
  <2>1. left.leader = p /\ Members(left) = Members(r)
    BY <1>3, <1>4, <1>5, <1>14
  <2>2. Closable(t, g)
    <3>1. Roster(left) = Roster(r)
      BY <1>4, <1>14, <2>1 DEF Roster
    <3>2. \A q \in Player : t.party[q] = g => q \in Roster(left)
      BY <1>2, <1>3, <1>8, <3>1
    <3>3. \A q \in Player : q \in Roster(left) => t.party[q] \in {0, g}
      BY <1>3, <1>8, <3>1 DEF Roster
    <3>. QED
      BY <1>7, <1>13, <3>2, <3>3 DEF Closable
  <2>3. Sound(Disband(t, g)) /\ Shrinks(t, Disband(t, g))
    BY <1>11, <2>2, Disbands
  <2>4. Left(s, p) = Disband(t, g)
    BY <1>14 DEF Left, t, left, led, missing
  <2>. QED
    BY <1>12, <2>3, <2>4 DEF Shrinks
<1>15. CASE ~missing
  <2>1. left.leader # p /\ Members(left) \subseteq Roster(r) /\ left.leader \in Roster(r)
        /\ left.leader \in Player /\ Roster(left) = Roster(r) \ {p} /\ p \notin Members(left)
    BY <1>4, <1>5, <1>15 DEF Roster
  <2>2. t.party[left.leader] = g
    BY <1>3, <1>8, <2>1 DEF Roster
  <2>3. MembersSound(t, g)
    <3>1. \A q \in Members(left) : t.party[q] = g
      BY <1>3, <1>8, <2>1 DEF Roster
    <3>2. \A q \in Player : t.party[q] = g => q \in Roster(left)
      BY <1>2, <1>3, <1>8, <2>1
    <3>. QED
      BY <1>5, <1>7, <2>1, <2>2, <3>1, <3>2 DEF MembersSound, Fine
  <2>4. InvitesSound(t, g)
    BY <1>7, <1>13, <2>1, <2>2 DEF InvitesSound
  <2>5. Sound(t)
    BY <1>11, <2>3, <2>4 DEF PartySound
  <2>6. Sound(DisbandIfEmpty(t, g)) /\ Shrinks(t, DisbandIfEmpty(t, g))
    BY <1>7, <1>11, <2>2, <2>5, DisbandsIfEmpty
  <2>7. Left(s, p) = DisbandIfEmpty(t, g)
    BY <1>15 DEF Left, t, left, led, missing
  <2>. QED
    BY <1>12, <2>6, <2>7 DEF Shrinks
<1>. QED
  BY <1>14, <1>15

LEMMA ClearedSound ==
    ASSUME NEW s, Sound(s), NEW p \in Player
    PROVE  LET t == Cleared(s, p) IN
           /\ Sound(t) /\ Shrinks(s, t) /\ t.invited[p] = {}
           /\ DOMAIN t.parties = DOMAIN s.parties
           /\ \A g \in DOMAIN s.parties :
                 t.parties[g] \in {Disbanded, Without(s.parties[g], p), s.parties[g]}
<1>. DEFINE alone  == {g \in s.invited[p] : Empty(Without(s.parties[g], p))}
            now(g) == IF g \in alone THEN Disbanded
                      ELSE IF g \in s.invited[p] THEN Without(s.parties[g], p)
                      ELSE s.parties[g]
            f == [g \in DOMAIN s.parties |-> now(g)]
            n == Len(s.parties)
            t == Cleared(s, p)
<1>1. /\ s.parties \in Seq(PartyRecord) /\ n \in Nat /\ DOMAIN s.parties = 1..n
      /\ s.party \in [Player -> {0} \cup DOMAIN s.parties]
      /\ s.invited \in [Player -> SUBSET DOMAIN s.parties]
      /\ StateTypes(s)
  BY LenProperties DEF Sound, StateTypes
<1>2. ASSUME NEW g \in DOMAIN s.parties
      PROVE  /\ g # 0 /\ s.parties[g] \in PartyRecord /\ s.parties[g].leader \in Player \cup {None}
             /\ MembersSound(s, g) /\ InvitesSound(s, g)
             /\ Members(s.parties[g]) \subseteq Player
             /\ s.parties[g].memberList \in Seq(Player)
  BY <1>1, PartyInDomain DEF Sound, PartySound
<1>3. ASSUME NEW g \in DOMAIN s.parties
      PROVE  LET x == Without(s.parties[g], p) IN
             /\ x \in PartyRecord /\ x.leader = s.parties[g].leader
             /\ x.memberList = s.parties[g].memberList
             /\ x.inviteList = s.parties[g].inviteList \ {p}
             /\ Members(x) = Members(s.parties[g]) /\ Roster(x) = Roster(s.parties[g])
             /\ Empty(x) => Members(x) = {} /\ x.inviteList = {}
  <2>. DEFINE x == Without(s.parties[g], p)
  <2>1. /\ x \in PartyRecord /\ x.leader = s.parties[g].leader
        /\ x.memberList = s.parties[g].memberList
        /\ x.inviteList = s.parties[g].inviteList \ {p}
    BY <1>2 DEF Without, PartyRecord
  <2>. HIDE DEF x
  <2>2. Empty(x) => Members(x) = {} /\ x.inviteList = {}
    BY <1>2, <2>1, DistinctIsInjective DEF Empty, Members
  <2>3. x \in PartyRecord /\ Members(x) = Members(s.parties[g]) /\ Roster(x) = Roster(s.parties[g])
    BY <2>1 DEF Members, Roster
  <2>. QED
    BY <2>1, <2>2, <2>3 DEF x
<1>4. /\ t.parties = SubSeq(f, 1, n)
      /\ t.party = [q \in Player |->
                        IF \E g \in alone : q = s.parties[g].leader THEN 0 ELSE s.party[q]]
      /\ t.invited = [s.invited EXCEPT ![p] = {}]
      /\ IsState(t)
  BY DEF Cleared, IsState
<1>5. \A g \in DOMAIN s.parties : now(g) \in PartyRecord
  BY <1>2, <1>3, DisbandedParty
<1>6. /\ t.parties \in Seq(PartyRecord) /\ DOMAIN t.parties = DOMAIN s.parties
      /\ \A g \in DOMAIN s.parties : t.parties[g] = now(g)
  <2>1. \A g \in 1..n : f[g] \in PartyRecord /\ f[g] = now(g)
    BY <1>1, <1>5
  <2>. HIDE DEF f, now, n
  <2>2. /\ t.parties \in Seq(PartyRecord)
        /\ Len(t.parties) = IF 1 <= n THEN n - 1 + 1 ELSE 0
        /\ \A g \in 1..(n - 1 + 1) : t.parties[g] = f[1 + g - 1]
    BY <1>1, <1>4, <2>1, SubSeqProperties
  <2>3. Len(t.parties) = n /\ \A g \in 1..n : t.parties[g] = f[g]
    BY <1>1, <2>2
  <2>4. DOMAIN t.parties = 1..n
    BY <2>2, <2>3, LenProperties
  <2>. QED
    BY <1>1, <2>1, <2>2, <2>3, <2>4
<1>. HIDE DEF t
<1>7. ASSUME NEW g \in s.invited[p]
      PROVE  /\ g \in DOMAIN s.parties /\ p \in s.parties[g].inviteList
             /\ s.parties[g].leader \in Player /\ s.party[s.parties[g].leader] = g
  BY <1>1, <1>2 DEF InvitesSound
\* Alone were the leaders of the parties that disband.
<1>8. ASSUME NEW q \in Player
      PROVE  t.party[q] = IF s.party[q] \in alone THEN 0 ELSE s.party[q]
  <2>1. CASE s.party[q] \in alone
    <3>1. s.party[q] \in DOMAIN s.parties /\ Members(s.parties[s.party[q]]) = {}
      BY <1>3, <1>7, <2>1
    <3>2. q = s.parties[s.party[q]].leader
      BY <1>2, <3>1 DEF MembersSound, Roster
    <3>. QED
      BY <1>4, <2>1, <3>2
  <2>2. CASE s.party[q] \notin alone
    <3>1. \A g \in alone : q # s.parties[g].leader
      BY <1>7, <2>2
    <3>. QED
      BY <1>4, <2>2, <3>1
  <2>. QED
    BY <2>1, <2>2
<1>9. \A q \in Player : t.invited[q] = IF q = p THEN {} ELSE s.invited[q]
  BY <1>1, <1>4
<1>10. StateTypes(t)
  <2>1. t.party \in [Player -> {0} \cup DOMAIN s.parties]
    BY <1>1, <1>4
  <2>2. t.invited \in [Player -> SUBSET DOMAIN s.parties]
    BY <1>1, <1>4
  <2>. QED
    BY <1>4, <1>6, <2>1, <2>2 DEF StateTypes
<1>. HIDE DEF f, n
<1>11. ASSUME NEW h \in DOMAIN s.parties PROVE PartySound(t, h)
  <2>1. CASE h \in alone
    <3>1. t.parties[h] = Disbanded
      BY <1>6, <2>1
    <3>2. \A q \in Player : t.party[q] # h
      BY <1>2, <1>8, <2>1
    <3>3. \A q \in Player : h \notin t.invited[q]
      <4>1. s.parties[h].inviteList \ {p} = {}
        BY <1>3, <2>1
      <4>2. \A q \in Player : h \in s.invited[q] => q \in s.parties[h].inviteList
        BY <1>2 DEF InvitesSound
      <4>. QED
        BY <1>9, <4>1, <4>2
    <3>. QED
      BY <3>1, <3>2, <3>3, DisbandedParty DEF PartySound, MembersSound, InvitesSound
  <2>2. CASE h \notin alone
    <3>. DEFINE r == s.parties[h]
                x == t.parties[h]
    <3>1. /\ x.leader = r.leader /\ x.memberList = r.memberList
          /\ x.inviteList = r.inviteList \ {p}
          /\ Members(x) = Members(r) /\ Roster(x) = Roster(r)
      <4>1. CASE h \in s.invited[p]
        BY <1>3, <1>6, <2>2, <4>1
      <4>2. CASE h \notin s.invited[p]
        <5>1. x = r
          BY <1>6, <2>2, <4>2
        <5>2. p \notin r.inviteList
          BY <1>2, <4>2 DEF InvitesSound
        <5>. QED
          BY <5>1, <5>2
      <4>. QED
        BY <4>1, <4>2
    <3>2. \A q \in Player : t.party[q] = h <=> s.party[q] = h
      BY <1>2, <1>8, <2>2
    <3>3. \A q \in Player : h \in t.invited[q] <=> h \in s.invited[q] /\ q # p
      BY <1>9
    <3>4. /\ r.leader \in Player \cup {None} /\ Members(r) \subseteq Player
          /\ MembersSound(s, h) /\ InvitesSound(s, h)
      BY <1>2
    <3>5. MembersSound(t, h)
      BY <3>1, <3>2, <3>4 DEF MembersSound
    <3>6. InvitesSound(t, h)
      BY <3>1, <3>2, <3>3, <3>4 DEF InvitesSound
    <3>. QED
      BY <3>5, <3>6 DEF PartySound
  <2>. QED
    BY <2>1, <2>2
<1>12. Sound(t)
  BY <1>6, <1>10, <1>11 DEF Sound
<1>13. Shrinks(s, t)
  BY <1>8, <1>9 DEF Shrinks
<1>14. \A g \in DOMAIN s.parties :
          t.parties[g] \in {Disbanded, Without(s.parties[g], p), s.parties[g]}
  BY <1>6
<1>. QED
  BY <1>6, <1>9, <1>12, <1>13, <1>14 DEF t

\* A player who leaves the game leaves no trace.
LEMMA OutOfPartiesSound ==
    ASSUME NEW s, Sound(s), NEW p \in Player
    PROVE  LET t == OutOfParties(s, p) IN
           Sound(t) /\ Shrinks(s, t) /\ t.party[p] = 0 /\ t.invited[p] = {}
<1>. DEFINE t == Cleared(s, p)
<1>1. Sound(t) /\ Shrinks(s, t) /\ t.invited[p] = {}
  BY ClearedSound
<1>. HIDE DEF t
<1>2. CASE t.party[p] # 0
  <2>1. Sound(Left(t, p)) /\ Shrinks(t, Left(t, p)) /\ Left(t, p).party[p] = 0
    BY <1>1, <1>2, LeftSound
  <2>2. Shrinks(s, Left(t, p)) /\ Left(t, p).invited[p] = {}
    BY <1>1, <2>1 DEF Shrinks
  <2>3. OutOfParties(s, p) = Left(t, p)
    BY <1>2 DEF OutOfParties, t
  <2>. QED
    BY <2>1, <2>2, <2>3
<1>3. CASE t.party[p] = 0
  BY <1>1, <1>3 DEF OutOfParties, t
<1>. QED
  BY <1>2, <1>3

\* What is forgotten is not who is in or invited.
LEMMA ForgottenSound ==
    ASSUME NEW s, Sound(s), NEW p \in Player
    PROVE  LET t == Forgotten(s, p) IN
           /\ Sound(t) /\ t.party = s.party /\ t.invited = s.invited
           /\ DOMAIN t.parties = DOMAIN s.parties
           /\ \A g \in DOMAIN s.parties : t.parties[g] = [s.parties[g] EXCEPT !.fought = @ \ {p}]
<1>. DEFINE now(g) == [s.parties[g] EXCEPT !.fought = @ \ {p}]
            f == [g \in DOMAIN s.parties |-> now(g)]
            n == Len(s.parties)
            t == Forgotten(s, p)
<1>1. /\ s.parties \in Seq(PartyRecord) /\ n \in Nat /\ DOMAIN s.parties = 1..n
      /\ s.party \in [Player -> {0} \cup DOMAIN s.parties]
      /\ s.invited \in [Player -> SUBSET DOMAIN s.parties]
      /\ StateTypes(s) /\ IsState(s)
  BY LenProperties DEF Sound, StateTypes
<1>2. ASSUME NEW g \in DOMAIN s.parties
      PROVE  /\ s.parties[g] \in PartyRecord
             /\ MembersSound(s, g) /\ InvitesSound(s, g)
             /\ now(g) \in PartyRecord
             /\ now(g).leader = s.parties[g].leader
             /\ now(g).memberList = s.parties[g].memberList
             /\ now(g).inviteList = s.parties[g].inviteList
  <2>1. s.parties[g] \in PartyRecord /\ MembersSound(s, g) /\ InvitesSound(s, g)
    BY <1>1, PartyInDomain DEF Sound, PartySound
  <2>. QED
    BY <2>1 DEF PartyRecord
<1>3. /\ t.parties = SubSeq(f, 1, n)
      /\ t.party = s.party /\ t.invited = s.invited
      /\ IsState(t)
  BY <1>1 DEF Forgotten, IsState
<1>4. /\ t.parties \in Seq(PartyRecord) /\ DOMAIN t.parties = DOMAIN s.parties
      /\ \A g \in DOMAIN s.parties : t.parties[g] = now(g)
  <2>1. \A g \in 1..n : f[g] \in PartyRecord /\ f[g] = now(g)
    BY <1>1, <1>2
  <2>. HIDE DEF f, now, n, t
  <2>2. /\ t.parties \in Seq(PartyRecord)
        /\ Len(t.parties) = IF 1 <= n THEN n - 1 + 1 ELSE 0
        /\ \A g \in 1..(n - 1 + 1) : t.parties[g] = f[1 + g - 1]
    BY <1>1, <1>3, <2>1, SubSeqProperties
  <2>3. Len(t.parties) = n /\ \A g \in 1..n : t.parties[g] = f[g]
    BY <1>1, <2>2
  <2>4. DOMAIN t.parties = 1..n
    BY <2>2, <2>3, LenProperties
  <2>. QED
    BY <1>1, <2>1, <2>2, <2>3, <2>4
<1>. HIDE DEF now, t
<1>5. StateTypes(t)
  BY <1>1, <1>3, <1>4 DEF StateTypes
<1>6. ASSUME NEW g \in DOMAIN t.parties PROVE PartySound(t, g)
  BY <1>2, <1>3, <1>4 DEF PartySound, MembersSound, InvitesSound, Members, Roster
<1>7. Sound(t)
  BY <1>5, <1>6 DEF Sound
<1>. QED
  BY <1>3, <1>4, <1>7 DEF t, now

\* A party that keeps its players and invitations, whoever leads it.
LEMMA SameRosterSound ==
    ASSUME NEW s, Sound(s), NEW g \in DOMAIN s.parties, NEW x, Fine(x),
           Roster(x) = Roster(s.parties[g]), x.inviteList = s.parties[g].inviteList,
           x.leader = s.parties[g].leader \/ (x.leader \in Player /\ s.party[x.leader] = g),
           NEW t, t = [s EXCEPT !.parties[g] = x]
    PROVE  Sound(t) /\ t.party = s.party /\ t.invited = s.invited
<1>. DEFINE r == s.parties[g]
<1>1. /\ SoundBut(s, g) /\ MembersSound(s, g) /\ InvitesSound(s, g)
      /\ Fine(r) /\ r \in PartyRecord /\ g # 0
      /\ s.party \in [Player -> {0} \cup DOMAIN s.parties]
      /\ s.invited \in [Player -> SUBSET DOMAIN s.parties]
      /\ IsState(s) /\ s.parties \in Seq(PartyRecord) /\ Members(r) \subseteq Player
  BY SoundIsSoundBut, PartyInDomain DEF SoundBut
<1>2. /\ IsState(t) /\ t.parties = [s.parties EXCEPT ![g] = x] /\ t.invited = s.invited
      /\ t.party = s.party
  BY <1>1 DEF IsState
<1>3. /\ t.parties \in Seq(PartyRecord) /\ DOMAIN t.parties = DOMAIN s.parties
      /\ t.parties[g] = x /\ \A h \in DOMAIN s.parties \ {g} : t.parties[h] = s.parties[h]
  BY <1>1, <1>2, ReplacedIn DEF Fine
<1>4. StateTypes(t) /\ Elsewhere(s, t, g)
  BY <1>1, <1>2, <1>3 DEF StateTypes, Elsewhere
<1>5. SoundBut(t, g) /\ (PartySound(t, g) => Sound(t))
  BY <1>1, <1>4, SoundElsewhere
<1>6. /\ x.leader \notin Members(x) /\ IsInjective(x.memberList)
      /\ \A q \in Members(r) : q \in Player /\ s.party[q] = g
      /\ \A q \in Player : s.party[q] = g =>
            q \in Roster(r) /\ r.leader \in Player /\ s.party[r.leader] = g
      /\ r.inviteList # {} => r.leader \in Player /\ s.party[r.leader] = g
      /\ r.inviteList = {p \in Player : g \in s.invited[p]}
      /\ r.leader \notin Members(r)
  BY <1>1 DEF Fine, MembersSound, InvitesSound
<1>7. CASE x.leader = r.leader
  <2>1. Members(x) = Members(r)
    <3>1. /\ \A q : q \in Roster(x) <=> q = r.leader \/ q \in Members(x)
          /\ \A q : q \in Roster(r) <=> q = r.leader \/ q \in Members(r)
      BY <1>7 DEF Roster
    <3>2. r.leader \notin Members(x) /\ r.leader \notin Members(r) /\ Roster(x) = Roster(r)
      BY <1>6, <1>7
    <3>3. \A q : q \in Members(x) <=> q \in Members(r)
      BY <3>1, <3>2
    <3>. QED
      BY <3>3
  <2>2. MembersSound(t, g) /\ InvitesSound(t, g)
    BY <1>2, <1>3, <1>6, <1>7, <2>1 DEF MembersSound, InvitesSound
  <2>. QED
    BY <1>2, <1>5, <2>2 DEF PartySound
<1>8. CASE x.leader \in Player /\ s.party[x.leader] = g
  <2>1. \A q \in Members(x) : s.party[q] = g
    BY <1>6, <1>8 DEF Roster
  <2>2. MembersSound(t, g)
    BY <1>2, <1>3, <1>6, <1>8, <2>1 DEF MembersSound
  <2>3. InvitesSound(t, g)
    BY <1>2, <1>3, <1>6, <1>8 DEF InvitesSound
  <2>. QED
    BY <1>2, <1>5, <2>2, <2>3 DEF PartySound
<1>. QED
  BY <1>7, <1>8

LEMMA JoinedSound ==
    ASSUME NEW s, Sound(s), NEW g \in DOMAIN s.parties, NEW p \in s.parties[g].inviteList,
           s.party[p] = 0,
           NEW t, t = [parties |-> [s.parties EXCEPT ![g] = Joined(@, p)],
                       party   |-> [s.party EXCEPT ![p] = g],
                       invited |-> [s.invited EXCEPT ![p] = @ \ {g}]]
    PROVE  Sound(t)
<1>. DEFINE r == s.parties[g]
            x == Joined(r, p)
<1>1. /\ SoundBut(s, g) /\ MembersSound(s, g) /\ InvitesSound(s, g)
      /\ Fine(r) /\ r \in PartyRecord /\ g # 0
      /\ s.party \in [Player -> {0} \cup DOMAIN s.parties]
      /\ s.invited \in [Player -> SUBSET DOMAIN s.parties]
      /\ s.parties \in Seq(PartyRecord) /\ Members(r) \subseteq Player
      /\ p \in Player
  BY SoundIsSoundBut, PartyInDomain DEF SoundBut
<1>2. /\ r.leader \in Player /\ s.party[r.leader] = g /\ p # r.leader /\ p \notin Members(r)
      /\ \A q \in Members(r) : q \in Player /\ s.party[q] = g
      /\ \A q \in Player : s.party[q] = g => q \in Roster(r)
      /\ \A q \in Player : q \in r.inviteList <=> g \in s.invited[q]
      /\ r.inviteList \subseteq Player
  BY <1>1 DEF MembersSound, InvitesSound
<1>3. /\ Fine(x) /\ x.leader = r.leader /\ Members(x) = Members(r) \cup {p}
      /\ x.inviteList = r.inviteList \ {p} /\ x \in PartyRecord
  BY <1>1, <1>2, MemberJoined DEF Fine
<1>. HIDE DEF x
<1>4. /\ IsState(t)
      /\ t.parties = [s.parties EXCEPT ![g] = Joined(@, p)]
      /\ t.party = [s.party EXCEPT ![p] = g]
      /\ t.invited = [s.invited EXCEPT ![p] = @ \ {g}]
  BY DEF IsState
<1>5. /\ t.parties \in Seq(PartyRecord) /\ DOMAIN t.parties = DOMAIN s.parties
      /\ t.parties[g] = x /\ \A h \in DOMAIN s.parties \ {g} : t.parties[h] = s.parties[h]
  <2>1. t.parties = [s.parties EXCEPT ![g] = x]
    BY <1>4 DEF x
  <2>. QED
    BY <1>1, <1>3, <2>1, ReplacedIn
<1>6. /\ t.party \in [Player -> {0} \cup DOMAIN s.parties]
      /\ t.invited \in [Player -> SUBSET DOMAIN s.parties]
      /\ \A q \in Player : t.party[q] = IF q = p THEN g ELSE s.party[q]
      /\ \A q \in Player : t.invited[q] = IF q = p THEN s.invited[q] \ {g} ELSE s.invited[q]
  <2>1. t.party \in [Player -> {0} \cup DOMAIN s.parties]
    BY <1>1, <1>4
  <2>2. t.invited \in [Player -> SUBSET DOMAIN s.parties]
    BY <1>1, <1>4
  <2>3. \A q \in Player : t.party[q] = IF q = p THEN g ELSE s.party[q]
    BY <1>1, <1>4
  <2>4. \A q \in Player : t.invited[q] = IF q = p THEN s.invited[q] \ {g} ELSE s.invited[q]
    BY <1>1, <1>4
  <2>. QED
    BY <2>1, <2>2, <2>3, <2>4
<1>7. StateTypes(t)
  BY <1>4, <1>5, <1>6 DEF StateTypes
<1>8. Elsewhere(s, t, g)
  <2>1. \A h \in DOMAIN s.parties : h # 0
    BY <1>1, PartyInDomain DEF SoundBut
  <2>. QED
    BY <1>5, <1>6, <2>1 DEF Elsewhere
<1>9. MembersSound(t, g)
  <2>1. \A q \in Members(x) : t.party[q] = g
    BY <1>2, <1>3, <1>6
  <2>2. \A q \in Player : t.party[q] = g => q \in Roster(x)
    BY <1>2, <1>3, <1>6 DEF Roster
  <2>3. x.leader \in Player /\ t.party[x.leader] = g
    BY <1>2, <1>3, <1>6
  <2>. QED
    BY <1>3, <1>5, <2>1, <2>2, <2>3 DEF MembersSound, Fine
<1>10. InvitesSound(t, g)
  <2>1. x.inviteList = {q \in Player : g \in t.invited[q]}
    BY <1>2, <1>3, <1>6
  <2>2. x.leader \in Player /\ t.party[x.leader] = g
    BY <1>2, <1>3, <1>6
  <2>. QED
    BY <1>5, <2>1, <2>2 DEF InvitesSound
<1>. QED
  BY <1>1, <1>7, <1>8, <1>9, <1>10, SoundElsewhere DEF PartySound

LEMMA InvitedSound ==
    ASSUME NEW s, Sound(s), NEW g \in DOMAIN s.parties, NEW q \in Player,
           s.parties[g].leader \in Player, s.party[s.parties[g].leader] = g
    PROVE  LET t == Invited(s, g, q) IN
           /\ Sound(t) /\ t.party = s.party
           /\ \A p \in Player \ {q} : t.invited[p] = s.invited[p]
<1>. DEFINE r == s.parties[g]
            x == [r EXCEPT !.inviteList = @ \cup {q}]
            t == [s EXCEPT !.parties[g].inviteList = @ \cup {q}, !.invited[q] = @ \cup {g}]
<1>1. /\ SoundBut(s, g) /\ MembersSound(s, g) /\ InvitesSound(s, g) /\ r \in PartyRecord
      /\ s.party \in [Player -> {0} \cup DOMAIN s.parties]
      /\ s.invited \in [Player -> SUBSET DOMAIN s.parties]
      /\ IsState(s) /\ s.parties \in Seq(PartyRecord)
  BY SoundIsSoundBut
<1>2. /\ x \in PartyRecord /\ x.leader = r.leader /\ x.memberList = r.memberList
      /\ x.inviteList = r.inviteList \cup {q}
  BY <1>1 DEF PartyRecord
<1>. HIDE DEF x
<1>3. /\ IsState(t) /\ t.parties = [s.parties EXCEPT ![g] = x] /\ t.party = s.party
      /\ t.invited = [s.invited EXCEPT ![q] = @ \cup {g}]
  <2>1. t = [s EXCEPT !.parties[g] = x, !.invited[q] = @ \cup {g}]
    BY DEF x
  <2>. HIDE DEF t
  <2>2. IsState(t) /\ t.party = s.party
    BY <1>1, <2>1 DEF IsState
  <2>3. t.parties = [s.parties EXCEPT ![g] = x]
    BY <1>1, <2>1 DEF IsState
  <2>4. t.invited = [s.invited EXCEPT ![q] = @ \cup {g}]
    BY <1>1, <2>1 DEF IsState
  <2>. QED
    BY <2>2, <2>3, <2>4
<1>. HIDE DEF t
<1>4. /\ t.parties \in Seq(PartyRecord) /\ DOMAIN t.parties = DOMAIN s.parties
      /\ t.parties[g] = x /\ \A h \in DOMAIN s.parties \ {g} : t.parties[h] = s.parties[h]
  BY <1>1, <1>2, <1>3, ReplacedIn
<1>5. /\ t.invited \in [Player -> SUBSET DOMAIN s.parties]
      /\ \A p \in Player : t.invited[p] = IF p = q THEN s.invited[p] \cup {g} ELSE s.invited[p]
  <2>1. t.invited \in [Player -> SUBSET DOMAIN s.parties]
    BY <1>1, <1>3
  <2>2. \A p \in Player : t.invited[p] = IF p = q THEN s.invited[p] \cup {g} ELSE s.invited[p]
    BY <1>1, <1>3
  <2>. QED
    BY <2>1, <2>2
<1>6. StateTypes(t)
  BY <1>1, <1>3, <1>4, <1>5 DEF StateTypes
<1>7. Elsewhere(s, t, g)
  BY <1>3, <1>4, <1>5 DEF Elsewhere
<1>8. MembersSound(t, g)
  BY <1>1, <1>2, <1>3, <1>4 DEF MembersSound, Members, Roster
<1>9. InvitesSound(t, g)
  <2>1. \A p \in Player : p \in r.inviteList <=> g \in s.invited[p]
    BY <1>1 DEF InvitesSound
  <2>2. x.inviteList = {p \in Player : g \in t.invited[p]}
    BY <1>1, <1>2, <1>5, <2>1 DEF PartyRecord
  <2>. QED
    BY <1>2, <1>3, <1>4, <2>2 DEF InvitesSound
<1>10. Sound(t) /\ t.party = s.party /\ \A p \in Player \ {q} : t.invited[p] = s.invited[p]
  BY <1>1, <1>3, <1>5, <1>6, <1>7, <1>8, <1>9, SoundElsewhere DEF PartySound
<1>. QED
  BY <1>10 DEF Invited, t

LEMMA NewPartySound ==
    ASSUME NEW s, Sound(s), NEW p \in Player, s.party[p] = 0
    PROVE  LET t == [s EXCEPT !.parties = Append(@, NewParty(p)),
                              !.party[p] = Len(s.parties) + 1]
           IN
           /\ Sound(t) /\ t.invited = s.invited
           /\ t.party[p] \in DOMAIN t.parties /\ t.parties[t.party[p]].leader = p
           /\ \A q \in Player \ {p} : t.party[q] = s.party[q]
<1>. DEFINE n == Len(s.parties)
            g == n + 1
            t == [s EXCEPT !.parties = Append(@, NewParty(p)),
                           !.party[p] = Len(s.parties) + 1]
<1>1. /\ s.party \in [Player -> {0} \cup DOMAIN s.parties]
      /\ s.invited \in [Player -> SUBSET DOMAIN s.parties]
      /\ IsState(s) /\ s.parties \in Seq(PartyRecord) /\ StateTypes(s)
      /\ n \in Nat /\ DOMAIN s.parties = 1..n
  BY LenProperties DEF Sound, StateTypes
<1>2. /\ NewParty(p) \in PartyRecord /\ NewParty(p).leader = p
      /\ NewParty(p).memberList = <<>> /\ NewParty(p).inviteList = {}
      /\ Members(NewParty(p)) = {} /\ IsInjective(NewParty(p).memberList)
  <2>1. /\ NewParty(p) \in PartyRecord /\ NewParty(p).leader = p
        /\ NewParty(p).memberList = <<>> /\ NewParty(p).inviteList = {}
    BY DisbandedParty, EmptySeq DEF NewParty, PartyRecord, Disbanded
  <2>. QED
    BY <2>1, DisbandedParty DEF Members, Disbanded
<1>3. /\ IsState(t) /\ t.parties = Append(s.parties, NewParty(p)) /\ t.invited = s.invited
      /\ t.party = [s.party EXCEPT ![p] = g]
  BY <1>1 DEF IsState
<1>. HIDE DEF n, t
<1>4. /\ t.parties \in Seq(PartyRecord) /\ DOMAIN t.parties = 1..g
      /\ t.parties[g] = NewParty(p) /\ \A h \in 1..n : t.parties[h] = s.parties[h]
  <2>1. /\ t.parties \in Seq(PartyRecord) /\ Len(t.parties) = g
        /\ t.parties[g] = NewParty(p) /\ \A h \in 1..n : t.parties[h] = s.parties[h]
    BY <1>1, <1>2, <1>3, AppendProperties DEF n
  <2>. QED
    BY <2>1, LenProperties
<1>5. /\ g \in 1..g /\ g \notin 1..n /\ \A h \in 1..g : h = g \/ h \in 1..n
      /\ \A h \in 1..n : h \in 1..g /\ h # 0 /\ h # g
      /\ g # 0
  BY <1>1
<1>. HIDE DEF g
<1>6. \A q \in Player : t.party[q] = IF q = p THEN g ELSE s.party[q]
  BY <1>1, <1>3
<1>7. StateTypes(t)
  <2>1. t.party \in [Player -> {0} \cup 1..g]
    BY <1>1, <1>3, <1>5
  <2>2. t.invited \in [Player -> SUBSET (1..g)]
    BY <1>1, <1>3, <1>5
  <2>. QED
    BY <1>3, <1>4, <2>1, <2>2 DEF StateTypes
<1>8. ASSUME NEW h \in 1..n PROVE PartySound(t, h)
  <2>1. PartySound(s, h) /\ t.parties[h] = s.parties[h] /\ h # 0 /\ h # g
    BY <1>1, <1>4, <1>5 DEF Sound
  <2>2. /\ Members(s.parties[h]) \subseteq Player /\ s.parties[h].leader \in Player \cup {None}
    BY <1>1, PartyInDomain
  <2>3. \A q \in Player : t.party[q] = h <=> s.party[q] = h
    BY <1>6, <2>1
  <2>4. MembersSound(t, h)
    BY <2>1, <2>2, <2>3 DEF PartySound, MembersSound
  <2>5. InvitesSound(t, h)
    BY <1>3, <2>1, <2>2, <2>3 DEF PartySound, InvitesSound
  <2>. QED
    BY <2>4, <2>5 DEF PartySound
<1>9. PartySound(t, g)
  <2>1. \A q \in Player : t.party[q] = g => q = p
    BY <1>1, <1>5, <1>6
  <2>2. MembersSound(t, g)
    BY <1>2, <1>4, <1>6, <2>1 DEF MembersSound, Roster
  <2>3. InvitesSound(t, g)
    BY <1>1, <1>2, <1>3, <1>4, <1>5 DEF InvitesSound
  <2>. QED
    BY <2>2, <2>3 DEF PartySound
<1>10. Sound(t)
  BY <1>4, <1>5, <1>7, <1>8, <1>9 DEF Sound
<1>11. /\ Sound(t) /\ t.invited = s.invited
       /\ t.party[p] \in DOMAIN t.parties /\ t.parties[t.party[p]].leader = p
       /\ \A q \in Player \ {p} : t.party[q] = s.party[q]
  BY <1>2, <1>3, <1>4, <1>5, <1>6, <1>10
<1>. QED
  BY <1>11 DEF t

\* A party of nobody but its leader is left alone.
LEMMA RefusedSound ==
    ASSUME NEW s, Sound(s), NEW p \in Player, s.party[p] # 0,
           s.parties[s.party[p]].leader = p, Empty(s.parties[s.party[p]]),
           NEW t, t = [s EXCEPT !.party[p] = 0]
    PROVE  Sound(t) /\ Shrinks(s, t)
<1>. DEFINE g == s.party[p]
            r == s.parties[g]
<1>1. /\ g \in DOMAIN s.parties /\ StateTypes(s)
      /\ s.party \in [Player -> {0} \cup DOMAIN s.parties]
      /\ s.invited \in [Player -> SUBSET DOMAIN s.parties]
      /\ IsState(s)
  BY DEF Sound, StateTypes
<1>2. SoundBut(s, g) /\ MembersSound(s, g) /\ InvitesSound(s, g)
  BY <1>1, SoundIsSoundBut
<1>3. Members(r) = {} /\ r.inviteList = {}
  BY <1>1, PartyInDomain, DistinctIsInjective DEF Empty, Members
<1>4. /\ IsState(t) /\ t.parties = s.parties /\ t.invited = s.invited
      /\ t.party = [s.party EXCEPT ![p] = 0]
  BY <1>1 DEF IsState
<1>5. \A q \in Player : t.party[q] = IF q = p THEN 0 ELSE s.party[q]
  BY <1>1, <1>4
<1>6. StateTypes(t)
  <2>1. t.party \in [Player -> {0} \cup DOMAIN s.parties]
    BY <1>1, <1>4
  <2>. QED
    BY <1>1, <1>4, <2>1 DEF StateTypes
<1>7. Elsewhere(s, t, g)
  <2>1. \A h \in DOMAIN s.parties : h # 0
    BY <1>1, PartyInDomain
  <2>. QED
    BY <1>1, <1>4, <1>5, <2>1 DEF Elsewhere
<1>8. \A q \in Player : t.party[q] # g
  BY <1>2, <1>3, <1>5 DEF MembersSound, Roster
<1>9. PartySound(t, g)
  BY <1>2, <1>3, <1>4, <1>8 DEF PartySound, MembersSound, InvitesSound
<1>10. Shrinks(s, t)
  BY <1>4, <1>5 DEF Shrinks
<1>. QED
  BY <1>2, <1>6, <1>7, <1>9, <1>10, SoundElsewhere

-----------------------------------------------------------------------------
(* The handlers.                                                           *)

LEMMA InviteToPartySound ==
    ASSUME Sound(State), Within(State, players), NEW p \in Player, NEW q \in Player,
           InviteToParty(p, q)
    PROVE  \E t : Sound(t) /\ Within(t, players) /\ Become(t)
<1>. DEFINE s == PartyForInvite(p)
            g == s.party[p]
<1>1. State.parties = parties /\ State.party = party /\ State.invited = invitePartyList
  BY DEF State
<1>2. /\ p \in players /\ q \in players
      /\ (party[p] # 0 /\ parties[party[p]].leader = p) \/ party[p] = 0
      /\ \/ Become(Invited(s, g, q))
         \/ Empty(s.parties[g]) /\ Become([s EXCEPT !.party[p] = 0])
  BY DEF InviteToParty, Leads
<1>3. /\ Sound(s) /\ g \in DOMAIN s.parties /\ s.parties[g].leader = p /\ Within(s, players)
  <2>1. CASE party[p] # 0
    <3>1. s = State
      BY <2>1 DEF PartyForInvite
    <3>2. party[p] \in DOMAIN parties
      BY <1>1, <2>1 DEF Sound, StateTypes
    <3>. QED
      BY <1>1, <1>2, <2>1, <3>1, <3>2
  <2>2. CASE party[p] = 0
    <3>. DEFINE new == [State EXCEPT !.parties = Append(@, NewParty(p)),
                                     !.party[p] = Len(State.parties) + 1]
    <3>1. s = new
      BY <1>1, <2>2 DEF PartyForInvite
    <3>2. /\ Sound(new) /\ new.invited = State.invited
          /\ new.party[p] \in DOMAIN new.parties /\ new.parties[new.party[p]].leader = p
          /\ \A x \in Player \ {p} : new.party[x] = State.party[x]
      <4>1. Sound(State) /\ State.party[p] = 0
        BY <1>1, <2>2
      <4>. QED
        BY <4>1, NewPartySound
    <3>. HIDE DEF s, new
    <3>3. /\ Sound(s) /\ s.invited = State.invited
          /\ g \in DOMAIN s.parties /\ s.parties[g].leader = p
          /\ \A x \in Player \ {p} : s.party[x] = State.party[x]
      BY <3>1, <3>2
    <3>4. Within(s, players)
      BY <1>2, <3>3 DEF Within
    <3>. QED
      BY <3>3, <3>4
  <2>. QED
    BY <2>1, <2>2
<1>. HIDE DEF s
<1>4. g # 0
  BY <1>3, PartyInDomain DEF Sound
<1>5. CASE Become(Invited(s, g, q))
  <2>1. /\ Sound(Invited(s, g, q)) /\ Invited(s, g, q).party = s.party
        /\ \A x \in Player \ {q} : Invited(s, g, q).invited[x] = s.invited[x]
    BY <1>3, InvitedSound
  <2>2. Within(Invited(s, g, q), players)
    BY <1>2, <1>3, <2>1 DEF Within
  <2>. QED
    BY <1>5, <2>1, <2>2
<1>6. CASE Empty(s.parties[g]) /\ Become([s EXCEPT !.party[p] = 0])
  <2>1. Sound([s EXCEPT !.party[p] = 0]) /\ Shrinks(s, [s EXCEPT !.party[p] = 0])
    BY <1>3, <1>4, <1>6, RefusedSound
  <2>2. Within([s EXCEPT !.party[p] = 0], players)
    BY <1>3, <2>1 DEF Within, Shrinks
  <2>. QED
    BY <1>6, <2>1, <2>2
<1>. QED
  BY <1>2, <1>5, <1>6

LEMMA JoinPartySound ==
    ASSUME Sound(State), Within(State, players), NEW p \in Player, NEW leader \in Player,
           JoinParty(p, leader)
    PROVE  \E t : Sound(t) /\ Within(t, players) /\ Become(t)
<1>. DEFINE s == State
            g == party[leader]
            t == [parties |-> [parties EXCEPT ![g] = Joined(@, p)],
                  party   |-> [party EXCEPT ![p] = g],
                  invited |-> [invitePartyList EXCEPT ![p] = @ \ {g}]]
<1>1. s.parties = parties /\ s.party = party /\ s.invited = invitePartyList
  BY DEF State
<1>2. /\ p \in players /\ g # 0 /\ p \in parties[g].inviteList /\ party[p] = 0
      /\ Become(t)
  BY DEF JoinParty, IsInviting, Leads
<1>3. /\ g \in DOMAIN parties /\ party \in [Player -> {0} \cup DOMAIN parties]
      /\ invitePartyList \in [Player -> SUBSET DOMAIN parties]
  BY <1>1, <1>2 DEF Sound, StateTypes
<1>. DEFINE joined == [parties |-> [s.parties EXCEPT ![g] = Joined(@, p)],
                       party   |-> [s.party EXCEPT ![p] = g],
                       invited |-> [s.invited EXCEPT ![p] = @ \ {g}]]
<1>4. t = joined
  BY DEF State
<1>. HIDE DEF t, s, g
<1>5. Sound(joined)
  BY <1>1, <1>2, <1>3, JoinedSound DEF s
<1>6. Within(t, players)
  BY <1>1, <1>2, <1>3 DEF Within, s, t
<1>. HIDE DEF joined
<1>. QED
  BY <1>2, <1>4, <1>5, <1>6

LEMMA PassPartyLeadershipSound ==
    ASSUME Sound(State), Within(State, players), NEW p \in Player, NEW q \in Player,
           PassPartyLeadership(p, q)
    PROVE  \E t : Sound(t) /\ Within(t, players) /\ Become(t)
<1>. DEFINE s == State
            g == party[p]
            x == PassLeadership(parties[g], q)
            t == [s EXCEPT !.parties[g] = x]
<1>1. s.parties = parties /\ s.party = party /\ s.invited = invitePartyList
  BY DEF State
<1>2. /\ p # q /\ g # 0 /\ parties[g].leader = p /\ party[q] = g
      /\ Become(t)
  BY <1>1 DEF PassPartyLeadership, Leads
<1>. HIDE DEF s
<1>3. g \in DOMAIN parties
  BY <1>1, <1>2 DEF Sound, StateTypes, s
<1>4. Fine(parties[g]) /\ MembersSound(s, g)
  BY <1>1, <1>3, SoundIsSoundBut DEF s
<1>5. q \in Members(parties[g])
  BY <1>1, <1>2, <1>4 DEF MembersSound, Roster
<1>6. /\ Fine(x) /\ x.leader = q
      /\ Members(x) = (Members(parties[g]) \ {q}) \cup {p}
      /\ x.inviteList = parties[g].inviteList
  BY <1>2, <1>4, <1>5, LeadershipPassed
<1>7. Roster(x) = Roster(parties[g])
  BY <1>2, <1>5, <1>6 DEF Roster
<1>. HIDE DEF x
<1>8. Sound(t) /\ t.party = s.party /\ t.invited = s.invited
  BY <1>1, <1>2, <1>3, <1>6, <1>7, SameRosterSound DEF s
<1>9. Within(t, players)
  BY <1>8 DEF Within, s
<1>. QED
  BY <1>2, <1>8, <1>9

\* What changes about a party is who has fought and what it shares.
LEMMA SharingSound ==
    ASSUME Sound(State), Within(State, players), NEW g \in DOMAIN parties,
           NEW x \in PartyRecord, x.leader = parties[g].leader,
           x.memberList = parties[g].memberList, x.inviteList = parties[g].inviteList,
           Become([State EXCEPT !.parties[g] = x])
    PROVE  \E t : Sound(t) /\ Within(t, players) /\ Become(t)
<1>. DEFINE s == State
            t == [s EXCEPT !.parties[g] = x]
<1>1. s.parties = parties /\ s.party = party /\ s.invited = invitePartyList
  BY DEF State
<1>. HIDE DEF s
<1>2. Fine(parties[g])
  BY <1>1, SoundIsSoundBut DEF s
<1>3. Fine(x) /\ Roster(x) = Roster(parties[g])
  BY <1>2 DEF Fine, Roster, Members
<1>4. Sound(t) /\ t.party = s.party /\ t.invited = s.invited
  BY <1>1, <1>3, SameRosterSound DEF s
<1>5. Within(t, players)
  BY <1>4 DEF Within, s
<1>. QED
  BY <1>4, <1>5 DEF s

LEMMA PartyNextSound ==
    ASSUME Sound(State), Within(State, players), PartyNext
    PROVE  \E t : Sound(t) /\ Within(t, players) /\ Become(t)
<1>. DEFINE Goal == \E t : Sound(t) /\ Within(t, players) /\ Become(t)
<1>1. /\ State.parties = parties /\ State.party = party /\ State.invited = invitePartyList
      /\ party \in [Player -> {0} \cup DOMAIN parties]
      /\ \A g \in DOMAIN parties : parties[g] \in PartyRecord
  BY PartyInDomain DEF State, Sound, StateTypes
<1>2. ASSUME NEW p \in Player, NEW q \in Player, InviteToParty(p, q) PROVE Goal
  BY <1>2, InviteToPartySound
<1>3. ASSUME NEW p \in Player, NEW q \in Player, JoinParty(p, q) PROVE Goal
  BY <1>3, JoinPartySound
<1>4. ASSUME NEW p \in Player, NEW q \in Player, RevokePartyInvitation(p, q) PROVE Goal
  <2>. DEFINE g == party[p]
              t == Uninvited(State, g, q)
  <2>1. g \in DOMAIN State.parties /\ q \in State.parties[g].inviteList /\ Become(t)
    BY <1>1, <1>4 DEF RevokePartyInvitation, IsInviting, Leads
  <2>2. Sound(t) /\ Shrinks(State, t)
    BY <2>1, UninvitedSound
  <2>. HIDE DEF t
  <2>3. Within(t, players)
    BY <2>2 DEF Within, Shrinks
  <2>. QED
    BY <2>1, <2>2, <2>3
<1>5. ASSUME NEW p \in Player, NEW q \in Player, PassPartyLeadership(p, q) PROVE Goal
  BY <1>5, PassPartyLeadershipSound
<1>6. ASSUME NEW p \in Player, LeaveParty(p) PROVE Goal
  <2>. DEFINE t == Left(State, p)
  <2>1. State.party[p] # 0 /\ Become(t)
    BY <1>1, <1>6 DEF LeaveParty
  <2>2. Sound(t) /\ Shrinks(State, t)
    BY <2>1, LeftSound
  <2>. HIDE DEF t
  <2>3. Within(t, players)
    BY <2>2 DEF Within, Shrinks
  <2>. QED
    BY <2>1, <2>2, <2>3
<1>7. ASSUME NEW p \in Player, UpdatePlayerTicks(p) PROVE Goal
  <2>. DEFINE g == party[p]
              y == [parties[g] EXCEPT !.fought = @ \cup {p}]
              x == Updated(y)
  <2>1. g \in DOMAIN parties /\ parties[g] \in PartyRecord
    BY <1>1, <1>7 DEF UpdatePlayerTicks
  <2>2. Become([State EXCEPT !.parties[g] = x])
    BY <1>1, <1>7 DEF UpdatePlayerTicks
  <2>. HIDE DEF g
  <2>3. /\ y \in PartyRecord /\ y.leader = parties[g].leader
        /\ y.memberList = parties[g].memberList /\ y.inviteList = parties[g].inviteList
    BY <2>1 DEF PartyRecord
  <2>. HIDE DEF y
  <2>4. /\ x \in PartyRecord /\ x.leader = parties[g].leader
        /\ x.memberList = parties[g].memberList /\ x.inviteList = parties[g].inviteList
    BY <2>3, UpdatedKeeps
  <2>. HIDE DEF x
  <2>. QED
    BY <2>1, <2>2, <2>4, SharingSound
<1>8. ASSUME NEW p \in Player, NEW active \in BOOLEAN, EnableSharedExperience(p, active)
      PROVE  Goal
  <2>. DEFINE g == party[p]
              y == [parties[g] EXCEPT !.sharedExpActive = active]
              x == Updated(y)
  <2>1. g \in DOMAIN parties /\ parties[g] \in PartyRecord
    BY <1>1, <1>8 DEF EnableSharedExperience, Leads
  <2>2. Become([State EXCEPT !.parties[g] = x])
    BY <1>1, <1>8 DEF EnableSharedExperience
  <2>. HIDE DEF g
  <2>3. /\ y \in PartyRecord /\ y.leader = parties[g].leader
        /\ y.memberList = parties[g].memberList /\ y.inviteList = parties[g].inviteList
    BY <2>1 DEF PartyRecord
  <2>. HIDE DEF y
  <2>4. /\ x \in PartyRecord /\ x.leader = parties[g].leader
        /\ x.memberList = parties[g].memberList /\ x.inviteList = parties[g].inviteList
    BY <2>3, UpdatedKeeps
  <2>. HIDE DEF x
  <2>. QED
    BY <2>1, <2>2, <2>4, SharingSound
<1>9. ASSUME NEW p \in Player, NEW g \in DOMAIN parties, TicksExpire(p, g) PROVE Goal
  <2>. DEFINE x == [parties[g] EXCEPT !.fought = @ \ {p}]
  <2>1. Become([State EXCEPT !.parties[g] = x])
    BY <1>1, <1>9 DEF TicksExpire
  <2>2. /\ x \in PartyRecord /\ x.leader = parties[g].leader
        /\ x.memberList = parties[g].memberList /\ x.inviteList = parties[g].inviteList
    BY <1>1 DEF PartyRecord
  <2>. HIDE DEF x
  <2>. QED
    BY <2>1, <2>2, SharingSound
<1>10. ASSUME NEW p \in Player, ClearPlayerPoints(p) PROVE Goal
  <2>. DEFINE g == party[p]
              y == [parties[g] EXCEPT !.fought = @ \ {p}]
              x == Updated(y)
  <2>1. g \in DOMAIN parties /\ parties[g] \in PartyRecord
    BY <1>1, <1>10 DEF ClearPlayerPoints
  <2>2. Become([State EXCEPT !.parties[g] = x])
    BY <1>1, <1>10 DEF ClearPlayerPoints
  <2>. HIDE DEF g
  <2>3. /\ y \in PartyRecord /\ y.leader = parties[g].leader
        /\ y.memberList = parties[g].memberList /\ y.inviteList = parties[g].inviteList
    BY <2>1 DEF PartyRecord
  <2>. HIDE DEF y
  <2>4. /\ x \in PartyRecord /\ x.leader = parties[g].leader
        /\ x.memberList = parties[g].memberList /\ x.inviteList = parties[g].inviteList
    BY <2>3, UpdatedKeeps
  <2>. HIDE DEF x
  <2>. QED
    BY <2>1, <2>2, <2>4, SharingSound
<1>11. ASSUME NEW p \in Player, UpdateSharedExperience(p) PROVE Goal
  <2>. DEFINE g == party[p]
              x == Updated(parties[g])
  <2>1. g \in DOMAIN parties /\ parties[g] \in PartyRecord
    BY <1>1, <1>11 DEF UpdateSharedExperience
  <2>2. Become([State EXCEPT !.parties[g] = x])
    BY <1>1, <1>11 DEF UpdateSharedExperience
  <2>. HIDE DEF g
  <2>3. /\ x \in PartyRecord /\ x.leader = parties[g].leader
        /\ x.memberList = parties[g].memberList /\ x.inviteList = parties[g].inviteList
    BY <2>1, UpdatedKeeps
  <2>. HIDE DEF x
  <2>. QED
    BY <2>1, <2>2, <2>3, SharingSound
<1>. QED
  BY <1>2, <1>3, <1>4, <1>5, <1>6, <1>7, <1>8, <1>9, <1>10, <1>11 DEF PartyNext

LEMMA BecomesSound ==
    ASSUME NEW t, Sound(t), Within(t, players'), Become(t), players' \in SUBSET Player
    PROVE  PartyInv'
<1>1. /\ (State').parties = t.parties /\ (State').party = t.party
      /\ (State').invited = t.invited /\ IsState(State')
  BY DEF Become, State, IsState
<1>. HIDE DEF State
<1>2. StateTypes(State')
  BY <1>1 DEF Sound, StateTypes
<1>3. \A g \in DOMAIN t.parties : PartySound(State', g)
  BY <1>1 DEF Sound, PartySound, MembersSound, InvitesSound
<1>4. Sound(State') /\ Within(State', players')
  BY <1>1, <1>2, <1>3 DEF Sound, Within
<1>. QED
  BY <1>4 DEF PartyInv

LEMMA PartyStepSound == PartyInv /\ [Next]_vars => PartyInv'
<1>. SUFFICES ASSUME PartyInv, [Next]_vars PROVE PartyInv'
  OBVIOUS
<1>1. players \in SUBSET Player /\ Sound(State) /\ Within(State, players)
  BY DEF PartyInv
<1>2. ASSUME UNCHANGED partyVars, players' \in SUBSET Player, players \subseteq players'
      PROVE  PartyInv'
  <2>1. Become(State)
    BY <1>2 DEF Become, State, partyVars
  <2>2. Within(State, players')
    BY <1>1, <1>2 DEF Within
  <2>. QED
    BY <1>1, <1>2, <2>1, <2>2, BecomesSound
<1>3. CASE GuildStep \/ ChatStep \/ UNCHANGED vars
  BY <1>1, <1>2, <1>3 DEF GuildStep, ChatStep, vars
<1>4. CASE PartyStep
  <2>1. PICK t : Sound(t) /\ Within(t, players) /\ Become(t)
    BY <1>1, <1>4, PartyNextSound DEF PartyStep
  <2>2. players' = players
    BY <1>4 DEF PartyStep
  <2>. QED
    BY <1>1, <2>1, <2>2, BecomesSound
<1>5. ASSUME NEW p \in Player, Login(p) PROVE PartyInv'
  <2>1. players' = players \cup {p} /\ UNCHANGED partyVars
    BY <1>5 DEF Login
  <2>. QED
    BY <1>1, <1>2, <2>1
<1>6. ASSUME NEW p \in Player, Logout(p) PROVE PartyInv'
  <2>. DEFINE u == OutOfParties(State, p)
              t == Forgotten(u, p)
  <2>1. players' = players \ {p} /\ Become(t)
    BY <1>6 DEF Logout
  <2>2. Sound(t) /\ Shrinks(State, t) /\ t.party[p] = 0 /\ t.invited[p] = {}
    <3>1. Sound(u) /\ Shrinks(State, u) /\ u.party[p] = 0 /\ u.invited[p] = {}
      BY <1>1, OutOfPartiesSound
    <3>. HIDE DEF u
    <3>2. Sound(t) /\ t.party = u.party /\ t.invited = u.invited
      BY <3>1, ForgottenSound
    <3>. QED
      BY <3>1, <3>2 DEF Shrinks
  <2>. HIDE DEF t
  <2>3. Within(t, players')
    BY <1>1, <2>1, <2>2 DEF Within, Shrinks
  <2>. QED
    BY <1>1, <2>1, <2>2, <2>3, BecomesSound
<1>. QED
  BY <1>3, <1>4, <1>5, <1>6 DEF Next

LEMMA SoundPartiesAgree == PartyInv => PartiesAgree
<1>. SUFFICES ASSUME PartyInv PROVE PartiesAgree
  OBVIOUS
<1>1. /\ State.parties = parties /\ State.party = party /\ State.invited = invitePartyList
  BY DEF State
<1>2. /\ party \in [Player -> {0} \cup DOMAIN parties] /\ Within(State, players)
      /\ StateTypes(State)
  BY <1>1 DEF PartyInv, Sound, StateTypes
<1>3. ASSUME NEW g \in DOMAIN parties
      PROVE  MembersSound(State, g) /\ InvitesSound(State, g) /\ g # 0
             /\ Members(parties[g]) \subseteq Player
             /\ parties[g].inviteList \subseteq Player
  BY <1>1, <1>2, PartyInDomain DEF PartyInv, Sound, PartySound
<1>4. MembersAgree
  <2>1. ASSUME NEW p \in Player, party[p] # 0
        PROVE  p \in players /\ p \in Roster(parties[party[p]])
    <3>1. party[p] \in DOMAIN parties
      BY <1>2, <2>1
    <3>2. p \in Roster(parties[party[p]])
      BY <1>1, <1>3, <3>1 DEF MembersSound
    <3>. QED
      BY <1>1, <1>2, <2>1, <3>2 DEF Within
  <2>2. ASSUME NEW g \in DOMAIN parties
        PROVE  /\ \A p \in Members(parties[g]) : party[p] = g
               /\ IsInjective(parties[g].memberList)
               /\ parties[g].leader \notin Members(parties[g])
               /\ \A p \in Player : party[p] = g => party[parties[g].leader] = g
    BY <1>1, <1>3 DEF MembersSound
  <2>. QED
    BY <2>1, <2>2 DEF MembersAgree
<1>5. ASSUME NEW g \in DOMAIN parties
      PROVE  /\ parties[g].inviteList = {p \in Player : g \in invitePartyList[p]}
             /\ parties[g].inviteList # {} => Leads(parties[g].leader)
             /\ parties[g].inviteList \subseteq players
  <2>1. /\ parties[g].inviteList = {p \in Player : g \in invitePartyList[p]}
        /\ parties[g].inviteList # {} => party[parties[g].leader] = g
    BY <1>1, <1>3 DEF InvitesSound
  <2>2. parties[g].inviteList # {} => Leads(parties[g].leader)
    BY <1>3, <2>1 DEF Leads
  <2>3. parties[g].inviteList \subseteq players
    BY <1>1, <1>2, <2>1 DEF Within
  <2>. QED
    BY <2>1, <2>2, <2>3
<1>. QED
  BY <1>4, <1>5 DEF PartiesAgree, InvitationsAgree

LEMMA PartiesSoundAlways == Spec => []PartyInv
<1>1. Init => PartyInv
  <2>. SUFFICES ASSUME Init PROVE PartyInv
    OBVIOUS
  <2>1. /\ players = {} /\ parties = <<>> /\ party = [p \in Player |-> 0]
        /\ invitePartyList = [p \in Player |-> {}]
    BY DEF Init, PartyInit
  <2>2. parties \in Seq(PartyRecord) /\ DOMAIN parties = {}
    BY <2>1, EmptySeq
  <2>3. /\ State.parties = parties /\ State.party = party /\ State.invited = invitePartyList
        /\ IsState(State)
    BY DEF State, IsState
  <2>. QED
    BY <2>1, <2>2, <2>3 DEF PartyInv, Sound, StateTypes, Within
<1>2. PartyInv /\ [Next]_vars => PartyInv'
  BY PartyStepSound
<1>. QED
  BY <1>1, <1>2, PTL DEF Spec

\* However players invite, join, lead, leave and log out, parties and players
\* agree on who is in and who is invited (src/src/party.cpp, Player::onRemoveCreature).
THEOREM PartiesStayTogether == Spec => []PartiesAgree
BY PartiesSoundAlways, SoundPartiesAgree, PTL

-----------------------------------------------------------------------------
(* Whether a party shares.  Every operation makes of a party a disbanded    *)
(* one, one that was looked at again (Updated), or one with the players and *)
(* the flags it had.                                                        *)

\* r has the fields of a party, whatever its lists are.
IsParty(r) ==
    r \in [leader : {r.leader}, memberList : {r.memberList}, inviteList : {r.inviteList},
           sharedExpActive : BOOLEAN, sharedExpEnabled : BOOLEAN, fought : {r.fought}]

Earned(r) == Shares(r) => SharedExperienceOk(r)

Unchanged(r, x) == Shares(x) => Shares(r) /\ Roster(x) = Roster(r)

Granted(r, x) == Earned(x) \/ Unchanged(r, x)

\* The body of SharingIsEarned, for the parties ps and then qs.
AllGranted(ps, qs) ==
    \A g \in DOMAIN qs :
        Shares(qs[g]) =>
            \/ SharedExperienceOk(qs[g])
            \/ /\ g \in DOMAIN ps
               /\ Shares(ps[g])
               /\ Roster(qs[g]) = Roster(ps[g])

LEMMA UpdatedEarns ==
    ASSUME NEW r, IsParty(r)
    PROVE  IsParty(Updated(r)) /\ Earned(Updated(r))
<1>. DEFINE x == [r EXCEPT !.sharedExpEnabled = SharedExperienceOk(r)]
<1>1. SharedExperienceOk(r) \in BOOLEAN
  BY DEF SharedExperienceOk
<1>2. CASE r.sharedExpActive
  <2>1. Updated(r) = x
    BY <1>2 DEF Updated
  <2>2. /\ IsParty(x) /\ x.leader = r.leader /\ x.memberList = r.memberList
        /\ x.fought = r.fought /\ x.sharedExpEnabled = SharedExperienceOk(r)
    BY <1>1 DEF IsParty
  <2>. HIDE DEF x
  <2>3. Members(x) = Members(r) /\ Roster(x) = Roster(r)
    BY <2>2 DEF Members, Roster
  <2>4. SharedExperienceOk(x) <=> SharedExperienceOk(r)
    BY <2>2, <2>3 DEF SharedExperienceOk
  <2>. QED
    BY <2>1, <2>2, <2>4 DEF Earned, Shares
<1>3. CASE ~r.sharedExpActive
  BY <1>3 DEF Updated, Earned, Shares
<1>. QED
  BY <1>2, <1>3

LEMMA PartyRecordIsParty ==
    ASSUME NEW r \in PartyRecord, NEW list, NEW leader, NEW invited, NEW active \in BOOLEAN, NEW fought
    PROVE  /\ IsParty(r)
           /\ IsParty([r EXCEPT !.memberList = list])
           /\ IsParty([r EXCEPT !.leader = leader, !.memberList = list])
           /\ IsParty([r EXCEPT !.inviteList = invited, !.memberList = list])
           /\ IsParty([r EXCEPT !.sharedExpActive = active])
           /\ IsParty([r EXCEPT !.fought = fought])
BY DEF PartyRecord, IsParty

LEMMA OneGranted ==
    ASSUME NEW ps \in Seq(PartyRecord), NEW g \in DOMAIN ps, NEW x, Granted(ps[g], x),
           NEW qs, qs = [ps EXCEPT ![g] = x]
    PROVE  AllGranted(ps, qs)
<1>1. /\ DOMAIN qs = DOMAIN ps /\ qs[g] = x
      /\ \A h \in DOMAIN ps \ {g} : qs[h] = ps[h]
  OBVIOUS
<1>. QED
  BY <1>1 DEF AllGranted, Granted, Earned, Unchanged

LEMMA LeftGrants ==
    ASSUME NEW s, Sound(s), NEW p \in Player, s.party[p] # 0
    PROVE  AllGranted(s.parties, Left(s, p).parties) /\ DOMAIN Left(s, p).parties = DOMAIN s.parties
<1>. DEFINE g       == s.party[p]
            r       == s.parties[g]
            missing == MissingLeader(r, p)
            passed  == [r EXCEPT !.leader = Head(r.memberList),
                                 !.memberList = <<r.leader>> \o RemoveFirst(@, Head(r.memberList))]
            led     == IF r.leader = p /\ ~missing THEN PassLeadership(r, Head(r.memberList))
                                                   ELSE r
            x       == [led EXCEPT !.memberList = RemoveFirst(@, p)]
            left    == Updated(x)
            t       == [s EXCEPT !.parties[g] = left, !.party[p] = 0]
<1>1. /\ g \in DOMAIN s.parties /\ IsState(s) /\ s.parties \in Seq(PartyRecord)
      /\ r \in PartyRecord
  BY PartyInDomain DEF Sound, StateTypes
<1>2. IsParty(led)
  <2>1. IsParty(passed) /\ IsParty(r)
    BY <1>1, PartyRecordIsParty
  <2>2. PassLeadership(r, Head(r.memberList)) = Updated(passed)
    BY DEF PassLeadership
  <2>. HIDE DEF passed
  <2>. QED
    BY <2>1, <2>2, UpdatedEarns
<1>. HIDE DEF led
<1>3. IsParty(x)
  BY <1>2 DEF IsParty
<1>. HIDE DEF x
<1>4. Earned(left)
  BY <1>3, UpdatedEarns
<1>. HIDE DEF left
<1>5. t.parties = [s.parties EXCEPT ![g] = left]
  BY <1>1 DEF IsState
<1>6. Earned(Disbanded)
  BY DEF Disbanded, Earned, Shares
<1>7. \/ Left(s, p) = t
      \/ Left(s, p) = Disband(t, g)
  BY DEF Left, DisbandIfEmpty, left, x, led, missing
<1>8. Disband(t, g).parties = [t.parties EXCEPT ![g] = Disbanded]
  BY DEF Disband
<1>. HIDE DEF t
<1>9. PICK y \in {left, Disbanded} : Left(s, p).parties = [s.parties EXCEPT ![g] = y]
  <2>1. [t.parties EXCEPT ![g] = Disbanded] = [s.parties EXCEPT ![g] = Disbanded]
    BY <1>1, <1>5
  <2>. QED
    BY <1>5, <1>7, <1>8, <2>1
<1>10. Granted(r, y)
  BY <1>4, <1>6, <1>9 DEF Granted
<1>. HIDE DEF r, g
<1>11. AllGranted(s.parties, Left(s, p).parties)
  BY <1>1, <1>9, <1>10, OneGranted DEF r
<1>. QED
  BY <1>9, <1>11

\* Whoever leaves the game leaves its party as leaveParty does, and the others as
\* they were or disbanded.
LEMMA OutOfPartiesGrants ==
    ASSUME NEW s, Sound(s), NEW p \in Player
    PROVE  AllGranted(s.parties, Forgotten(OutOfParties(s, p), p).parties)
<1>. DEFINE c == Cleared(s, p)
            u == OutOfParties(s, p)
            t == Forgotten(u, p)
<1>1. /\ Sound(c) /\ DOMAIN c.parties = DOMAIN s.parties
      /\ \A g \in DOMAIN s.parties :
            c.parties[g] \in {Disbanded, Without(s.parties[g], p), s.parties[g]}
  BY ClearedSound
<1>2. ASSUME NEW g \in DOMAIN s.parties PROVE Unchanged(s.parties[g], c.parties[g])
  <2>1. s.parties[g] \in PartyRecord
    BY PartyInDomain DEF Sound
  <2>2. ~Shares(Disbanded)
    BY DEF Disbanded, Shares
  <2>3. Unchanged(s.parties[g], Without(s.parties[g], p))
    BY <2>1 DEF Without, Unchanged, Shares, Roster, Members, PartyRecord
  <2>. QED
    BY <1>1, <2>2, <2>3 DEF Unchanged
<1>3. Sound(u) /\ u.party[p] = 0
  BY OutOfPartiesSound
<1>. HIDE DEF c
<1>4. AllGranted(c.parties, u.parties) /\ DOMAIN u.parties = DOMAIN c.parties
  <2>1. CASE c.party[p] # 0
    <3>1. u = Left(c, p)
      BY <2>1 DEF OutOfParties, c
    <3>. QED
      BY <1>1, <2>1, <3>1, LeftGrants
  <2>2. CASE c.party[p] = 0
    <3>1. u = c
      BY <2>2 DEF OutOfParties, c
    <3>. QED
      BY <3>1 DEF AllGranted
  <2>. QED
    BY <2>1, <2>2
<1>. HIDE DEF u
<1>5. /\ DOMAIN t.parties = DOMAIN u.parties
      /\ \A g \in DOMAIN u.parties : t.parties[g] = [u.parties[g] EXCEPT !.fought = @ \ {p}]
  BY <1>3, ForgottenSound
<1>. HIDE DEF t
<1>6. SUFFICES ASSUME NEW g \in DOMAIN t.parties, Shares(t.parties[g])
               PROVE  \/ SharedExperienceOk(t.parties[g])
                      \/ /\ g \in DOMAIN s.parties
                         /\ Shares(s.parties[g])
                         /\ Roster(t.parties[g]) = Roster(s.parties[g])
  BY DEF AllGranted, t, u
<1>. DEFINE y == u.parties[g]
            z == t.parties[g]
<1>7. /\ g \in DOMAIN s.parties /\ g \in DOMAIN c.parties /\ g \in DOMAIN u.parties
      /\ y \in PartyRecord /\ g # 0
      /\ z = [y EXCEPT !.fought = @ \ {p}]
  BY <1>1, <1>3, <1>4, <1>5, <1>6, PartyInDomain DEF Sound
<1>8. /\ z.leader = y.leader /\ z.memberList = y.memberList /\ z.fought = y.fought \ {p}
      /\ z.sharedExpActive = y.sharedExpActive /\ z.sharedExpEnabled = y.sharedExpEnabled
  BY <1>7 DEF PartyRecord
<1>9. Shares(y) /\ Roster(z) = Roster(y) /\ Members(z) = Members(y)
  BY <1>6, <1>8 DEF Shares, Roster, Members
<1>10. CASE SharedExperienceOk(y)
  <2>1. y.memberList # <<>> /\ Roster(y) \subseteq y.fought
    BY <1>10 DEF SharedExperienceOk
  <2>2. p \notin Roster(y)
    <3>1. /\ MembersSound(u, g) /\ y.memberList \in Seq(Player) /\ Members(y) \subseteq Player
      BY <1>3, <1>7, PartyInDomain DEF Sound, PartySound
    <3>2. PICK q \in Members(y) : TRUE
      BY <2>1, <3>1, DistinctIsInjective DEF Members
    <3>3. u.party[q] = g /\ u.party[y.leader] = g
      BY <3>1, <3>2 DEF MembersSound
    <3>. QED
      BY <1>3, <1>7, <3>1, <3>3 DEF MembersSound, Roster
  <2>3. Roster(z) \subseteq z.fought
    BY <1>8, <1>9, <2>1, <2>2
  <2>. QED
    BY <1>8, <2>1, <2>3 DEF SharedExperienceOk
<1>11. CASE ~SharedExperienceOk(y)
  <2>1. Shares(c.parties[g]) /\ Roster(y) = Roster(c.parties[g])
    BY <1>4, <1>7, <1>9, <1>11 DEF AllGranted
  <2>2. Shares(s.parties[g]) /\ Roster(c.parties[g]) = Roster(s.parties[g])
    BY <1>2, <1>7, <2>1 DEF Unchanged
  <2>. QED
    BY <1>7, <1>9, <2>1, <2>2
<1>. QED
  BY <1>10, <1>11

\* The invitation alone, with the party made for it.
LEMMA InviteGrants ==
    ASSUME PartyInv, NEW p \in Player, NEW q \in Player, InviteToParty(p, q)
    PROVE  AllGranted(parties, parties')
<1>. DEFINE s == PartyForInvite(p)
            g == s.party[p]
            n == Len(parties)
<1>1. /\ State.parties = parties /\ State.party = party /\ IsState(State)
      /\ parties \in Seq(PartyRecord) /\ Sound(State) /\ n \in Nat /\ DOMAIN parties = 1..n
  BY LenProperties DEF State, IsState, PartyInv, Sound, StateTypes
<1>2. /\ IsState(s) /\ s.parties \in Seq(PartyRecord)
      /\ g \in DOMAIN s.parties
      /\ \A h \in DOMAIN s.parties :
            Shares(s.parties[h]) => h \in DOMAIN parties /\ s.parties[h] = parties[h]
  <2>1. CASE party[p] # 0
    BY <1>1, <2>1 DEF PartyForInvite, Sound, StateTypes
  <2>2. CASE party[p] = 0
    <3>. DEFINE new == [State EXCEPT !.parties = Append(@, NewParty(p)), !.party[p] = Len(parties) + 1]
    <3>1. s = new
      BY <2>2 DEF PartyForInvite
    <3>2. IsState(new) /\ new.parties = Append(parties, NewParty(p)) /\ new.party[p] = n + 1
      BY <1>1 DEF IsState, Sound, StateTypes
    <3>3. NewParty(p) \in PartyRecord /\ ~Shares(NewParty(p))
      BY DisbandedParty DEF NewParty, PartyRecord, Disbanded, Shares
    <3>. HIDE DEF s, new
    <3>4. /\ new.parties \in Seq(PartyRecord) /\ Len(new.parties) = n + 1
          /\ new.parties[n + 1] = NewParty(p) /\ \A h \in 1..n : new.parties[h] = parties[h]
      BY <1>1, <3>2, <3>3, AppendProperties
    <3>5. DOMAIN new.parties = 1..(n + 1)
      BY <3>4, LenProperties
    <3>. QED
      BY <1>1, <3>1, <3>2, <3>3, <3>4, <3>5
  <2>. QED
    BY <2>1, <2>2
<1>3. \/ parties' = s.parties
      \/ parties' = [s.parties EXCEPT ![g].inviteList = @ \cup {q}]
  <2>1. \/ parties' = Invited(s, g, q).parties
        \/ parties' = [s EXCEPT !.party[p] = 0].parties
    BY DEF InviteToParty, Become
  <2>. HIDE DEF s
  <2>. QED
    BY <1>2, <2>1 DEF Invited, IsState
<1>. HIDE DEF s
<1>4. CASE parties' = s.parties
  BY <1>2, <1>4 DEF AllGranted
<1>5. CASE parties' = [s.parties EXCEPT ![g].inviteList = @ \cup {q}]
  <2>. DEFINE r == s.parties[g]
              x == [r EXCEPT !.inviteList = @ \cup {q}]
  <2>1. r \in PartyRecord
    BY <1>2, ElementOfSeq, LenProperties
  <2>2. Unchanged(r, x)
    BY <2>1 DEF Unchanged, Shares, Roster, Members, PartyRecord
  <2>3. /\ DOMAIN parties' = DOMAIN s.parties /\ parties'[g] = x
        /\ \A h \in DOMAIN s.parties \ {g} : parties'[h] = s.parties[h]
    BY <1>2, <1>5
  <2>. HIDE DEF x
  <2>. QED
    BY <1>2, <2>2, <2>3 DEF AllGranted, Unchanged
<1>. QED
  BY <1>3, <1>4, <1>5

LEMMA PartyNextGrants ==
    ASSUME PartyInv, PartyNext
    PROVE  AllGranted(parties, parties')
<1>1. /\ State.parties = parties /\ State.party = party /\ State.invited = invitePartyList
      /\ IsState(State) /\ Sound(State)
      /\ parties \in Seq(PartyRecord)
      /\ party \in [Player -> {0} \cup DOMAIN parties]
      /\ \A g \in DOMAIN parties : parties[g] \in PartyRecord
  BY PartyInDomain DEF State, IsState, PartyInv, Sound, StateTypes
<1>2. ASSUME NEW g \in DOMAIN parties, NEW x, Become([State EXCEPT !.parties[g] = x])
      PROVE  parties' = [parties EXCEPT ![g] = x]
  BY <1>1, <1>2 DEF Become, IsState
<1>3. ASSUME NEW p \in Player, NEW q \in Player, InviteToParty(p, q)
      PROVE  AllGranted(parties, parties')
  BY <1>3, InviteGrants
<1>4. ASSUME NEW p \in Player, NEW q \in Player, JoinParty(p, q)
      PROVE  AllGranted(parties, parties')
  <2>. DEFINE g == party[q]
              r == parties[g]
              y == [r EXCEPT !.inviteList = @ \ {p}, !.memberList = Append(@, p)]
  <2>1. g \in DOMAIN parties /\ parties' = [parties EXCEPT ![g] = Joined(parties[g], p)]
    BY <1>1, <1>4 DEF JoinParty, IsInviting, Leads, Become
  <2>2. Joined(r, p) = Updated(y)
    BY DEF Joined
  <2>3. IsParty(y)
    BY <1>1, <2>1, PartyRecordIsParty
  <2>. HIDE DEF y
  <2>4. Granted(r, Joined(r, p))
    BY <2>2, <2>3, UpdatedEarns DEF Granted
  <2>. QED
    BY <1>1, <2>1, <2>4, OneGranted
<1>5. ASSUME NEW p \in Player, NEW q \in Player, RevokePartyInvitation(p, q)
      PROVE  AllGranted(parties, parties')
  <2>. DEFINE g == party[p]
              r == parties[g]
              x == Without(r, q)
              t == [State EXCEPT !.parties[g] = Without(@, q), !.invited[q] = @ \ {g}]
  <2>1. g \in DOMAIN parties /\ parties' = Uninvited(State, g, q).parties
    BY <1>1, <1>5 DEF RevokePartyInvitation, IsInviting, Leads, Become
  <2>2. t.parties = [parties EXCEPT ![g] = x]
    BY <1>1 DEF IsState
  <2>3. parties' = t.parties \/ parties' = [t.parties EXCEPT ![g] = Disbanded]
    BY <2>1 DEF Uninvited, DisbandIfEmpty, Disband
  <2>. HIDE DEF t
  <2>4. [t.parties EXCEPT ![g] = Disbanded] = [parties EXCEPT ![g] = Disbanded]
    BY <1>1, <2>1, <2>2
  <2>5. Granted(r, x) /\ Granted(r, Disbanded)
    BY <1>1, <2>1 DEF Granted, Earned, Unchanged, Shares, Disbanded, Without, Roster, Members, PartyRecord
  <2>6. PICK y \in {x, Disbanded} : parties' = [parties EXCEPT ![g] = y]
    BY <2>2, <2>3, <2>4
  <2>7. Granted(parties[g], y)
    BY <2>5, <2>6
  <2>. HIDE DEF x, g
  <2>. QED
    BY <1>1, <2>1, <2>6, <2>7, OneGranted
<1>6. ASSUME NEW p \in Player, NEW q \in Player, PassPartyLeadership(p, q)
      PROVE  AllGranted(parties, parties')
  <2>. DEFINE g == party[p]
              r == parties[g]
              y == [r EXCEPT !.leader = q, !.memberList = <<r.leader>> \o RemoveFirst(@, q)]
  <2>1. g \in DOMAIN parties /\ Become([State EXCEPT !.parties[g] = PassLeadership(r, q)])
    BY <1>1, <1>6 DEF PassPartyLeadership, Leads
  <2>2. parties' = [parties EXCEPT ![g] = PassLeadership(r, q)]
    BY <1>2, <2>1
  <2>3. PassLeadership(r, q) = Updated(y)
    BY DEF PassLeadership
  <2>4. IsParty(y)
    BY <1>1, <2>1, PartyRecordIsParty
  <2>. HIDE DEF y
  <2>5. Granted(r, PassLeadership(r, q))
    BY <2>3, <2>4, UpdatedEarns DEF Granted
  <2>. QED
    BY <1>1, <2>1, <2>2, <2>5, OneGranted
<1>7. ASSUME NEW p \in Player, LeaveParty(p) PROVE AllGranted(parties, parties')
  <2>1. party[p] # 0 /\ parties' = Left(State, p).parties
    BY <1>7 DEF LeaveParty, Become
  <2>. QED
    BY <1>1, <2>1, LeftGrants
<1>8. ASSUME NEW g \in DOMAIN parties, NEW y, IsParty(y),
             Become([State EXCEPT !.parties[g] = Updated(y)])
      PROVE  AllGranted(parties, parties')
  <2>1. parties' = [parties EXCEPT ![g] = Updated(y)]
    BY <1>2, <1>8
  <2>2. Granted(parties[g], Updated(y))
    BY <1>8, UpdatedEarns DEF Granted
  <2>. QED
    BY <1>1, <2>1, <2>2, OneGranted
<1>9. ASSUME NEW p \in Player, UpdatePlayerTicks(p) PROVE AllGranted(parties, parties')
  <2>. DEFINE g == party[p]
              y == [parties[g] EXCEPT !.fought = @ \cup {p}]
  <2>1. g \in DOMAIN parties /\ Become([State EXCEPT !.parties[g] = Updated(y)])
    BY <1>1, <1>9 DEF UpdatePlayerTicks
  <2>2. IsParty(y)
    BY <1>1, <2>1, PartyRecordIsParty
  <2>. HIDE DEF y, g
  <2>. QED
    BY <1>8, <2>1, <2>2
<1>10. ASSUME NEW p \in Player, ClearPlayerPoints(p) PROVE AllGranted(parties, parties')
  <2>. DEFINE g == party[p]
              y == [parties[g] EXCEPT !.fought = @ \ {p}]
  <2>1. g \in DOMAIN parties /\ Become([State EXCEPT !.parties[g] = Updated(y)])
    BY <1>1, <1>10 DEF ClearPlayerPoints
  <2>2. IsParty(y)
    BY <1>1, <2>1, PartyRecordIsParty
  <2>. HIDE DEF y, g
  <2>. QED
    BY <1>8, <2>1, <2>2
<1>11. ASSUME NEW p \in Player, UpdateSharedExperience(p) PROVE AllGranted(parties, parties')
  <2>. DEFINE g == party[p]
              y == parties[g]
  <2>1. g \in DOMAIN parties /\ Become([State EXCEPT !.parties[g] = Updated(y)])
    BY <1>1, <1>11 DEF UpdateSharedExperience
  <2>2. IsParty(y)
    BY <1>1, <2>1, PartyRecordIsParty
  <2>. HIDE DEF y, g
  <2>. QED
    BY <1>8, <2>1, <2>2
<1>12. ASSUME NEW p \in Player, NEW active \in BOOLEAN, EnableSharedExperience(p, active)
       PROVE  AllGranted(parties, parties')
  <2>. DEFINE g == party[p]
              y == [parties[g] EXCEPT !.sharedExpActive = active]
  <2>1. g \in DOMAIN parties /\ Become([State EXCEPT !.parties[g] = Updated(y)])
    BY <1>1, <1>12 DEF EnableSharedExperience, Leads
  <2>2. IsParty(y)
    BY <1>1, <2>1, PartyRecordIsParty
  <2>. HIDE DEF y, g
  <2>. QED
    BY <1>8, <2>1, <2>2
<1>13. ASSUME NEW p \in Player, NEW g \in DOMAIN parties, TicksExpire(p, g)
       PROVE  AllGranted(parties, parties')
  <2>. DEFINE x == [parties[g] EXCEPT !.fought = @ \ {p}]
  <2>1. parties' = [parties EXCEPT ![g] = x]
    BY <1>1, <1>2, <1>13 DEF TicksExpire
  <2>2. Granted(parties[g], x)
    BY <1>1 DEF Granted, Unchanged, Shares, Roster, Members, PartyRecord
  <2>. HIDE DEF x
  <2>. QED
    BY <1>1, <2>1, <2>2, OneGranted
<1>. QED
  BY <1>3, <1>4, <1>5, <1>6, <1>7, <1>9, <1>10, <1>11, <1>12, <1>13 DEF PartyNext

LEMMA StepGrants == PartyInv /\ [Next]_vars => [AllGranted(parties, parties')]_partyVars
<1>. SUFFICES ASSUME PartyInv, [Next]_vars PROVE [AllGranted(parties, parties')]_partyVars
  OBVIOUS
<1>1. CASE GuildStep \/ ChatStep \/ UNCHANGED vars \/ \E p \in Player : Login(p)
  BY <1>1 DEF GuildStep, ChatStep, Login, vars, partyVars
<1>2. CASE PartyStep
  BY <1>2, PartyNextGrants DEF PartyStep
<1>3. ASSUME NEW p \in Player, Logout(p) PROVE AllGranted(parties, parties')
  <2>1. parties' = Forgotten(OutOfParties(State, p), p).parties
    BY <1>3 DEF Logout, Become
  <2>2. State.parties = parties /\ Sound(State)
    BY DEF State, PartyInv
  <2>. HIDE DEF State
  <2>. QED
    BY <2>1, <2>2, OutOfPartiesGrants
<1>. QED
  BY <1>1, <1>2, <1>3 DEF Next

\* A party shares experience only once each of its players has fought, and goes on
\* with other players only if they have too: joinParty, leaveParty and
\* passPartyLeadership all look again, in whatever chain a logout calls them.
THEOREM SharingWasEarned == Spec => SharingIsEarned
<1>1. PartyInv /\ [Next]_vars => [AllGranted(parties, parties')]_partyVars
  BY StepGrants
<1>2. Spec => []PartyInv
  BY PartiesSoundAlways
<1>3. [AllGranted(parties, parties')]_partyVars =>
        [\A g \in DOMAIN parties' :
            Shares(parties'[g]) =>
                \/ SharedExperienceOk(parties'[g])
                \/ /\ g \in DOMAIN parties
                   /\ Shares(parties[g])
                   /\ Roster(parties'[g]) = Roster(parties[g])]_partyVars
  BY DEF AllGranted
<1>. QED
  BY <1>1, <1>2, <1>3, PTL DEF Spec, SharingIsEarned

=============================================================================

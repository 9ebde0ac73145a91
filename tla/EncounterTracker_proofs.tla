------------------------ MODULE EncounterTracker_proofs ------------------------
(***************************************************************************)
(* A version of the encounter's row names one state of it, every list is   *)
(* well formed, and no write of a tracker loses the turn, for any number of*)
(* trackers and combatants.  Sorting is shown to be a permutation in order;*)
(* then a write whose version is the row's was computed from the row, and  *)
(* each operation is sound for the row it was computed from.               *)
(***************************************************************************)
EXTENDS EncounterTracker, FiniteSetTheorems, TLAPS

\* What somebody holds is the past, or it is the row.
Seen(r) ==
    /\ r.version \in Nat /\ r.version <= row.version
    /\ r.version = row.version => r = row

\* The inductive invariant: VersionNamesRow alone would allow a view from
\* the future, which the next write could meet.
VersionInv ==
    /\ row.version \in Nat
    /\ view = [i \in Trackers |-> view[i]]
    /\ calls = [i \in Trackers |-> calls[i]]
    /\ \A i \in Trackers : Seen(view[i])
    /\ \A i \in Trackers : \A c \in calls[i] : c.stage = "answered" => Seen(c.answer)

LEMMA InitVersion == Init => VersionInv
<1> SUFFICES ASSUME Init PROVE VersionInv
  OBVIOUS
<1>1. PICK list \in Created : row = Row(list, 0, 1, 0)
  BY DEF Init
<1>2. row.version = 0
  BY <1>1 DEF Row
<1>3. view = [i \in Trackers |-> row] /\ calls = [i \in Trackers |-> {}]
  BY DEF Init
<1>4. QED
  BY <1>2, <1>3 DEF VersionInv, Seen

\* The steps that leave the row alone hand out what was seen, or the row.
\* (HandsOut is an action: view' and calls' hold only what was seen before.)
HandsOut ==
    /\ view' = [i \in Trackers |-> view'[i]] /\ calls' = [i \in Trackers |-> calls'[i]]
    /\ \A i \in Trackers : Seen(view'[i])
    /\ \A i \in Trackers : \A c \in calls'[i] : c.stage = "answered" => Seen(c.answer)

LEMMA NobodyWrites == ASSUME VersionInv, row' = row, HandsOut PROVE VersionInv'
<1>1. \A s : Seen(s) => s.version \in Nat /\ s.version <= row'.version
                          /\ (s.version = row'.version => s = row')
  BY DEF Seen
<1>2. QED
  BY <1>1 DEF VersionInv, HandsOut, Seen

\* A write makes everything that was seen the past.
LEMMA SomebodyWrites ==
    ASSUME VersionInv, row'.version = row.version + 1, view' = view,
           \/ calls' = calls
           \/ \E i \in Trackers : \E cs \in SUBSET calls[i] : \E w :
                calls' = [calls EXCEPT ![i] = cs \cup {Stage(w, "written", None)}]
    PROVE  VersionInv'
<1>1. row.version \in Nat /\ row'.version \in Nat
  BY DEF VersionInv
<1>2. \A s : Seen(s) => s.version \in Nat /\ s.version <= row'.version
                          /\ s.version # row'.version
  BY <1>1 DEF Seen
<1>3. \A j \in Trackers : Seen(view'[j])
  BY DEF VersionInv
<1>4. \A w : Stage(w, "written", None).stage # "answered"
  BY DEF Stage
<1>5. \A j \in Trackers : \A c \in calls'[j] : c.stage = "answered" => Seen(c.answer)
  BY <1>4 DEF VersionInv
<1>6. view' = [j \in Trackers |-> view'[j]] /\ calls' = [j \in Trackers |-> calls'[j]]
  BY DEF VersionInv
<1>7. QED
  BY <1>1, <1>2, <1>3, <1>5, <1>6 DEF VersionInv, Seen

LEMMA VersionStep == VersionInv /\ [Next]_vars => VersionInv'
<1> SUFFICES ASSUME VersionInv, [Next]_vars PROVE VersionInv'
  OBVIOUS
<1>1. Seen(row)
  BY DEF VersionInv, Seen
<1>2. CASE UNCHANGED vars
  BY <1>2 DEF vars, VersionInv, Seen
<1>3. ASSUME NEW i \in Trackers, Submit(i) PROVE VersionInv'
  <2>1. PICK w : calls' = [calls EXCEPT ![i] = {Stage(w, "sent", None)}]
                 \/ calls' = [calls EXCEPT ![i] = calls[i] \cup {Stage(w, "sent", None)}]
    BY <1>3 DEF Submit, VersionInv
  <2>2. Stage(w, "sent", None).stage # "answered"
    BY DEF Stage
  <2>3. row' = row /\ view' = view
    BY <1>3 DEF Submit
  <2>4. \A c \in calls[i] : c.stage = "answered" => Seen(c.answer)
    BY DEF VersionInv
  <2>5. HandsOut
    BY <2>1, <2>2, <2>3, <2>4 DEF HandsOut, VersionInv
  <2>6. QED
    BY <2>3, <2>5, NobodyWrites
<1>4. ASSUME NEW i \in Trackers, Refetch(i) PROVE VersionInv'
  <2>1. HandsOut
    BY <1>1, <1>4 DEF Refetch, HandsOut, VersionInv
  <2>2. QED
    BY <1>4, <2>1, NobodyWrites DEF Refetch
<1>5. ASSUME NEW i \in Trackers, NEW c \in calls[i],
             ReRead(i, c) \/ Conflict(i, c) \/ Fail(i, c) \/ Land(i, c)
      PROVE  VersionInv'
  <2>1. \A d \in calls[i] : d.stage = "answered" => Seen(d.answer)
    BY DEF VersionInv
  <2>2. CASE ReRead(i, c)
    <3>1. /\ calls' = [calls EXCEPT ![i] =
                         (calls[i] \ {c}) \cup {Stage(c.write, "answered", row)}]
          /\ row' = row /\ view' = view
      BY <2>2 DEF ReRead, VersionInv
    <3>2. Stage(c.write, "answered", row).answer = row
      BY DEF Stage
    <3>3. HandsOut
      BY <1>1, <2>1, <3>1, <3>2 DEF HandsOut, VersionInv
    <3>4. QED
      BY <3>1, <3>3, NobodyWrites
  <2>3. CASE Conflict(i, c) \/ Fail(i, c)
    <3>1. /\ calls' = [calls EXCEPT ![i] = calls[i] \ {c}]
          /\ row' = row /\ (view' = view \/ view' = [view EXCEPT ![i] = row])
      BY <2>3 DEF Conflict, Fail, VersionInv
    <3>2. HandsOut
      BY <1>1, <2>1, <3>1 DEF HandsOut, VersionInv
    <3>3. QED
      BY <3>1, <3>2, NobodyWrites
  <2>4. CASE Land(i, c)
    <3>1. Seen(c.answer)
      BY <2>1, <2>4 DEF Land
    <3> DEFINE roll == Stage(Roll("autoroll", c.answer, c.write.at, c.write.fallen),
                             "sent", None)
    <3>2. /\ roll.stage = "sent"
          /\ \/ calls' = [calls EXCEPT ![i] = (calls[i] \ {c}) \cup {}]
             \/ calls' = [calls EXCEPT ![i] = (calls[i] \ {c}) \cup {roll}]
      BY <2>4 DEF Land, Stage
    <3>3. row' = row /\ view' = [view EXCEPT ![i] = c.answer]
      BY <2>4 DEF Land
    <3>4. HandsOut
      BY <2>1, <3>1, <3>2, <3>3 DEF HandsOut, VersionInv
    <3>5. QED
      BY <3>3, <3>4, NobodyWrites
  <2>5. QED
    BY <1>5, <2>2, <2>3, <2>4
<1>6. ASSUME NEW i \in Trackers, NEW c \in calls[i], Commit(i, c) PROVE VersionInv'
  <2>1. row'.version = row.version + 1
    BY <1>6 DEF Commit, Applied, Row, NextVersion
  <2>2. view' = view
    BY <1>6 DEF Commit
  <2>3. calls' = [calls EXCEPT ![i] = (calls[i] \ {c}) \cup {Stage(c.write, "written", None)}]
    BY <1>6 DEF Commit, VersionInv
  <2>4. QED
    BY <2>1, <2>2, <2>3, SomebodyWrites
<1>7. CASE CleanupRead
  BY <1>7 DEF CleanupRead, VersionInv, Seen
<1>8. CASE CleanupWrite
  <2>1. view' = view /\ calls' = calls
    BY <1>8 DEF CleanupWrite
  <2>2. row' = row \/ row'.version = row.version + 1
    BY <1>8 DEF CleanupWrite, Row, NextVersion
  <2>3. CASE row' = row
    BY <2>1, <2>3 DEF VersionInv, Seen
  <2>4. CASE row'.version = row.version + 1
    BY <2>1, <2>4, SomebodyWrites
  <2>5. QED
    BY <2>2, <2>3, <2>4
<1>9. QED
  BY <1>2, <1>3, <1>4, <1>5, <1>6, <1>7, <1>8 DEF Next

\* Whatever a tracker holds under the row's version is the row: the guard of
\* writeWithVersionGuard compares a number and decides about the whole row.
THEOREM VersionNamesRowHolds == Spec => []VersionNamesRow
<1>1. VersionInv => VersionNamesRow
  BY DEF VersionInv, VersionNamesRow, Seen
<1>2. QED
  BY InitVersion, VersionStep, <1>1, PTL DEF Spec

-----------------------------------------------------------------------------
(* Lists and their order.                                                   *)

\* ahead puts the places in a row: of two, exactly one comes first.
Ordered(places, ahead) ==
    /\ \A j, k \in places : j = k \/ <<j, k>> \in ahead \/ <<k, j>> \in ahead
    /\ \A j \in places : <<j, j>> \notin ahead
    /\ \A i, j, k \in places : <<i, j>> \in ahead /\ <<j, k>> \in ahead => <<i, k>> \in ahead

\* Arranged loses no place and repeats none: it counts, for every place, those
\* ahead of it, and no two places have the same number ahead of them.
LEMMA Arrangement ==
    ASSUME NEW list, Len(list) \in Nat, NEW places \in SUBSET Places(list),
           NEW ahead, Ordered(places, ahead)
    PROVE  /\ Cardinality(places) \in Nat
           /\ \E at \in Bijection(1 .. Cardinality(places), places) :
                /\ Arranged(list, places, ahead) =
                     [n \in 1 .. Cardinality(places) |-> list[at[n]]]
                /\ \A m, n \in 1 .. Cardinality(places) :
                     m < n => <<at[m], at[n]>> \in ahead
<1> DEFINE Before(k) == {j \in places : <<j, k>> \in ahead}
           N == Cardinality(places)
           rank == [k \in places |-> Cardinality(Before(k))]
           at == [n \in 1 .. N |-> CHOOSE k \in places : Cardinality(Before(k)) = n - 1]
<1>1. IsFiniteSet(places) /\ N \in Nat
  <2>1. Len(list) \in Int /\ 1 \in Int
    OBVIOUS
  <2>2. IsFiniteSet(1 .. Len(list))
    BY <2>1, FS_Interval
  <2> QED
    BY <2>2, FS_Subset, FS_CardinalityType DEF Places
<1>2. \A k \in places :
        Before(k) \in SUBSET places /\ (\A j : j \in Before(k) <=> j \in places /\ <<j, k>> \in ahead)
  OBVIOUS
<1>3. rank = [k \in places |-> Cardinality(Before(k))]
  OBVIOUS
<1>4. at = [n \in 1 .. N |-> CHOOSE k \in places : Cardinality(Before(k)) = n - 1]
  OBVIOUS
<1>5. Arranged(list, places, ahead) = [n \in 1 .. N |-> list[at[n]]]
  BY DEF Arranged
<1>6. N = Cardinality(places)
  OBVIOUS
<1> HIDE DEF Before, N, rank, at
<1>7. \A k \in places : Cardinality(Before(k)) \in 0 .. N - 1
  <2> SUFFICES ASSUME NEW k \in places PROVE Cardinality(Before(k)) \in 0 .. N - 1
    OBVIOUS
  <2>1. k \notin Before(k)
    BY <1>2 DEF Ordered
  <2>2. Cardinality(Before(k)) <= N /\ Cardinality(Before(k)) # N
        /\ Cardinality(Before(k)) \in Nat
    BY <1>1, <1>2, <1>6, <2>1, FS_Subset, FS_CardinalityType
  <2> QED
    BY <1>1, <2>2
<1>8. ASSUME NEW j \in places, NEW k \in places, <<j, k>> \in ahead
      PROVE  Cardinality(Before(j)) < Cardinality(Before(k))
  <2>1. Before(j) \in SUBSET Before(k) /\ Before(j) # Before(k)
    BY <1>2, <1>8 DEF Ordered
  <2>2. IsFiniteSet(Before(k))
    BY <1>1, <1>2, FS_Subset
  <2>3. /\ Cardinality(Before(j)) <= Cardinality(Before(k))
        /\ Cardinality(Before(j)) # Cardinality(Before(k))
    BY <2>1, <2>2, FS_Subset
  <2> QED
    BY <1>7, <2>3
<1>9. \A j, k \in places : Cardinality(Before(j)) = Cardinality(Before(k)) => j = k
  <2> SUFFICES ASSUME NEW j \in places, NEW k \in places, j # k
               PROVE  Cardinality(Before(j)) # Cardinality(Before(k))
    OBVIOUS
  <2>1. <<j, k>> \in ahead \/ <<k, j>> \in ahead
    BY DEF Ordered
  <2>2. Cardinality(Before(j)) \in Int /\ Cardinality(Before(k)) \in Int
    BY <1>7
  <2> QED
    BY <1>8, <2>1, <2>2
<1>10. rank \in Injection(places, 0 .. N - 1)
  <2>1. rank \in [places -> 0 .. N - 1]
    BY <1>3, <1>7
  <2>2. \A j, k \in places : rank[j] = rank[k] => j = k
    BY <1>3, <1>9
  <2> QED
    BY <2>1, <2>2 DEF Injection, IsInjective
<1>11. rank \in Surjection(places, 0 .. N - 1)
  <2>1. 0 \in Int /\ N - 1 \in Int /\ (IF 0 > N - 1 THEN 0 ELSE (N - 1) - 0 + 1) = N
    BY <1>1
  <2>2. IsFiniteSet(0 .. N - 1) /\ Cardinality(0 .. N - 1) = N
    BY <2>1, FS_Interval
  <2> QED
    BY <1>6, <1>10, <2>2, FS_Injection
<1>12. \A n \in 1 .. N : at[n] \in places /\ Cardinality(Before(at[n])) = n - 1
  <2> SUFFICES ASSUME NEW n \in 1 .. N
               PROVE  at[n] \in places /\ Cardinality(Before(at[n])) = n - 1
    OBVIOUS
  <2>1. n - 1 \in 0 .. N - 1
    BY <1>1
  <2>2. \E k \in places : Cardinality(Before(k)) = n - 1
    BY <1>3, <1>11, <2>1 DEF Surjection
  <2> QED
    BY <1>4, <2>2
<1>13. \A m, n \in 1 .. N : m < n => <<at[m], at[n]>> \in ahead
  <2> SUFFICES ASSUME NEW m \in 1 .. N, NEW n \in 1 .. N, m < n
               PROVE  <<at[m], at[n]>> \in ahead
    OBVIOUS
  <2>1. Cardinality(Before(at[m])) < Cardinality(Before(at[n]))
    BY <1>1, <1>12
  <2>2. Cardinality(Before(at[m])) \in Int /\ Cardinality(Before(at[n])) \in Int
    BY <1>7, <1>12
  <2>3. <<at[n], at[m]>> \notin ahead
    BY <1>8, <1>12, <2>1, <2>2
  <2>4. at[m] # at[n]
    BY <2>1, <2>2
  <2> QED
    BY <1>12, <2>3, <2>4 DEF Ordered
<1>14. at \in Bijection(1 .. N, places)
  <2>1. at \in [1 .. N -> places]
    BY <1>4, <1>12
  <2>2. \A m, n \in 1 .. N : at[m] = at[n] => m = n
    <3> SUFFICES ASSUME NEW m \in 1 .. N, NEW n \in 1 .. N, at[m] = at[n] PROVE m = n
      OBVIOUS
    <3>1. m - 1 = n - 1
      BY <1>12
    <3> QED
      BY <1>1, <3>1
  <2>3. ASSUME NEW k \in places PROVE \E n \in 1 .. N : at[n] = k
    <3> DEFINE n == Cardinality(Before(k)) + 1
    <3>1. n \in 1 .. N /\ n - 1 = Cardinality(Before(k))
      BY <1>1, <1>7
    <3>2. Cardinality(Before(at[n])) = n - 1 /\ at[n] \in places
      BY <1>12, <3>1
    <3> QED
      BY <1>9, <3>1, <3>2
  <2>4. \A k \in places : \E n \in 1 .. N : at[n] = k
    BY <2>3
  <2> QED
    BY <2>1, <2>2, <2>4 DEF Bijection, Injection, Surjection, IsInjective
<1> QED
  BY <1>1, <1>5, <1>6, <1>13, <1>14

LEMMA UpTo ==
    ASSUME NEW n \in Nat
    PROVE  IsFiniteSet(1 .. n) /\ Cardinality(1 .. n) = n
<1>1. 1 \in Int /\ n \in Int /\ (IF 1 > n THEN 0 ELSE n - 1 + 1) = n
  OBVIOUS
<1> QED
  BY <1>1, FS_Interval

LEMMA Fields == \A c \in Combatant : c.id \in Combatants /\ c.initiative \in Int
<1>1. Initiatives \subseteq Int
  BY TrackerAssumption
<1> QED
  BY <1>1 DEF Combatant

LEMMA ListFields ==
    ASSUME NEW list \in Seq(Combatant)
    PROVE  /\ Len(list) \in Nat /\ Places(list) = 1 .. Len(list)
           /\ Cardinality(Places(list)) = Len(list)
           /\ \A n \in Places(list) :
                /\ n \in Nat /\ list[n] \in Combatant
                /\ list[n].id \in Combatants /\ list[n].initiative \in Int
<1>1. Len(list) \in Nat /\ Places(list) = 1 .. Len(list)
  BY DEF Places
<1>2. \A n \in Places(list) : n \in Nat /\ list[n] \in Combatant
  BY <1>1
<1> QED
  BY <1>1, <1>2, UpTo, Fields

LEMMA AheadOrders ==
    ASSUME NEW list \in Seq(Combatant)
    PROVE  Ordered(Places(list), Ahead(list))
<1>1. \A n \in Places(list) : n \in Int /\ list[n].initiative \in Int
  BY ListFields
<1>2. \A j, k : <<j, k>> \in Ahead(list) <=>
                  /\ j \in Places(list) /\ k \in Places(list)
                  /\ \/ list[j].initiative > list[k].initiative
                     \/ list[j].initiative = list[k].initiative /\ j < k
  BY DEF Ahead
<1>3. ASSUME NEW j \in Places(list), NEW k \in Places(list)
      PROVE  j = k \/ <<j, k>> \in Ahead(list) \/ <<k, j>> \in Ahead(list)
  <2>1. /\ j \in Int /\ list[j].initiative \in Int
        /\ k \in Int /\ list[k].initiative \in Int
    BY <1>1
  <2>2. /\ j = k \/ j < k \/ k < j
        /\ \/ list[j].initiative > list[k].initiative
           \/ list[k].initiative > list[j].initiative
           \/ list[j].initiative = list[k].initiative
    BY <2>1
  <2> QED
    BY <1>2, <2>2
<1>4. \A j \in Places(list) : <<j, j>> \notin Ahead(list)
  BY <1>1, <1>2
<1>5. ASSUME NEW i \in Places(list), NEW j \in Places(list), NEW k \in Places(list),
             <<i, j>> \in Ahead(list), <<j, k>> \in Ahead(list)
      PROVE  <<i, k>> \in Ahead(list)
  <2>1. /\ i \in Int /\ list[i].initiative \in Int
        /\ j \in Int /\ list[j].initiative \in Int
        /\ k \in Int /\ list[k].initiative \in Int
    BY <1>1
  <2>2. /\ \/ list[i].initiative > list[j].initiative
           \/ list[i].initiative = list[j].initiative /\ i < j
        /\ \/ list[j].initiative > list[k].initiative
           \/ list[j].initiative = list[k].initiative /\ j < k
    BY <1>2, <1>5
  <2>3. \/ list[i].initiative > list[k].initiative
        \/ list[i].initiative = list[k].initiative /\ i < k
    BY <2>1, <2>2
  <2> QED
    BY <1>2, <2>3
<1> QED
  BY <1>3, <1>4, <1>5 DEF Ordered

\* Sorting moves the combatants of a list about and puts the quickest first.
LEMMA SortedRows ==
    ASSUME NEW list \in Seq(Combatant)
    PROVE  /\ Sorted(list) \in Seq(Combatant)
           /\ Len(Sorted(list)) = Len(list)
           /\ Names(Sorted(list)) = Names(list)
           /\ \A m, n \in Places(list) :
                m < n => Sorted(list)[m].initiative >= Sorted(list)[n].initiative
<1> DEFINE P == Places(list)
<1>1. Len(list) \in Nat /\ P = 1 .. Len(list) /\ Cardinality(P) = Len(list)
  BY ListFields
<1>2. PICK at \in Bijection(P, P) :
         /\ Sorted(list) = [n \in P |-> list[at[n]]]
         /\ \A m, n \in P : m < n => <<at[m], at[n]>> \in Ahead(list)
  <2>1. P \in SUBSET P /\ Ordered(P, Ahead(list))
    BY AheadOrders
  <2>2. \E at \in Bijection(1 .. Cardinality(P), P) :
          /\ Arranged(list, P, Ahead(list)) = [n \in 1 .. Cardinality(P) |-> list[at[n]]]
          /\ \A m, n \in 1 .. Cardinality(P) : m < n => <<at[m], at[n]>> \in Ahead(list)
    BY <1>1, <2>1, Arrangement
  <2> QED
    BY <1>1, <2>2 DEF Sorted
<1>3. (\A n \in P : at[n] \in P) /\ \A k \in P : \E n \in P : at[n] = k
  BY DEF Bijection, Injection, Surjection
<1>4. \A n \in P : list[n] \in Combatant /\ list[n].initiative \in Int
  BY ListFields
<1>5. Sorted(list) \in [1 .. Len(list) -> Combatant]
  BY <1>1, <1>2, <1>3, <1>4
<1>6. Sorted(list) \in Seq(Combatant) /\ Len(Sorted(list)) = Len(list)
  BY <1>1, <1>5
<1>7. Names(Sorted(list)) = Names(list)
  <2>1. Names(list) = {list[n].id : n \in P}
    BY <1>1 DEF Names
  <2>2. Names(Sorted(list)) = {Sorted(list)[n].id : n \in P}
    BY <1>1, <1>6 DEF Names
  <2>3. \A n \in P : Sorted(list)[n].id = list[at[n]].id
    BY <1>2
  <2> QED
    BY <1>3, <2>1, <2>2, <2>3
<1>8. \A m, n \in P : m < n => Sorted(list)[m].initiative >= Sorted(list)[n].initiative
  <2> SUFFICES ASSUME NEW m \in P, NEW n \in P, m < n
               PROVE  Sorted(list)[m].initiative >= Sorted(list)[n].initiative
    OBVIOUS
  <2>1. <<at[m], at[n]>> \in Ahead(list)
    BY <1>2
  <2>2. list[at[m]].initiative >= list[at[n]].initiative
    BY <1>3, <1>4, <2>1 DEF Ahead
  <2> QED
    BY <1>2, <2>2
<1> QED
  BY <1>6, <1>7, <1>8

\* A list in which the quickest come first stays as it is.
LEMMA SortedStays ==
    ASSUME NEW list \in Seq(Combatant),
           \A m, n \in Places(list) : m < n => list[m].initiative >= list[n].initiative
    PROVE  Sorted(list) = list
<1> DEFINE P == Places(list)
           Before(k) == {j \in P : <<j, k>> \in Ahead(list)}
<1>1. Len(list) \in Nat /\ P = 1 .. Len(list) /\ Cardinality(P) = Len(list)
  BY ListFields
<1>2. \A n \in P : list[n].initiative \in Int
  BY ListFields
<1>3. ASSUME NEW k \in P PROVE Cardinality(Before(k)) = k - 1
  <2>1. \A j \in P : <<j, k>> \in Ahead(list) <=> j < k
    BY <1>1, <1>2, <1>3 DEF Ahead
  <2>2. Before(k) = 1 .. k - 1
    BY <1>1, <2>1
  <2>3. k - 1 \in Nat
    BY <1>1
  <2>4. Cardinality(1 .. k - 1) = k - 1
    BY <2>3, UpTo
  <2> QED
    BY <2>2, <2>4
<1>4. \A n \in P : (CHOOSE k \in P : Cardinality(Before(k)) = n - 1) = n
  BY <1>1, <1>3
<1>5. Sorted(list) = [n \in P |-> list[CHOOSE k \in P : Cardinality(Before(k)) = n - 1]]
  BY <1>1 DEF Sorted, Arranged
<1> HIDE DEF Before
<1>6. Sorted(list) = [n \in 1 .. Len(list) |-> list[n]]
  BY <1>1, <1>4, <1>5
<1> QED
  BY <1>6

\* Taking combatants off a list leaves a list.
LEMMA StrippedRows ==
    ASSUME NEW list \in Seq(Combatant)
    PROVE  Strip(list) \in Seq(Combatant)
<1> DEFINE staying == {n \in Places(list) : list[n].id \notin Departing}
           ahead == {p \in staying \X staying : p[1] < p[2]}
<1>1. staying \in SUBSET Places(list) /\ Len(list) \in Nat
  OBVIOUS
<1>2. Ordered(staying, ahead)
  BY DEF Ordered, Places
<1>3. /\ Cardinality(staying) \in Nat
      /\ \E at \in Bijection(1 .. Cardinality(staying), staying) :
           Strip(list) = [n \in 1 .. Cardinality(staying) |-> list[at[n]]]
  <2>1. Arranged(list, staying, ahead) = Strip(list)
    BY DEF Strip
  <2> HIDE DEF staying, ahead
  <2> QED
    BY <1>1, <1>2, <2>1, Arrangement
<1> HIDE DEF staying
<1>4. PICK at \in Bijection(1 .. Cardinality(staying), staying) :
         Strip(list) = [n \in 1 .. Cardinality(staying) |-> list[at[n]]]
  BY <1>3
<1>5. \A n \in 1 .. Cardinality(staying) : at[n] \in Places(list)
  BY <1>1 DEF Bijection, Injection
<1>6. Strip(list) \in [1 .. Cardinality(staying) -> Combatant]
  BY <1>3, <1>4, <1>5 DEF Places
<1> QED
  BY <1>3, <1>6

-----------------------------------------------------------------------------
(* What a tracker's writes do to the row they were computed from.           *)

After(v, w) ==
    Row(IF w.list = None THEN v.list ELSE w.list,
        IF w.turn = None THEN v.turn ELSE w.turn,
        IF w.round = None THEN v.round ELSE w.round, v.version + 1)

InRange(r) == r.turn < Len(r.list) \/ r.turn = 0

IsWrite(w) ==
    /\ w.version \in Nat
    /\ w.list \in Seq(Combatant) \cup {None}
    /\ w.turn \in Nat \cup {None} /\ w.round \in (Nat \ {0}) \cup {None}
    /\ IsRoll(w) => w.list = None /\ w.turn = None /\ w.round = None
    /\ IsRoll(w) \/ w.fallen # None => w.at \in Nat \ {0}

\* Applied to v, write w leaves the pointer in range, and if it is an edit with
\* the combatant that had the turn.
Sound(v, w) ==
    /\ IsWrite(w) /\ w.version = v.version
    /\ InRange(v) => InRange(After(v, w))
    /\ w.kind \in {"edit", "append"} /\ Active(v) # None => Active(After(v, w)) = Active(v)

LEMMA NoneIsNothing ==
    None \notin Combatants /\ None \notin Nat /\ None \notin Seq(Combatant)
BY TrackerAssumption

LEMMA ActiveRow ==
    ASSUME NEW r, IsRow(r)
    PROVE  /\ r.turn < Len(r.list) => Active(r) \in Names(r.list) /\ Active(r) # None
           /\ r.turn >= Len(r.list) => Active(r) = None
<1>1. r.list \in Seq(Combatant) /\ r.turn \in Nat
  BY DEF IsRow
<1>2. /\ Len(r.list) \in Nat /\ Len(Sorted(r.list)) = Len(r.list)
      /\ Sorted(r.list) \in Seq(Combatant) /\ Names(Sorted(r.list)) = Names(r.list)
  BY <1>1, SortedRows
<1>3. ASSUME r.turn < Len(r.list) PROVE Active(r) \in Names(r.list) /\ Active(r) # None
  <2>1. r.turn + 1 \in 1 .. Len(Sorted(r.list)) /\ r.turn + 1 \in Places(Sorted(r.list))
    BY <1>1, <1>2, <1>3 DEF Places
  <2>2. Active(r) = Sorted(r.list)[r.turn + 1].id
    BY <1>3 DEF Active
  <2>3. Sorted(r.list)[r.turn + 1].id \in Combatants
    BY <1>2, <2>1, ListFields
  <2> QED
    BY <1>2, <2>1, <2>2, <2>3, NoneIsNothing DEF Names
<1>4. ASSUME r.turn >= Len(r.list) PROVE Active(r) = None
  BY <1>1, <1>2, <1>4 DEF Active
<1> QED
  BY <1>3, <1>4

\* The pointer that follows a combatant finds it.
LEMMA IndexFinds ==
    ASSUME NEW list \in Seq(Combatant), NEW c \in Names(list)
    PROVE  /\ IndexOf(list, c) \in Nat /\ IndexOf(list, c) < Len(list)
           /\ Sorted(list)[IndexOf(list, c) + 1].id = c
<1>1. /\ Len(list) \in Nat /\ Len(Sorted(list)) = Len(list)
      /\ Names(Sorted(list)) = Names(list)
  BY SortedRows
<1>2. \E n \in 1 .. Len(list) : Sorted(list)[n].id = c
  BY <1>1 DEF Names
<1>3. PICK n \in 1 .. Len(list) :
         n = (CHOOSE m \in 1 .. Len(list) : Sorted(list)[m].id = c) /\ Sorted(list)[n].id = c
  BY <1>2
<1>4. IndexOf(list, c) = n - 1
  BY <1>3 DEF IndexOf
<1> QED
  BY <1>1, <1>3, <1>4

\* ReAnchor, for a list that has lost nobody.
LEMMA Anchored ==
    ASSUME NEW v, IsRow(v), NEW list \in Seq(Combatant), Names(v.list) \subseteq Names(list),
           NEW kind \in {"edit", "append"}
    PROVE  Sound(v, Patch(kind, v, list, ReAnchor(v, list), None))
<1> DEFINE w == Patch(kind, v, list, ReAnchor(v, list), None)
           a == After(v, w)
<1>1. v.turn \in Nat /\ v.version \in Nat /\ Len(v.list) \in Nat /\ Len(list) \in Nat
  BY DEF IsRow
<1>2. /\ w.kind = kind /\ w.version = v.version /\ w.list = list
      /\ w.turn = ReAnchor(v, list) /\ w.round = None /\ w.fallen = None
  BY DEF Patch, Write
<1>3. ~IsRoll(w)
  BY <1>2 DEF IsRoll
<1>4. a.list = list /\ a.turn = IF ReAnchor(v, list) = None THEN v.turn ELSE ReAnchor(v, list)
  BY <1>2, NoneIsNothing DEF After, Row
<1>5. CASE v.turn < Len(v.list)
  <2>1. Active(v) \in Names(list) /\ Active(v) # None
    BY <1>5, ActiveRow
  <2>2. /\ IndexOf(list, Active(v)) \in Nat /\ IndexOf(list, Active(v)) < Len(list)
        /\ Sorted(list)[IndexOf(list, Active(v)) + 1].id = Active(v)
    BY <2>1, IndexFinds
  <2>3. ReAnchor(v, list) \in Nat \cup {None} /\ a.turn = IndexOf(list, Active(v))
    BY <1>4, <2>1, <2>2, NoneIsNothing DEF ReAnchor, IfMoved
  <2>4. InRange(a) /\ Active(a) = Active(v)
    BY <1>4, <2>2, <2>3 DEF InRange, Active
  <2> QED
    BY <1>1, <1>2, <1>3, <2>3, <2>4 DEF Sound, IsWrite
<1>6. CASE v.turn >= Len(v.list)
  <2>1. Active(v) = None
    BY <1>6, ActiveRow
  <2>2. ReAnchor(v, list) = None
    BY <2>1 DEF ReAnchor
  <2>3. InRange(v) => InRange(a)
    BY <1>1, <1>4, <1>6, <2>2 DEF InRange
  <2> QED
    BY <1>1, <1>2, <1>3, <2>1, <2>2, <2>3 DEF Sound, IsWrite
<1> QED
  BY <1>1, <1>5, <1>6

\* A write that puts back the sorted list with something else about a combatant.
LEMMA InPlace ==
    ASSUME NEW v, IsRow(v), NEW list \in Seq(Combatant), Len(list) = Len(v.list),
           \A n \in Places(list) : /\ list[n].id = Sorted(v.list)[n].id
                                   /\ list[n].initiative = Sorted(v.list)[n].initiative,
           NEW fallen, NEW at, fallen # None => at \in Nat \ {0}
    PROVE  Sound(v, Write("edit", v, list, None, None, fallen, at))
<1> DEFINE w == Write("edit", v, list, None, None, fallen, at)
           a == After(v, w)
<1>1. /\ v.turn \in Nat /\ v.version \in Nat /\ Len(v.list) \in Nat
      /\ v.list \in Seq(Combatant) /\ Places(list) = Places(v.list)
      /\ Places(list) = 1 .. Len(v.list)
  BY DEF IsRow, Places
<1>2. /\ w.kind = "edit" /\ w.version = v.version /\ w.list = list /\ w.turn = None
      /\ w.round = None /\ w.fallen = fallen /\ w.at = at /\ ~IsRoll(w)
  BY DEF Write, IsRoll
<1>3. a.list = list /\ a.turn = v.turn
  BY <1>2, NoneIsNothing DEF After, Row
<1>4. Sorted(list) = list
  BY <1>1, SortedRows, SortedStays
<1>5. Active(v) # None => Active(a) = Active(v)
  BY <1>1, <1>3, <1>4 DEF Active
<1> QED
  BY <1>1, <1>2, <1>3, <1>5 DEF Sound, IsWrite, InRange

\* A write that leaves the list alone.
LEMMA TurnWrite ==
    ASSUME NEW v, IsRow(v), NEW turn \in Nat \cup {None}, NEW round \in (Nat \ {0}) \cup {None},
           turn # None => turn < Len(v.list) \/ turn = 0
    PROVE  Sound(v, Patch("turn", v, None, turn, round))
<1> DEFINE w == Patch("turn", v, None, turn, round)
           a == After(v, w)
<1>1. v.turn \in Nat /\ v.version \in Nat /\ Len(v.list) \in Nat
  BY DEF IsRow
<1>2. /\ w.kind = "turn" /\ w.version = v.version /\ w.list = None /\ w.turn = turn
      /\ w.round = round /\ w.fallen = None /\ ~IsRoll(w)
  BY DEF Patch, Write, IsRoll
<1>3. a.list = v.list /\ a.turn = IF turn = None THEN v.turn ELSE turn
  BY <1>2 DEF After, Row
<1> QED
  BY <1>1, <1>2, <1>3 DEF Sound, IsWrite, InRange

LEMMA RollWrite ==
    ASSUME NEW v, IsRow(v), NEW kind \in {"roll", "autoroll"}, NEW at \in Nat \ {0}, NEW target
    PROVE  Sound(v, Roll(kind, v, at, target))
<1> DEFINE w == Roll(kind, v, at, target)
           a == After(v, w)
<1>1. /\ w.kind = kind /\ w.version = v.version /\ w.list = None /\ w.turn = None
      /\ w.round = None /\ w.at = at
  BY DEF Roll, Write
<1>2. a.list = v.list /\ a.turn = v.turn
  BY <1>1 DEF After, Row
<1> QED
  BY <1>1, <1>2 DEF Sound, IsWrite, InRange, IsRow

LEMMA ShorterWrite ==
    ASSUME NEW v, IsRow(v), NEW list \in Seq(Combatant), NEW kind \in {"remove", "clear"},
           NEW turn \in Nat \cup {None}, NEW round \in (Nat \ {0}) \cup {None},
           LET t == IF turn = None THEN v.turn ELSE turn IN t < Len(list) \/ t = 0
    PROVE  Sound(v, Patch(kind, v, list, turn, round))
<1> DEFINE w == Patch(kind, v, list, turn, round)
           a == After(v, w)
<1>1. /\ w.kind = kind /\ w.version = v.version /\ w.list = list /\ w.turn = turn
      /\ w.round = round /\ w.fallen = None /\ ~IsRoll(w)
  BY DEF Patch, Write, IsRoll
<1>2. a.list = list /\ a.turn = IF turn = None THEN v.turn ELSE turn
  BY <1>1, NoneIsNothing DEF After, Row
<1> QED
  BY <1>1, <1>2 DEF Sound, IsWrite, InRange, IsRow

LEMMA SwapRows ==
    ASSUME NEW list \in Seq(Combatant), NEW n \in 1 .. Len(list) - 1
    PROVE  Swap(list, n) \in Seq(Combatant) /\ Names(list) \subseteq Names(Swap(list, n))
<1>1. Len(list) \in Nat /\ n \in 1 .. Len(list) /\ n + 1 \in 1 .. Len(list)
  OBVIOUS
<1>2. /\ Swap(list, n) \in Seq(Combatant) /\ Len(Swap(list, n)) = Len(list)
      /\ \A m \in 1 .. Len(list) :
           Swap(list, n)[m] = IF m = n THEN list[n + 1] ELSE IF m = n + 1 THEN list[n] ELSE list[m]
  BY <1>1 DEF Swap
<1>3. \A m \in 1 .. Len(list) : \E k \in 1 .. Len(list) : Swap(list, n)[k] = list[m]
  BY <1>1, <1>2
<1> QED
  BY <1>2, <1>3 DEF Names

LEMMA WithoutRows ==
    ASSUME NEW list \in Seq(Combatant), NEW n \in 1 .. Len(list)
    PROVE  Without(list, n) \in Seq(Combatant) /\ Len(Without(list, n)) = Len(list) - 1
<1>1. Len(list) \in Nat
  OBVIOUS
<1>2. /\ SubSeq(list, 1, n - 1) \in Seq(Combatant) /\ Len(SubSeq(list, 1, n - 1)) = n - 1
      /\ SubSeq(list, n + 1, Len(list)) \in Seq(Combatant)
      /\ Len(SubSeq(list, n + 1, Len(list))) = Len(list) - n
  BY <1>1
<1>3. \A s, t \in Seq(Combatant) : s \o t \in Seq(Combatant) /\ Len(s \o t) = Len(s) + Len(t)
  OBVIOUS
<1>4. (n - 1) + (Len(list) - n) = Len(list) - 1
  BY <1>1
<1> QED
  BY <1>2, <1>3, <1>4 DEF Without

\* A combatant's initiative changes: everybody is still there.
LEMMA MovedRow ==
    ASSUME NEW list \in Seq(Combatant), NEW n \in 1 .. Len(list), NEW x \in Initiatives
    PROVE  /\ [list EXCEPT ![n].initiative = x] \in Seq(Combatant)
           /\ Names([list EXCEPT ![n].initiative = x]) = Names(list)
<1>1. PICK c : c = [list[n] EXCEPT !.initiative = x]
  OBVIOUS
<1>2. c \in Combatant /\ c.id = list[n].id
  <2>1. list[n] \in Combatant
    OBVIOUS
  <2> QED
    BY <1>1, <2>1 DEF Combatant
<1>3. [list EXCEPT ![n].initiative = x] = [list EXCEPT ![n] = c]
  BY <1>1
<1>4. /\ [list EXCEPT ![n] = c] \in Seq(Combatant) /\ Len([list EXCEPT ![n] = c]) = Len(list)
      /\ \A m \in 1 .. Len(list) :
           [list EXCEPT ![n] = c][m] = IF m = n THEN c ELSE list[m]
  BY <1>2
<1>5. Names([list EXCEPT ![n] = c]) = Names(list)
  BY <1>2, <1>4 DEF Names
<1> QED
  BY <1>3, <1>4, <1>5

\* A combatant falls or rises: nobody moves.
LEMMA HitRow ==
    ASSUME NEW list \in Seq(Combatant), NEW n \in 1 .. Len(list)
    PROVE  LET hit == [list EXCEPT ![n].up = ~@]
           IN  /\ hit \in Seq(Combatant) /\ Len(hit) = Len(list)
               /\ \A m \in 1 .. Len(list) :
                    hit[m].id = list[m].id /\ hit[m].initiative = list[m].initiative
<1>1. PICK c : c = [list[n] EXCEPT !.up = ~list[n].up]
  OBVIOUS
<1>2. c \in Combatant /\ c.id = list[n].id /\ c.initiative = list[n].initiative
  <2>1. list[n] \in Combatant
    OBVIOUS
  <2> QED
    BY <1>1, <2>1 DEF Combatant
<1>3. [list EXCEPT ![n].up = ~@] = [list EXCEPT ![n] = c]
  BY <1>1
<1>4. /\ [list EXCEPT ![n] = c] \in Seq(Combatant) /\ Len([list EXCEPT ![n] = c]) = Len(list)
      /\ \A m \in 1 .. Len(list) :
           [list EXCEPT ![n] = c][m] = IF m = n THEN c ELSE list[m]
  BY <1>2
<1> QED
  BY <1>2, <1>3, <1>4

LEMMA EditsSound ==
    ASSUME NEW v, IsRow(v),
           NEW w \in SetInitiative(v) \cup RollInitiatives(v) \cup Move(v) \cup SetHp(v)
                       \cup EditField(v) \cup AppendCombatant(v)
    PROVE  Sound(v, w)
<1> DEFINE sorted == Sorted(v.list)
<1>1. v.list \in Seq(Combatant) /\ Len(v.list) \in Nat
  BY DEF IsRow
<1>2. /\ sorted \in Seq(Combatant) /\ Len(sorted) = Len(v.list) /\ Names(sorted) = Names(v.list)
      /\ Places(sorted) = 1 .. Len(v.list) /\ Places(v.list) = 1 .. Len(v.list)
  BY <1>1, SortedRows DEF Places
<1> HIDE DEF sorted
<1>3. ASSUME w \in SetInitiative(v) PROVE Sound(v, w)
  <2>1. PICK n \in 1 .. Len(v.list), x \in Initiatives : w = Rearranged(v, Requeued(v, n, x))
    BY <1>3 DEF SetInitiative
  <2>2. /\ [sorted EXCEPT ![n].initiative = x] \in Seq(Combatant)
        /\ Names([sorted EXCEPT ![n].initiative = x]) = Names(sorted)
    BY <1>2, MovedRow
  <2>3. Requeued(v, n, x) \in Seq(Combatant) /\ Names(Requeued(v, n, x)) = Names(v.list)
    BY <1>2, <2>2, SortedRows DEF Requeued, sorted
  <2> QED
    BY <2>1, <2>3, Anchored DEF Rearranged
<1>4. ASSUME w \in RollInitiatives(v) PROVE Sound(v, w)
  <2>1. PICK roll \in [Monsters -> Initiatives] : w = Rearranged(v, Rolled(v, roll))
    BY <1>4 DEF RollInitiatives
  <2> DEFINE list == Rolled(v, roll)
  <2>2. \A c \in Combatant, x \in Initiatives :
          [c EXCEPT !.initiative = x] \in Combatant /\ [c EXCEPT !.initiative = x].id = c.id
    BY DEF Combatant
  <2>3. \A n \in 1 .. Len(v.list) : v.list[n] \in Combatant
    BY <1>1
  <2>4. \A n \in 1 .. Len(v.list) : list[n] \in Combatant /\ list[n].id = v.list[n].id
    BY <2>2, <2>3 DEF Rolled
  <2>5. list \in [1 .. Len(v.list) -> Combatant]
    BY <2>4 DEF Rolled
  <2>6. list \in Seq(Combatant) /\ Len(list) = Len(v.list)
    BY <1>1, <2>5
  <2>7. Names(list) = Names(v.list)
    BY <2>4, <2>6 DEF Names
  <2> QED
    BY <2>1, <2>6, <2>7, Anchored DEF Rearranged
<1>5. ASSUME w \in Move(v) PROVE Sound(v, w)
  <2>1. PICK n \in 1 .. Len(sorted) - 1 : w = Rearranged(v, Swap(sorted, n))
    BY <1>5 DEF Move, sorted
  <2>2. Swap(sorted, n) \in Seq(Combatant) /\ Names(v.list) \subseteq Names(Swap(sorted, n))
    BY <1>2, SwapRows
  <2> QED
    BY <2>1, <2>2, Anchored DEF Rearranged
<1>6. ASSUME w \in SetHp(v) PROVE Sound(v, w)
  <2>1. PICK n \in 1 .. Len(sorted) : \E fallen :
          w = Write("edit", v, [sorted EXCEPT ![n].up = ~@], None, None, fallen, n)
    BY <1>6 DEF SetHp, sorted
  <2> DEFINE list == [sorted EXCEPT ![n].up = ~@]
  <2>2. /\ list \in Seq(Combatant) /\ Len(list) = Len(sorted)
        /\ \A m \in 1 .. Len(sorted) :
             list[m].id = sorted[m].id /\ list[m].initiative = sorted[m].initiative
    BY <1>2, HitRow
  <2>3. /\ Len(list) = Len(v.list) /\ Places(list) = 1 .. Len(v.list)
        /\ \E fallen : w = Write("edit", v, list, None, None, fallen, n)
    BY <1>2, <2>1, <2>2 DEF Places
  <2>4. \A m \in Places(list) : /\ list[m].id = Sorted(v.list)[m].id
                                /\ list[m].initiative = Sorted(v.list)[m].initiative
    BY <1>2, <2>2, <2>3 DEF sorted
  <2> HIDE DEF list
  <2>5. n \in Nat \ {0}
    BY <1>1, <1>2
  <2>6. PICK fallen : w = Write("edit", v, list, None, None, fallen, n)
    BY <2>3
  <2> QED
    BY <1>2, <2>2, <2>3, <2>4, <2>5, <2>6, InPlace
<1>7. ASSUME w \in EditField(v) PROVE Sound(v, w)
  <2>1. w = Write("edit", v, sorted, None, None, None, None)
    BY <1>7 DEF EditField, Patch, sorted
  <2>2. \A m \in Places(sorted) : /\ sorted[m].id = Sorted(v.list)[m].id
                                  /\ sorted[m].initiative = Sorted(v.list)[m].initiative
    BY DEF sorted
  <2> QED
    BY <1>2, <2>1, <2>2, InPlace
<1>8. ASSUME w \in AppendCombatant(v) PROVE Sound(v, w)
  <2>1. PICK c \in Combatants, x \in Initiatives :
          LET list == Append(v.list, Fresh(c, x))
          IN w = Patch("append", v, list, ReAnchor(v, list), None)
    BY <1>8 DEF AppendCombatant
  <2> DEFINE list == Append(v.list, Fresh(c, x))
  <2>2. Fresh(c, x) \in Combatant
    BY DEF Fresh, Combatant
  <2>3. /\ list \in Seq(Combatant) /\ Len(list) = Len(v.list) + 1
        /\ \A m \in 1 .. Len(v.list) : list[m] = v.list[m]
    BY <1>1, <2>2
  <2>4. w = Patch("append", v, list, ReAnchor(v, list), None)
    BY <2>1
  <2> HIDE DEF list
  <2>5. Names(v.list) \subseteq Names(list)
    BY <1>1, <2>3 DEF Names
  <2> QED
    BY <2>3, <2>4, <2>5, Anchored
<1> QED
  BY <1>3, <1>4, <1>5, <1>6, <1>7, <1>8

LEMMA StepsSound ==
    ASSUME NEW v, IsRow(v), NEW w \in NextTurn(v) \cup PreviousTurn(v) \cup ToggleActive(v)
    PROVE  Sound(v, w)
<1>1. v.turn \in Nat /\ v.round \in Nat \ {0} /\ Len(v.list) \in Nat
  BY DEF IsRow
<1>2. ASSUME w \in NextTurn(v) PROVE Sound(v, w)
  <2> DEFINE wraps == v.turn + 1 >= Len(v.list)
             turn == IF wraps THEN 0 ELSE v.turn + 1
             round == IF wraps THEN v.round + 1 ELSE v.round
  <2>1. w = Patch("turn", v, None, turn, round)
    BY <1>2 DEF NextTurn
  <2>2. turn \in Nat /\ round \in Nat \ {0} /\ (turn < Len(v.list) \/ turn = 0)
    BY <1>1
  <2> HIDE DEF turn, round
  <2> QED
    BY <2>1, <2>2, TurnWrite
<1>3. ASSUME w \in PreviousTurn(v) PROVE Sound(v, w)
  <2> DEFINE last == Len(v.list) - 1
             wraps == v.turn = 0
             back == IF wraps THEN last ELSE v.turn - 1
             turn == IF back < last THEN back ELSE last
             round == IF wraps THEN v.round - 1 ELSE v.round
  <2>1. w = Patch("turn", v, None, turn, round) /\ AnyoneUp(v) /\ ~AtStart(v)
    BY <1>3 DEF PreviousTurn
  <2>2. Len(v.list) > 0
    BY <1>1, <2>1 DEF AnyoneUp
  <2>3. turn \in Nat /\ turn < Len(v.list) /\ round \in Nat \ {0}
    BY <1>1, <2>1, <2>2 DEF AtStart
  <2> HIDE DEF turn, round
  <2> QED
    BY <2>1, <2>3, TurnWrite
<1>4. ASSUME w \in ToggleActive(v) PROVE Sound(v, w)
  BY <1>4, TurnWrite DEF ToggleActive
<1> QED
  BY <1>2, <1>3, <1>4

LEMMA RemovalsSound ==
    ASSUME NEW v, IsRow(v), NEW w \in Remove(v) \cup Clear(v) \cup RollByHand(v)
    PROVE  Sound(v, w)
<1>1. v.turn \in Nat /\ Len(v.list) \in Nat /\ v.list \in Seq(Combatant)
  BY DEF IsRow
<1>2. ASSUME w \in Remove(v) PROVE Sound(v, w)
  <2>1. PICK n \in 1 .. Len(v.list) :
          w = Patch("remove", v, Without(Sorted(v.list), n),
                    IfMoved(v, Clamp(v.turn, Len(v.list) - 1)), None)
    BY <1>2 DEF Remove
  <2> DEFINE list == Without(Sorted(v.list), n)
             turn == IfMoved(v, Clamp(v.turn, Len(v.list) - 1))
  <2>2. list \in Seq(Combatant) /\ Len(list) = Len(v.list) - 1
    BY <1>1, SortedRows, WithoutRows
  <2>3. /\ turn \in Nat \cup {None}
        /\ LET t == IF turn = None THEN v.turn ELSE turn IN t < Len(list) \/ t = 0
    <3>1. /\ Clamp(v.turn, Len(v.list) - 1) \in Nat
          /\ \/ Clamp(v.turn, Len(v.list) - 1) < Len(v.list) - 1
             \/ Clamp(v.turn, Len(v.list) - 1) = 0
      <4>1. \A t, l \in Nat : Clamp(t, l) \in Nat /\ (Clamp(t, l) < l \/ Clamp(t, l) = 0)
        BY DEF Clamp
      <4>2. Len(v.list) - 1 \in Nat
        BY <1>1
      <4> QED
        BY <1>1, <4>1, <4>2
    <3> QED
      BY <2>2, <3>1, NoneIsNothing DEF IfMoved
  <2> HIDE DEF list, turn
  <2> QED
    BY <2>1, <2>2, <2>3, ShorterWrite DEF list, turn
<1>3. ASSUME w \in Clear(v) PROVE Sound(v, w)
  <2>1. w = Patch("clear", v, <<>>, 0, 1) /\ <<>> \in Seq(Combatant)
    BY <1>3 DEF Clear
  <2>2. LET t == IF 0 = None THEN v.turn ELSE 0 IN t < Len(<<>>) \/ t = 0
    BY NoneIsNothing
  <2>3. 0 \in Nat \cup {None} /\ 1 \in (Nat \ {0}) \cup {None}
    OBVIOUS
  <2> QED
    BY <2>1, <2>2, <2>3, ShorterWrite
<1>4. ASSUME w \in RollByHand(v) PROVE Sound(v, w)
  <2>1. PICK n \in 1 .. Len(v.list) : w = Roll("roll", v, n, None)
    BY <1>4 DEF RollByHand
  <2> QED
    BY <1>1, <2>1, RollWrite
<1> QED
  BY <1>2, <1>3, <1>4

LEMMA WritesSound ==
    ASSUME NEW v, IsRow(v), NEW w \in Locked(v) \cup Unlocked(v)
    PROVE  Sound(v, w)
BY EditsSound, StepsSound, RemovalsSound DEF Locked, Unlocked

-----------------------------------------------------------------------------
(* The second invariant.                                                    *)

Proper(c, r) ==
    /\ c.stage \in {"sent", "written", "answered"}
    /\ c.stage = "answered" => IsRow(c.answer)
    /\ IsWrite(c.write)
    /\ c.stage = "sent" => c.write.version <= r.version
    /\ c.stage = "sent" /\ c.write.version = r.version => Sound(r, c.write)

\* Everybody holds rows, and a request that will be accepted was computed from
\* the row as it is.
CallInv ==
    /\ IsRow(row) /\ leaving.list \in Seq(Combatant) /\ leaving.turn \in Nat
    /\ \A i \in Trackers : IsRow(view[i])
    /\ \A i \in Trackers : \A c \in calls[i] : Proper(c, row)

LEMMA InitCalls == Init => CallInv
<1> SUFFICES ASSUME Init PROVE CallInv
  OBVIOUS
<1>1. PICK list \in Created : row = Row(list, 0, 1, 0)
  BY DEF Init
<1>2. list \in Seq(Combatant)
  <2>1. PICK k \in 0 .. Cardinality(Combatants) :
          \E who \in [1 .. k -> Combatants], init \in [1 .. k -> Initiatives] :
            list = [n \in 1 .. k |-> Fresh(who[n], init[n])]
    BY DEF Created
  <2>2. PICK who \in [1 .. k -> Combatants], init \in [1 .. k -> Initiatives] :
          list = [n \in 1 .. k |-> Fresh(who[n], init[n])]
    BY <2>1
  <2>3. \A n \in 1 .. k : Fresh(who[n], init[n]) \in Combatant
    BY DEF Fresh, Combatant
  <2>4. k \in Nat /\ list \in [1 .. k -> Combatant]
    BY <2>2, <2>3
  <2> QED
    BY <2>4
<1>3. IsRow(row)
  BY <1>1, <1>2 DEF IsRow, Row
<1>4. /\ \A i \in Trackers : view[i] = row /\ calls[i] = {}
      /\ leaving.list = <<>> /\ leaving.turn = 0
  BY DEF Init
<1> QED
  BY <1>3, <1>4 DEF CallInv

\* A version is passed: what was computed from it will be refused.
LEMMA Outdated ==
    ASSUME NEW c, NEW r, NEW s, r.version \in Nat, s.version = r.version + 1, Proper(c, r)
    PROVE  Proper(c, s)
<1>1. c.stage = "sent" => c.write.version \in Nat /\ c.write.version < s.version
  BY DEF Proper, IsWrite
<1> QED
  BY <1>1 DEF Proper

LEMMA LootedRow ==
    ASSUME NEW list \in Seq(Combatant), NEW n \in 1 .. Len(list)
    PROVE  LET looted == [list EXCEPT ![n].loot = TRUE]
           IN  looted \in Seq(Combatant) /\ Len(looted) = Len(list)
<1>1. PICK c : c = [list[n] EXCEPT !.loot = TRUE]
  OBVIOUS
<1>2. c \in Combatant
  <2>1. list[n] \in Combatant
    OBVIOUS
  <2> QED
    BY <1>1, <2>1 DEF Combatant
<1>3. [list EXCEPT ![n].loot = TRUE] = [list EXCEPT ![n] = c]
  BY <1>1
<1>4. [list EXCEPT ![n] = c] \in Seq(Combatant) /\ Len([list EXCEPT ![n] = c]) = Len(list)
  BY <1>2
<1> QED
  BY <1>3, <1>4

\* What the server makes of a write it accepts.
LEMMA AppliedRow ==
    ASSUME IsRow(row), NEW w, Sound(row, w), Accepts(w)
    PROVE  /\ IsRow(Applied(w)) /\ Applied(w).version = row.version + 1
           /\ InRange(row) => InRange(Applied(w))
           /\ w.kind \in {"edit", "append"} /\ Active(row) # None =>
                Active(Applied(w)) = Active(row)
<1>1. /\ row.list \in Seq(Combatant) /\ Len(row.list) \in Nat
      /\ row.turn \in Nat /\ row.round \in Nat \ {0} /\ row.version \in Nat
  BY DEF IsRow
<1>2. IsWrite(w)
  BY DEF Sound
<1>3. CASE IsRoll(w)
  <2>1. w.list = None /\ w.turn = None /\ w.round = None /\ w.at \in 1 .. Len(row.list)
    BY <1>1, <1>2, <1>3 DEF IsWrite, Accepts
  <2> DEFINE looted == [row.list EXCEPT ![w.at].loot = TRUE]
  <2>2. looted \in Seq(Combatant) /\ Len(looted) = Len(row.list)
    BY <1>1, <2>1, LootedRow
  <2>3. Applied(w) = Row(looted, row.turn, row.round, row.version + 1)
    BY <1>3, <2>1 DEF Applied, NextVersion
  <2> HIDE DEF looted
  <2>4. w.kind \notin {"edit", "append"}
    BY <1>3 DEF IsRoll
  <2> QED
    BY <1>1, <2>2, <2>3, <2>4 DEF IsRow, Row, InRange
<1>4. CASE ~IsRoll(w)
  <2>1. Applied(w) = After(row, w)
    BY <1>4 DEF Applied, After, NextVersion
  <2>2. IsRow(After(row, w)) /\ After(row, w).version = row.version + 1
    BY <1>1, <1>2 DEF IsRow, Row, After, IsWrite
  <2> QED
    BY <2>1, <2>2 DEF Sound
<1> QED
  BY <1>3, <1>4

LEMMA CallStep == VersionInv /\ CallInv /\ [Next]_vars => CallInv'
<1> SUFFICES ASSUME VersionInv, CallInv, [Next]_vars PROVE CallInv'
  OBVIOUS
<1>1. /\ calls = [i \in Trackers |-> calls[i]] /\ view = [i \in Trackers |-> view[i]]
      /\ row.version \in Nat
  BY DEF VersionInv
<1>2. CASE UNCHANGED vars
  BY <1>2 DEF vars, CallInv
<1>3. ASSUME NEW i \in Trackers, Submit(i) PROVE CallInv'
  <2>1. PICK w \in Locked(view[i]) \cup Unlocked(view[i]) :
          calls' = [calls EXCEPT ![i] = calls[i] \cup {Stage(w, "sent", None)}]
    BY <1>3 DEF Submit
  <2>2. Sound(view[i], w)
    BY WritesSound DEF CallInv
  <2>3. view[i].version <= row.version /\ (view[i].version = row.version => view[i] = row)
    BY DEF VersionInv, Seen
  <2>4. Proper(Stage(w, "sent", None), row)
    BY <2>2, <2>3 DEF Proper, Stage, Sound
  <2>5. row' = row /\ view' = view /\ leaving' = leaving
    BY <1>3 DEF Submit
  <2> QED
    BY <1>1, <2>1, <2>4, <2>5 DEF CallInv
<1>4. ASSUME NEW i \in Trackers, Refetch(i) PROVE CallInv'
  BY <1>1, <1>4 DEF Refetch, CallInv
<1>5. ASSUME NEW i \in Trackers, NEW c \in calls[i], Commit(i, c) PROVE CallInv'
  <2>1. Sound(row, c.write) /\ Accepts(c.write) /\ row' = Applied(c.write)
    BY <1>5 DEF Commit, CallInv, Proper
  <2>2. IsRow(row') /\ row'.version = row.version + 1
    BY <2>1, AppliedRow DEF CallInv
  <2>3. calls' = [calls EXCEPT ![i] = (calls[i] \ {c}) \cup {Stage(c.write, "written", None)}]
        /\ view' = view /\ leaving' = leaving
    BY <1>5 DEF Commit
  <2>4. Proper(Stage(c.write, "written", None), row')
    BY <2>1 DEF Proper, Stage, Sound
  <2>5. \A j \in Trackers : \A d \in calls[j] : Proper(d, row')
    BY <1>1, <2>2, Outdated DEF CallInv
  <2> QED
    BY <1>1, <2>2, <2>3, <2>4, <2>5 DEF CallInv
<1>6. ASSUME NEW i \in Trackers, NEW c \in calls[i], ReRead(i, c) PROVE CallInv'
  <2>1. Proper(Stage(c.write, "answered", row), row)
    BY DEF CallInv, Proper, Stage
  <2>2. calls' = [calls EXCEPT ![i] = (calls[i] \ {c}) \cup {Stage(c.write, "answered", row)}]
        /\ row' = row /\ view' = view /\ leaving' = leaving
    BY <1>6 DEF ReRead
  <2> QED
    BY <1>1, <2>1, <2>2 DEF CallInv
<1>7. ASSUME NEW i \in Trackers, NEW c \in calls[i], Conflict(i, c) \/ Fail(i, c)
      PROVE  CallInv'
  <2>1. /\ calls' = [calls EXCEPT ![i] = calls[i] \ {c}]
        /\ row' = row /\ leaving' = leaving
        /\ view' = view \/ view' = [view EXCEPT ![i] = row]
    BY <1>7 DEF Conflict, Fail
  <2> QED
    BY <1>1, <2>1 DEF CallInv
<1>8. ASSUME NEW i \in Trackers, NEW c \in calls[i], Land(i, c) PROVE CallInv'
  <2> DEFINE w == Roll("autoroll", c.answer, c.write.at, c.write.fallen)
             roll == Stage(w, "sent", None)
  <2>1. c.stage = "answered" /\ IsRow(c.answer) /\ IsWrite(c.write)
    BY <1>8 DEF Land, CallInv, Proper
  <2>2. /\ c.answer.version <= row.version
        /\ c.answer.version = row.version => c.answer = row
    BY <2>1 DEF VersionInv, Seen
  <2>3. ASSUME c.write.fallen # None PROVE Proper(roll, row)
    <3>1. c.write.at \in Nat \ {0}
      BY <2>1, <2>3 DEF IsWrite
    <3>2. Sound(c.answer, w)
      BY <2>1, <3>1, RollWrite
    <3>3. roll.stage = "sent" /\ roll.write = w
      BY DEF Stage
    <3> HIDE DEF roll, w
    <3> QED
      BY <2>2, <3>2, <3>3 DEF Proper, Sound
  <2>4. /\ row' = row /\ leaving' = leaving /\ view' = [view EXCEPT ![i] = c.answer]
        /\ \/ calls' = [calls EXCEPT ![i] = (calls[i] \ {c}) \cup {}]
           \/ /\ calls' = [calls EXCEPT ![i] = (calls[i] \ {c}) \cup {roll}]
              /\ c.write.fallen # None
    BY <1>8 DEF Land
  <2> HIDE DEF roll
  <2> QED
    BY <1>1, <2>1, <2>3, <2>4 DEF CallInv
<1>9. CASE CleanupRead
  BY <1>9 DEF CleanupRead, CallInv, IsRow
<1>10. CASE CleanupWrite
  <2> DEFINE kept == Strip(leaving.list)
             turn == Clamp(leaving.turn, Len(kept))
  <2>1. kept \in Seq(Combatant) /\ Len(kept) \in Nat
    BY StrippedRows DEF CallInv
  <2>2. turn \in Nat
    BY <2>1 DEF Clamp, CallInv
  <2>3. /\ view' = view /\ calls' = calls
        /\ leaving'.list = <<>> /\ leaving'.turn = 0
        /\ \/ row' = row
           \/ row' = Row(kept, IF turn = leaving.turn THEN row.turn ELSE turn,
                         row.round, row.version + 1)
    BY <1>10 DEF CleanupWrite, NextVersion
  <2> HIDE DEF kept, turn
  <2>4. CASE row' = row
    BY <2>3, <2>4 DEF CallInv
  <2>5. CASE row' # row
    <3>1. IsRow(row') /\ row'.version = row.version + 1
      BY <1>1, <2>1, <2>2, <2>3, <2>5 DEF CallInv, IsRow, Row
    <3>2. \A j \in Trackers : \A d \in calls[j] : Proper(d, row')
      BY <1>1, <3>1, Outdated DEF CallInv
    <3> QED
      BY <2>3, <3>1, <3>2 DEF CallInv
  <2> QED
    BY <2>4, <2>5
<1> QED
  BY <1>2, <1>3, <1>4, <1>5, <1>6, <1>7, <1>8, <1>9, <1>10 DEF Next

LEMMA Invariance == Spec => [](VersionInv /\ CallInv)
<1>1. Init => VersionInv /\ CallInv
  BY InitVersion, InitCalls
<1>2. VersionInv /\ CallInv /\ [Next]_vars => (VersionInv /\ CallInv)'
  BY VersionStep, CallStep
<1> QED
  BY <1>1, <1>2, PTL DEF Spec

\* Whatever the trackers do to the list and the pointer, every copy of the row
\* is a row: previousTurn never steps before the first round, and no index names
\* a combatant who is not there.
THEOREM TypeCorrect == Spec => []TypeOK
<1>1. CallInv => TypeOK
  BY DEF CallInv, Proper, IsWrite, TypeOK
<1> QED
  BY <1>1, Invariance, PTL

\* "So the turn pointer can never address a missing row": true of every write of
\* the trackers, for any list, since a write that is accepted was computed from
\* the row it replaces.
THEOREM WritesKeepTurnInRangeHolds == Spec => WritesKeepTurnInRange
<1>1. ASSUME CallInv, NEW i \in Trackers, NEW c \in calls[i], Commit(i, c), TurnAddressesRow
      PROVE  TurnAddressesRow'
  <2>1. Sound(row, c.write) /\ Accepts(c.write) /\ row' = Applied(c.write)
    BY <1>1 DEF Commit, CallInv, Proper
  <2> QED
    BY <1>1, <2>1, AppliedRow DEF CallInv, InRange, TurnAddressesRow
<1>2. CallInv => [TurnAddressesRow /\ (\E i \in Trackers : \E c \in calls[i] : Commit(i, c)) =>
                    TurnAddressesRow']_vars
  BY <1>1
<1> QED
  BY <1>2, Invariance, PTL DEF WritesKeepTurnInRange

\* "The turn marker must never jump to whoever re-sorted into its row", for any
\* list and any initiatives: sorting is stable, so a list that is sorted again
\* stays, and the pointer that follows a combatant finds it.
THEOREM EditsKeepTurnHolds == Spec => EditsKeepTurn
<1>1. ASSUME CallInv, Committed({"edit", "append"}), Active(row) # None
      PROVE  Active(row') = Active(row)
  <2>1. PICK i \in Trackers : \E c \in calls[i] : c.write.kind \in {"edit", "append"} /\ Commit(i, c)
    BY <1>1 DEF Committed
  <2>2. PICK c \in calls[i] : c.write.kind \in {"edit", "append"} /\ Commit(i, c)
    BY <2>1
  <2>3. Sound(row, c.write) /\ Accepts(c.write) /\ row' = Applied(c.write)
    BY <1>1, <2>2 DEF Commit, CallInv, Proper
  <2> QED
    BY <1>1, <2>2, <2>3, AppliedRow DEF CallInv
<1>2. CallInv => [Committed({"edit", "append"}) /\ Active(row) # None =>
                    Active(row') = Active(row)]_vars
  BY <1>1
<1> QED
  BY <1>2, Invariance, PTL DEF EditsKeepTurn
=============================================================================

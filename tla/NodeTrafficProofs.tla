-------------------------- MODULE NodeTrafficProofs --------------------------
(***************************************************************************)
(* What NodeTraffic's run checks on two nodes, proved for every number of    *)
(* nodes and inbounds: nothing is counted twice, nothing that is owed is     *)
(* dropped, and no merge deletes a row that is shared.                       *)
(***************************************************************************)
EXTENDS NodeTraffic, SumTheorems

(* A snapshot lists its own node's inbounds, reports the client only under  *)
(* inbounds that hold it, under one of them if there is any, and one of its *)
(* copies is the greatest.                                                  *)
SnapOK(n, s) ==
    /\ \A i \in Inbounds : s.list[i] # "absent" => Home[i] = n
    /\ \A i \in Inbounds : s.copy[i] # None => s.list[i] = "client"
    /\ Copies(s) = {} => Holders(s.list) = {}
    /\ Copies(s) # {} => \E x \in Copies(s) : \A y \in Copies(s) : y =< x
SnapInv == \A n \in Nodes : snap[n] # None => SnapOK(n, snap[n])

(* All the variables but the history, whose type is that of a sum.          *)
StateType ==
    /\ node \in [Inbounds -> Place] /\ central \in [Inbounds -> Place]
    /\ cnt \in [Nodes -> Nat] /\ nodeExp \in [Nodes -> Nat]
    /\ row \in RowType \cup {None}
    /\ base \in [Nodes -> Nat \cup {None}]
    /\ tomb \in BOOLEAN /\ dirty \in [Nodes -> BOOLEAN]
    /\ snap \in [Nodes -> SnapType \cup {None}]
    /\ {bytes, acts} \subseteq Nat

(* What all nodes owe the row, with the snapshots that are under way.       *)
Dues == [n \in Nodes |-> Due(cnt[n], base[n], snap[n])]
DueInv == row # None => row.used + SumOver(Dues) =< bill

(* What a snapshot adds to the row, when the row is not renewed.            *)
More(s, b) == IF b = None THEN 0 ELSE Above(Canon(s), b)

(* What may stand for a snapshot.                                           *)
Sound(s) == Copies(s) = {} \/ /\ \A x \in Copies(s) : x \in Nat
                              /\ \E x \in Copies(s) : \A y \in Copies(s) : y =< x
-----------------------------------------------------------------------------
LEMMA SumIsTotal ==
  ASSUME NEW f
  PROVE  SumOver(f) = Total(f, Nodes)
BY DEF SumOver, Total

LEMMA MaxOf ==
  ASSUME NEW s, Sound(s), Copies(s) # {}
  PROVE  /\ Max(Copies(s)) \in Copies(s) /\ Max(Copies(s)) \in Nat
         /\ \A y \in Copies(s) : y =< Max(Copies(s))
<1>1. \E x \in Copies(s) : \A y \in Copies(s) : x >= y
  BY DEF Sound
<1>2. Max(Copies(s)) \in Copies(s) /\ \A y \in Copies(s) : Max(Copies(s)) >= y
  <2> DEFINE C == Copies(s)
  <2>1. \E x \in C : \A y \in C : x >= y
    BY <1>1
  <2> HIDE DEF C
  <2>2. Max(C) \in C /\ \A y \in C : Max(C) >= y
    BY <2>1 DEF Max
  <2> QED BY <2>2 DEF C
<1> QED BY <1>2 DEF Sound

LEMMA SnapSound ==
  ASSUME NEW n, NEW s \in SnapType, SnapOK(n, s)
  PROVE  Sound(s)
BY NoneAssumption DEF SnapType, SnapOK, Sound, Copies

LEMMA NoneSound == Sound(None) /\ Copies(None) = {}
BY DEF Sound, Copies

(* What a node owes, and how it changes with its counter, its baseline and  *)
(* its snapshot.                                                            *)
LEMMA DueNat ==
  ASSUME NEW c \in Nat, NEW b \in Nat \cup {None}, NEW s, Sound(s)
  PROVE  Due(c, b, s) \in Nat
BY MaxOf, NoneAssumption DEF Due, Above

LEMMA DueGrows ==
  ASSUME NEW c \in Nat, NEW d \in Nat, c =< d,
         NEW b \in Nat \cup {None}, NEW s, Sound(s)
  PROVE  Due(c, b, s) =< Due(d, b, s) /\ Due(d, b, s) =< Due(c, b, s) + (d - c)
BY MaxOf, NoneAssumption DEF Due, Above

LEMMA DueAtFetch ==
  ASSUME NEW c \in Nat, NEW b \in Nat \cup {None}, NEW s, Sound(s),
         Copies(s) # {} => Max(Copies(s)) = c
  PROVE  Due(c, b, s) = Due(c, b, None)
BY NoneSound, NoneAssumption DEF Due, Above

LEMMA DueWithout ==
  ASSUME NEW c \in Nat, NEW b \in Nat \cup {None}, NEW s, Sound(s)
  PROVE  Due(c, b, None) =< Due(c, b, s) /\ Due(c, None, None) =< Due(c, b, s)
BY MaxOf, NoneSound, NoneAssumption DEF Due, Above

LEMMA DueMerged ==
  ASSUME NEW c \in Nat, NEW b \in Nat \cup {None}, NEW s, Sound(s), Copies(s) # {}
  PROVE  Due(c, Canon(s), None) + More(s, b) =< Due(c, b, s)
BY MaxOf, NoneSound, NoneAssumption DEF Due, More, Above, Canon

LEMMA DueSameCopies ==
  ASSUME NEW c, NEW b, NEW s, NEW t, Copies(s) = Copies(t)
  PROVE  Due(c, b, s) = Due(c, b, t)
BY DEF Due

(* Mark changes a flag of the snapshots and nothing else of them.           *)
LEMMA MarkKeeps ==
  ASSUME NEW S, Mark(S), StateType, SnapInv
  PROVE  /\ dirty' \in [Nodes -> BOOLEAN] /\ snap' \in [Nodes -> SnapType \cup {None}]
         /\ \A n \in Nodes : /\ snap'[n] = None <=> snap[n] = None
                             /\ Copies(snap'[n]) = Copies(snap[n])
         /\ SnapInv'
<1>1. PICK unread : snap' = [n \in Nodes |-> IF n \in unread /\ snap[n] # None
                                             THEN [snap[n] EXCEPT !.dirty = TRUE] ELSE snap[n]]
  BY DEF Mark
<1>2. dirty' \in [Nodes -> BOOLEAN]
  BY DEF Mark, StateType
<1>3. ASSUME NEW n \in Nodes
      PROVE  /\ snap'[n] \in SnapType \cup {None}
             /\ snap'[n] = None <=> snap[n] = None
             /\ Copies(snap'[n]) = Copies(snap[n])
             /\ snap'[n] # None => SnapOK(n, snap'[n])
  <2>1. CASE snap[n] = None
    BY <1>1, <2>1
  <2>2. CASE snap[n] # None
    <3>1. snap[n] \in SnapType /\ SnapOK(n, snap[n])
      BY <2>2 DEF StateType, SnapInv
    <3>2. /\ snap'[n] \in SnapType /\ snap'[n] # None
          /\ snap'[n].list = snap[n].list /\ snap'[n].copy = snap[n].copy
      BY <1>1, <3>1, <2>2, NoneAssumption DEF SnapType
    <3>3. Copies(snap'[n]) = Copies(snap[n])
      BY <3>2, <2>2 DEF Copies
    <3>4. SnapOK(n, snap'[n])
      BY <3>1, <3>2, <3>3 DEF SnapOK
    <3> QED BY <2>2, <3>2, <3>3, <3>4
  <2> QED BY <2>1, <2>2
<1>4. snap' \in [Nodes -> SnapType \cup {None}]
  BY <1>1, <1>3
<1>5. SnapInv'
  BY <1>3 DEF SnapInv
<1> QED BY <1>2, <1>3, <1>4, <1>5

(* What a node forgets takes its counter down.                              *)
LEMMA ForgetsKeeps ==
  ASSUME NEW kept, Forgets(kept), StateType
  PROVE  /\ cnt' \in [Nodes -> Nat] /\ nodeExp' \in [Nodes -> Nat]
         /\ \A n \in Nodes : cnt'[n] =< cnt[n]
<1>1. PICK lost : /\ cnt' = [n \in Nodes |-> IF n \in lost THEN 0 ELSE cnt[n]]
                  /\ nodeExp' = [n \in Nodes |-> IF n \in lost THEN Delayed ELSE nodeExp[n]]
  BY DEF Forgets
<1> QED BY <1>1 DEF StateType, Delayed

(* The snapshot of a node has its counter as the greatest of its copies.    *)
LEMMA FetchKeeps ==
  ASSUME NEW n \in Nodes, NEW s \in Snapshot(n), StateType
  PROVE  /\ s \in SnapType /\ SnapOK(n, s)
         /\ Copies(s) # {} => Max(Copies(s)) = cnt[n]
<1> DEFINE holders == Holders(List(n))
<1>1. /\ s.list = List(n) /\ s.exp = nodeExp[n] /\ s.dirty = dirty[n] /\ s.copy \in Reports(n)
      /\ s = [list |-> s.list, copy |-> s.copy, exp |-> s.exp, dirty |-> s.dirty]
  BY DEF Snapshot
<1>2. IF holders = {} THEN s.copy = [i \in Inbounds |-> None]
      ELSE \E lead \in holders, stale \in SUBSET holders :
              s.copy = [i \in Inbounds |-> IF i = lead THEN cnt[n]
                                           ELSE IF i \in stale THEN 0 ELSE None]
  BY <1>1 DEF Reports
<1>3. List(n) \in [Inbounds -> Place] /\ cnt[n] \in Nat
  BY DEF StateType, Place, List
<1>4. s.copy \in [Inbounds -> Nat \cup {None}]
  <2>1. CASE holders = {}
    BY <1>2, <2>1
  <2>2. CASE holders # {}
    <3> HIDE DEF holders
    <3>1. PICK lead \in holders, stale \in SUBSET holders :
              s.copy = [i \in Inbounds |-> IF i = lead THEN cnt[n]
                                           ELSE IF i \in stale THEN 0 ELSE None]
      BY <1>2, <2>2
    <3> QED BY <1>3, <3>1
  <2> QED BY <2>1, <2>2
<1>5. s \in SnapType
  BY <1>1, <1>3, <1>4 DEF StateType, SnapType
<1>6. s # None
  BY <1>5, NoneAssumption
<1>7. Copies(s) = {s.copy[i] : i \in Inbounds} \ {None}
  BY <1>6 DEF Copies
<1>8. \A i \in Inbounds : s.copy[i] # None => s.list[i] = "client"
  <2>1. \A i \in holders : List(n)[i] = "client"
    BY DEF Holders
  <2> HIDE DEF holders
  <2> QED BY <1>1, <1>2, <2>1
<1>9. \A i \in Inbounds : s.list[i] # "absent" => Home[i] = n
  BY <1>1 DEF List
<1>10. CASE holders = {}
  <2>1. Copies(s) = {}
    BY <1>2, <1>7, <1>10
  <2> QED BY <1>1, <1>5, <1>8, <1>9, <1>10, <2>1 DEF SnapOK
<1>11. CASE holders # {}
  <2>1. cnt[n] \in Copies(s) /\ \A y \in Copies(s) : y = cnt[n] \/ y = 0
    <3>1. holders \subseteq Inbounds
      BY DEF Holders
    <3> HIDE DEF holders
    <3> QED BY <1>2, <1>3, <1>7, <1>11, <3>1, NoneAssumption
  <2>2. \A y \in Copies(s) : y =< cnt[n] /\ y \in Nat
    BY <1>3, <2>1
  <2>3. SnapOK(n, s)
    BY <1>8, <1>9, <2>1, <2>2 DEF SnapOK
  <2>4. Max(Copies(s)) = cnt[n]
    <3>1. Sound(s)
      BY <1>5, <2>3, SnapSound
    <3>2. Max(Copies(s)) \in Nat /\ cnt[n] =< Max(Copies(s)) /\ Max(Copies(s)) =< cnt[n]
      BY <2>1, <2>2, <3>1, MaxOf
    <3> QED BY <1>3, <3>2
  <2> QED BY <1>5, <2>3, <2>4
<1> QED BY <1>10, <1>11

(* An inbound that reports the client is listed and holds it, so a merge    *)
(* with statistics has copies, and one with copies has a report.            *)
LEMMA ReportsAreCopies ==
  ASSUME NEW n \in Nodes, snap[n] # None, StateType, SnapInv
  PROVE  /\ snap[n] \in SnapType /\ Sound(snap[n])
         /\ Stats(n) \subseteq Inbounds /\ Listed(n) \subseteq On(n) /\ On(n) \subseteq Inbounds
         /\ Stats(n) # {} => Reported(n) # {}
         /\ Reported(n) # {} <=> Copies(snap[n]) # {}
         /\ Reported(n) = {} => Holders(snap[n].list) = {}
         /\ Reported(n) # {} => Canon(snap[n]) \in Nat
<1> DEFINE s == snap[n]
<1>1. s \in SnapType /\ SnapOK(n, s)
  BY DEF StateType, SnapInv
<1>2. Sound(s)
  BY <1>1, SnapSound
<1>3. Stats(n) \subseteq Reported(n) /\ Reported(n) \subseteq Listed(n)
      /\ Listed(n) \subseteq On(n) /\ On(n) \subseteq Inbounds
  BY DEF Stats, Reported, Listed, On
<1>4. Copies(s) = {s.copy[i] : i \in Inbounds} \ {None}
  BY DEF Copies
<1>5. Reported(n) # {} => Copies(s) # {}
  BY <1>3, <1>4 DEF Reported
<1>6. ASSUME Copies(s) # {}  PROVE  Reported(n) # {}
  <2>1. PICK i \in Inbounds : s.copy[i] # None
    BY <1>4, <1>6
  <2>2. s.list[i] = "client" /\ Home[i] = n
    BY <1>1, <2>1 DEF SnapOK
  <2> QED BY <2>1, <2>2 DEF Reported, Listed, On
<1>7. Reported(n) = {} => Holders(s.list) = {}
  BY <1>1, <1>6 DEF SnapOK
<1>8. Reported(n) # {} => Canon(s) \in Nat
  BY <1>2, <1>5, MaxOf DEF Canon
<1> QED BY <1>1, <1>2, <1>3, <1>5, <1>6, <1>7, <1>8

LEMMA CountedType ==
  ASSUME NEW n \in Nodes, snap[n] # None, StateType, SnapInv, Reported(n) # {},
         NEW r \in RowType, NEW b \in Nat \cup {None}, NEW here
  PROVE  /\ Counted(r, snap[n], b, here) \in RowType
         /\ b # None /\ here /\ Renewed(r, snap[n], b)
            => /\ Counted(r, snap[n], b, here).used = Canon(snap[n])
               /\ Counted(r, snap[n], b, here).exp > r.exp
         /\ ~(b # None /\ here /\ Renewed(r, snap[n], b))
            => Counted(r, snap[n], b, here).used = r.used + More(snap[n], b)
<1>1. Canon(snap[n]) \in Nat /\ snap[n].exp \in Nat
  BY ReportsAreCopies DEF SnapType
<1>2. MergeExpiry(r.exp, snap[n].exp) \in Nat
  BY <1>1 DEF MergeExpiry, RowType
<1>3. More(snap[n], b) \in Nat
  BY <1>1 DEF More, Above
<1>4. CASE b # None /\ here /\ Renewed(r, snap[n], b)
  <2>1. Counted(r, snap[n], b, here) = [r EXCEPT !.used = Canon(snap[n]), !.exp = snap[n].exp]
    BY <1>4 DEF Counted
  <2> QED BY <1>1, <1>4, <2>1 DEF RowType, Renewed
<1>5. CASE ~(b # None /\ here /\ Renewed(r, snap[n], b))
  <2>1. Counted(r, snap[n], b, here)
          = [r EXCEPT !.used = r.used + More(snap[n], b), !.exp = MergeExpiry(r.exp, snap[n].exp)]
    BY <1>5 DEF Counted, More
  <2> DEFINE u == r.used + More(snap[n], b)
             e == MergeExpiry(r.exp, snap[n].exp)
  <2>2. u \in Nat /\ e \in Nat
    BY <1>2, <1>3 DEF RowType
  <2>3. [r EXCEPT !.used = u, !.exp = e] \in RowType
        /\ [r EXCEPT !.used = u, !.exp = e].used = u
    <3> HIDE DEF u, e
    <3> QED BY <2>2 DEF RowType
  <2> QED BY <1>5, <2>1, <2>3
<1> QED BY <1>4, <1>5

LEMMA DuesAreNat ==
  ASSUME NEW c \in [Nodes -> Nat], NEW b \in [Nodes -> Nat \cup {None}],
         NEW s \in [Nodes -> SnapType \cup {None}],
         \A n \in Nodes : s[n] # None => SnapOK(n, s[n])
  PROVE  /\ \A n \in Nodes : Sound(s[n]) /\ Due(c[n], b[n], s[n]) \in Nat
         /\ SumOver([n \in Nodes |-> Due(c[n], b[n], s[n])]) \in Nat
<1>1. \A n \in Nodes : Sound(s[n])
  BY SnapSound, NoneSound
<1>2. \A n \in Nodes : Due(c[n], b[n], s[n]) \in Nat
  BY <1>1, DueNat
<1> DEFINE f == [n \in Nodes |-> Due(c[n], b[n], s[n])]
<1>3. \A n \in Nodes : f[n] \in Nat
  BY <1>2
<1>4. SumOver(f) \in Nat
  <2> HIDE DEF f
  <2> QED BY <1>3, FiniteAssumption, TotalNat, SumIsTotal
<1> QED BY <1>1, <1>2, <1>4

(* The merge leaves rows, baselines and inbounds of their types.            *)
LEMMA MergeKeeps ==
  ASSUME NEW n \in Nodes, Merge(n), StateType, SnapInv
  PROVE  /\ central' \in [Inbounds -> Place]
         /\ row' \in RowType \cup {None}
         /\ base' \in [Nodes -> Nat \cup {None}]
<1>1. snap[n] # None /\ (Account(n) \/ Create(n)) /\ central' = After(n)
  BY DEF Merge
<1>2. snap[n] \in SnapType /\ Stats(n) \subseteq Inbounds
      /\ (Stats(n) # {} => Reported(n) # {} /\ Canon(snap[n]) \in Nat)
  BY <1>1, ReportsAreCopies
<1>3. central' \in [Inbounds -> Place]
  BY <1>1 DEF After, StateType, Place
<1>4. CASE Account(n)
  <2>1. base' \in [Nodes -> Nat \cup {None}]
    <3>1. base' = NoBase \/ base' = base \/ base' = [base EXCEPT ![n] = None]
          \/ (Stats(n) # {} /\ base' = [base EXCEPT ![n] = Canon(snap[n])])
      BY <1>4 DEF Account
    <3> QED BY <1>2, <3>1 DEF StateType, NoBase
  <2>2. row' \in RowType \cup {None}
    <3>1. row' = None \/ row' = row
          \/ (row # None /\ Stats(n) # {}
              /\ \E here \in BOOLEAN : row' = Counted(row, snap[n], base[n], here))
      <4>1. (Home[row.at] = n /\ central[row.at] # "absent") \in BOOLEAN
        OBVIOUS
      <4> QED BY <1>4, <4>1 DEF Account
    <3>2. row # None => row \in RowType
      BY DEF StateType
    <3>3. base[n] \in Nat \cup {None}
      BY DEF StateType
    <3>4. CASE row' = None \/ row' = row
      BY <3>2, <3>4
    <3>5. CASE row # None /\ Stats(n) # {}
               /\ \E here \in BOOLEAN : row' = Counted(row, snap[n], base[n], here)
      <4>1. \A here \in BOOLEAN : Counted(row, snap[n], base[n], here) \in RowType
        BY <1>1, <1>2, <3>2, <3>3, <3>5, CountedType
      <4> QED BY <3>5, <4>1
    <3> QED BY <3>1, <3>4, <3>5
  <2> QED BY <1>3, <2>1, <2>2
<1>5. CASE Create(n)
  <2>1. PICK i \in Stats(n) :
           row' = IF Orphaned(n) THEN None
                  ELSE [used |-> IF i \in Fresh(n) /\ ~tomb THEN Canon(snap[n]) ELSE 0,
                        exp |-> snap[n].exp, at |-> i]
    BY <1>5 DEF Create
  <2>2. i \in Inbounds /\ Canon(snap[n]) \in Nat /\ snap[n].exp \in Nat
    BY <1>2, <2>1 DEF SnapType
  <2>3. row' \in RowType \cup {None}
    BY <2>1, <2>2 DEF RowType
  <2>4. base' \in [Nodes -> Nat \cup {None}]
    BY <1>5, <2>2 DEF Create, StateType, NoBase
  <2> QED BY <1>3, <2>3, <2>4
<1> QED BY <1>1, <1>4, <1>5

LEMMA TypeStep ==
  ASSUME StateType, SnapInv, [Next]_vars
  PROVE  StateType' /\ SnapInv'
<1>1. ASSUME NEW n \in Nodes, Traffic(n)  PROVE  StateType' /\ SnapInv'
  BY <1>1 DEF Traffic, StateType, SnapInv, Delayed
<1>2. ASSUME NEW n \in Nodes, ResetOnNode(n)  PROVE  StateType' /\ SnapInv'
  BY <1>2 DEF ResetOnNode, Local, StateType, SnapInv
<1>3. ASSUME NEW n \in Nodes, RenewOnNode(n)  PROVE  StateType' /\ SnapInv'
  BY <1>3 DEF RenewOnNode, Local, StateType, SnapInv
<1>4. ASSUME NEW n \in Nodes, Reconcile(n)  PROVE  StateType' /\ SnapInv'
  <2>1. cnt' \in [Nodes -> Nat] /\ nodeExp' \in [Nodes -> Nat]
    BY <1>4, ForgetsKeeps DEF Reconcile
  <2> QED BY <1>4, <2>1 DEF Reconcile, StateType, SnapInv
<1>5. ASSUME NEW n \in Nodes, Fetch(n)  PROVE  StateType' /\ SnapInv'
  <2>1. PICK s \in Snapshot(n) : snap' = [snap EXCEPT ![n] = s]
    BY <1>5 DEF Fetch
  <2>2. s \in SnapType /\ SnapOK(n, s)
    BY FetchKeeps
  <2>3. SnapInv'
    BY <2>1, <2>2 DEF SnapInv, StateType
  <2> QED BY <1>5, <2>1, <2>2, <2>3 DEF Fetch, StateType
<1>6. ASSUME NEW n \in Nodes, Merge(n)  PROVE  StateType' /\ SnapInv'
  <2>1. /\ central' \in [Inbounds -> Place] /\ row' \in RowType \cup {None}
        /\ base' \in [Nodes -> Nat \cup {None}]
    BY <1>6, MergeKeeps
  <2> QED BY <1>6, <2>1 DEF Merge, StateType, SnapInv
<1>7. ASSUME NEW i \in Inbounds, EditOnNode(i)  PROVE  StateType' /\ SnapInv'
  <2>1. cnt' \in [Nodes -> Nat] /\ nodeExp' \in [Nodes -> Nat]
    BY <1>7, ForgetsKeeps DEF EditOnNode
  <2> QED BY <1>7, <2>1 DEF EditOnNode, Local, StateType, SnapInv
<1>8. ASSUME NEW i \in Inbounds, Attach(i)  PROVE  StateType' /\ SnapInv'
  <2>1. dirty' \in [Nodes -> BOOLEAN] /\ snap' \in [Nodes -> SnapType \cup {None}] /\ SnapInv'
    BY <1>8, MarkKeeps DEF Attach
  <2>2. row' \in RowType \cup {None}
    <3>1. row # None => row \in RowType
      BY DEF StateType
    <3> QED BY <1>8, <3>1 DEF Attach, RowType, Delayed
  <2>3. node' \in [Inbounds -> Place] /\ nodeExp' \in [Nodes -> Nat] /\ cnt' = cnt
    <3>1. row # None => row.exp \in Nat
      BY DEF StateType, RowType
    <3> QED BY <1>8, <3>1, HomeAssumption DEF Attach, nodeVars, StateType, Delayed, Place
  <2>4. central' \in [Inbounds -> Place] /\ base' = base /\ tomb' = tomb
        /\ bytes' = bytes /\ acts' = acts + 1
    BY <1>8 DEF Attach, Call, StateType, Place
  <2> QED BY <2>1, <2>2, <2>3, <2>4 DEF StateType
<1>9. ASSUME NEW i \in Inbounds, Detach(i)  PROVE  StateType' /\ SnapInv'
  <2>1. dirty' \in [Nodes -> BOOLEAN] /\ snap' \in [Nodes -> SnapType \cup {None}] /\ SnapInv'
    BY <1>9, MarkKeeps DEF Detach
  <2>2. cnt' \in [Nodes -> Nat] /\ nodeExp' \in [Nodes -> Nat]
    BY <1>9, ForgetsKeeps DEF Detach, nodeVars, StateType
  <2> QED BY <1>9, <2>1, <2>2 DEF Detach, Call, StateType, nodeVars, Place
<1>10. ASSUME NEW i \in Inbounds, ResetClient(i)  PROVE  StateType' /\ SnapInv'
  <2>1. dirty' \in [Nodes -> BOOLEAN] /\ snap' \in [Nodes -> SnapType \cup {None}] /\ SnapInv'
    BY <1>10, MarkKeeps DEF ResetClient
  <2>2. row' \in RowType \cup {None} /\ base' \in [Nodes -> Nat \cup {None}]
    BY <1>10 DEF ResetClient, StateType, RowType, NoBase
  <2> QED BY <1>10, <2>1, <2>2 DEF ResetClient, Call, StateType
<1>11. CASE DeleteClient
  <2>1. dirty' \in [Nodes -> BOOLEAN] /\ snap' \in [Nodes -> SnapType \cup {None}] /\ SnapInv'
    BY <1>11, MarkKeeps DEF DeleteClient
  <2>2. cnt' \in [Nodes -> Nat] /\ nodeExp' \in [Nodes -> Nat]
    BY <1>11, ForgetsKeeps DEF DeleteClient
  <2>3. node' \in [Inbounds -> Place] /\ central' \in [Inbounds -> Place]
    BY <1>11 DEF DeleteClient, StateType, Place
  <2> QED BY <1>11, <2>1, <2>2, <2>3 DEF DeleteClient, Call, StateType, NoBase
<1>12. CASE BulkReset
  BY <1>12 DEF BulkReset, Call, StateType, RowType, NoBase, SnapInv
<1>13. CASE ExpireTomb
  BY <1>13 DEF ExpireTomb, StateType, SnapInv
<1>14. CASE UNCHANGED vars
  BY <1>14 DEF vars, StateType, SnapInv
<1> QED
  BY <1>1, <1>2, <1>3, <1>4, <1>5, <1>6, <1>7, <1>8, <1>9, <1>10, <1>11, <1>12, <1>13, <1>14
  DEF Next
-----------------------------------------------------------------------------
(* How a step changes what all nodes owe: by what it changes of one of them. *)
LEMMA DuesChange ==
  ASSUME StateType, SnapInv, StateType', SnapInv',
         NEW m, NEW d \in Int, m \in Nodes \/ d =< 0,
         \A n \in Nodes :
            Due(cnt'[n], base'[n], snap'[n]) + (IF n = m THEN d ELSE 0)
               =< Due(cnt[n], base[n], snap[n])
  PROVE  /\ SumOver(Dues) \in Nat /\ SumOver(Dues') \in Nat
         /\ SumOver(Dues') + d =< SumOver(Dues)
<1>1. /\ \A n \in Nodes : Due(cnt[n], base[n], snap[n]) \in Nat
      /\ SumOver(Dues) \in Nat
  BY DuesAreNat DEF StateType, SnapInv, Dues
<1>2. /\ \A n \in Nodes : Due(cnt'[n], base'[n], snap'[n]) \in Nat
      /\ SumOver(Dues') \in Nat
  BY DuesAreNat DEF StateType, SnapInv, Dues
<1>3. /\ \A n \in Nodes : Dues[n] \in Int /\ Dues'[n] \in Int
      /\ \A n \in Nodes : n # m => Dues'[n] =< Dues[n]
      /\ m \in Nodes => Dues'[m] + d =< Dues[m]
  BY <1>1, <1>2 DEF Dues
<1>4. Total(Dues', Nodes) + d =< Total(Dues, Nodes)
  BY <1>3, FiniteAssumption, TotalChange
<1> QED BY <1>1, <1>2, <1>4, SumIsTotal

LEMMA Quiet ==
  ASSUME StateType, SnapInv, StateType', SnapInv', bill \in Nat, DueInv,
         bill' = bill,
         row' # None => row # None /\ row'.used = row.used,
         \A n \in Nodes : Due(cnt'[n], base'[n], snap'[n]) =< Due(cnt[n], base[n], snap[n])
  PROVE  bill' \in Nat /\ DueInv'
<1>1. /\ SumOver(Dues) \in Nat /\ SumOver(Dues') \in Nat
      /\ SumOver(Dues') + 0 =< SumOver(Dues)
  <2>1. \A n \in Nodes :
            Due(cnt'[n], base'[n], snap'[n]) + (IF n = None THEN 0 ELSE 0)
               =< Due(cnt[n], base[n], snap[n])
    <3>1. \A n \in Nodes : Due(cnt'[n], base'[n], snap'[n]) \in Nat
      BY DuesAreNat DEF StateType, SnapInv
    <3> QED BY <3>1
  <2> QED BY <2>1, DuesChange
<1>2. row # None => row.used \in Nat
  BY DEF StateType, RowType
<1> QED BY <1>1, <1>2 DEF DueInv

LEMMA Restarted ==
  ASSUME StateType', SnapInv', NEW u \in Nat, Restart(u), row' # None => row'.used = u
  PROVE  bill' \in Nat /\ DueInv'
<1>1. SumOver(Dues') \in Nat
  BY DuesAreNat DEF StateType, SnapInv, Dues
<1>2. bill' = u + SumOver(Dues')
  BY DEF Restart, Dues
<1> QED BY <1>1, <1>2 DEF DueInv

(* What is used is at most what was due: a merge adds to the row what it    *)
(* takes from the node's debt.                                              *)
LEMMA DueAtMerge ==
  ASSUME StateType, SnapInv, StateType', SnapInv', bill \in Nat, DueInv,
         NEW n \in Nodes, Merge(n)
  PROVE  bill' \in Nat /\ DueInv'
<1>1. /\ snap[n] # None /\ snap' = [snap EXCEPT ![n] = None] /\ cnt' = cnt
      /\ Account(n) \/ Create(n)
  BY DEF Merge
<1>2. /\ snap[n] \in SnapType /\ Sound(snap[n])
      /\ Stats(n) # {} => Reported(n) # {}
      /\ Reported(n) # {} => Copies(snap[n]) # {} /\ Canon(snap[n]) \in Nat
  BY <1>1, ReportsAreCopies
<1>3. cnt[n] \in Nat /\ base[n] \in Nat \cup {None} /\ snap'[n] = None
  BY <1>1 DEF StateType
<1>4. ASSUME \A m \in Nodes : base'[m] # base[m] => m = n /\ base'[m] = None
      PROVE  \A m \in Nodes : Due(cnt'[m], base'[m], snap'[m]) =< Due(cnt[m], base[m], snap[m])
  <2> SUFFICES ASSUME NEW m \in Nodes
               PROVE  Due(cnt'[m], base'[m], snap'[m]) =< Due(cnt[m], base[m], snap[m])
    OBVIOUS
  <2>1. CASE m # n
    <3>1. base'[m] = base[m] /\ snap'[m] = snap[m] /\ cnt'[m] = cnt[m]
      BY <1>1, <1>4, <2>1 DEF StateType
    <3>2. Due(cnt[m], base[m], snap[m]) \in Nat
      BY DuesAreNat DEF StateType, SnapInv
    <3> QED BY <3>1, <3>2
  <2>2. CASE m = n
    BY <1>1, <1>2, <1>3, <1>4, <2>2, DueWithout
  <2> QED BY <2>1, <2>2
<1>5. CASE Account(n) /\ row' = None
  <2>1. bill' = bill
    BY <1>5 DEF Account
  <2> QED BY <1>5, <2>1 DEF DueInv
<1>6. CASE Account(n) /\ row' # None /\ Stats(n) = {}
  <2>1. row' = row /\ bill' = bill /\ ~Orphaned(n)
    BY <1>6 DEF Account
  <2>2. base' = base \/ base' = [base EXCEPT ![n] = None]
    BY <1>6, <2>1 DEF Account
  <2>3. \A m \in Nodes : base'[m] # base[m] => m = n /\ base'[m] = None
    BY <2>2 DEF StateType
  <2> QED BY <1>4, <1>6, <2>1, <2>3, Quiet
<1>7. CASE Account(n) /\ row' # None /\ Stats(n) # {}
  <2> DEFINE here == Home[row.at] = n /\ central[row.at] # "absent"
             renewed == base[n] # None /\ here /\ Renewed(row, snap[n], base[n])
  <2>1. /\ row # None /\ row' = Counted(row, snap[n], base[n], here)
        /\ IF renewed THEN Restart(row'.used) ELSE bill' = bill
        /\ base' = [base EXCEPT ![n] = Canon(snap[n])]
    BY <1>2, <1>7 DEF Account, Unseen, BaseGone
  <2>2. row \in RowType /\ row.used \in Nat
    BY <2>1 DEF StateType, RowType
  <2>3. CASE renewed
    <3>1. row'.used \in Nat
      BY <1>7 DEF StateType, RowType
    <3> QED BY <2>1, <2>3, <3>1, Restarted
  <2>4. CASE ~renewed
    <3>1. row'.used = row.used + More(snap[n], base[n]) /\ bill' = bill
      BY <1>1, <1>2, <1>3, <1>7, <2>1, <2>2, <2>4, CountedType
    <3>2. More(snap[n], base[n]) \in Nat
      BY <1>2, <1>3, <1>7, NoneAssumption DEF More, Above
    <3>3. ASSUME NEW m \in Nodes
          PROVE  Due(cnt'[m], base'[m], snap'[m]) + (IF m = n THEN More(snap[n], base[n]) ELSE 0)
                    =< Due(cnt[m], base[m], snap[m])
      <4>1. CASE m # n
        <5>1. base'[m] = base[m] /\ snap'[m] = snap[m] /\ cnt'[m] = cnt[m]
          BY <1>1, <2>1, <4>1 DEF StateType
        <5>2. Due(cnt[m], base[m], snap[m]) \in Nat
          BY DuesAreNat DEF StateType, SnapInv
        <5> QED BY <4>1, <5>1, <5>2
      <4>2. CASE m = n
        <5>1. base'[n] = Canon(snap[n])
          BY <2>1 DEF StateType
        <5> QED BY <1>1, <1>2, <1>3, <1>7, <4>2, <5>1, DueMerged
      <4> QED BY <4>1, <4>2
    <3>4. /\ SumOver(Dues) \in Nat /\ SumOver(Dues') \in Nat
          /\ SumOver(Dues') + More(snap[n], base[n]) =< SumOver(Dues)
      BY <3>2, <3>3, DuesChange
    <3> QED BY <2>1, <2>2, <3>1, <3>2, <3>4 DEF DueInv
  <2> QED BY <2>3, <2>4
<1>8. CASE Create(n)
  <2>1. IF row' = None THEN bill' = bill ELSE Restart(row'.used)
    BY <1>8 DEF Create
  <2>2. row' # None => row'.used \in Nat
    BY DEF StateType, RowType
  <2>3. CASE row' = None
    BY <2>1, <2>3 DEF DueInv
  <2>4. CASE row' # None
    BY <2>1, <2>2, <2>4, Restarted
  <2> QED BY <2>3, <2>4
<1> QED BY <1>1, <1>5, <1>6, <1>7, <1>8

LEMMA DueStep ==
  ASSUME StateType, SnapInv, StateType', SnapInv', bill \in Nat, DueInv, [Next]_vars
  PROVE  bill' \in Nat /\ DueInv'
<1>1. /\ \A n \in Nodes : /\ cnt[n] \in Nat /\ base[n] \in Nat \cup {None}
                          /\ Sound(snap[n]) /\ Due(cnt[n], base[n], snap[n]) \in Nat
      /\ \A n \in Nodes : cnt'[n] \in Nat /\ Sound(snap'[n])
  BY DuesAreNat DEF StateType, SnapInv
<1>2. ASSUME base' = base,
             \A n \in Nodes : cnt'[n] =< cnt[n] /\ Copies(snap'[n]) = Copies(snap[n])
      PROVE  \A n \in Nodes : Due(cnt'[n], base'[n], snap'[n]) =< Due(cnt[n], base[n], snap[n])
  <2> SUFFICES ASSUME NEW n \in Nodes
               PROVE  Due(cnt'[n], base'[n], snap'[n]) =< Due(cnt[n], base[n], snap[n])
    OBVIOUS
  <2>1. Due(cnt'[n], base'[n], snap'[n]) = Due(cnt'[n], base[n], snap[n])
    BY <1>2, DueSameCopies
  <2>2. Due(cnt'[n], base[n], snap[n]) =< Due(cnt[n], base[n], snap[n])
    BY <1>1, <1>2, DueGrows
  <2> QED BY <2>1, <2>2
<1>3. ASSUME bill' = bill, row' = row, base' = base, snap' = snap,
             \A n \in Nodes : cnt'[n] =< cnt[n]
      PROVE  bill' \in Nat /\ DueInv'
  BY <1>2, <1>3, Quiet
<1>4. row # None => row.used \in Nat
  BY DEF StateType, RowType
<1>5. ASSUME NEW n \in Nodes, Traffic(n)  PROVE  bill' \in Nat /\ DueInv'
  <2>1. /\ cnt' = [cnt EXCEPT ![n] = cnt[n] + 1]
        /\ row' = row /\ base' = base /\ snap' = snap /\ bill' = bill + 1
    BY <1>5 DEF Traffic
  <2>2. ASSUME NEW m \in Nodes
        PROVE  Due(cnt'[m], base'[m], snap'[m]) + (IF m = n THEN -1 ELSE 0)
                  =< Due(cnt[m], base[m], snap[m])
    <3>1. CASE m = n
      <4>1. cnt'[m] = cnt[m] + 1
        BY <2>1, <3>1 DEF StateType
      <4>2. Due(cnt[m] + 1, base[m], snap[m]) \in Nat
        <5>1. cnt[m] + 1 \in Nat /\ base[m] \in Nat \cup {None} /\ Sound(snap[m])
          BY <1>1
        <5> QED BY <5>1, DueNat
      <4>3. Due(cnt[m] + 1, base[m], snap[m]) =< Due(cnt[m], base[m], snap[m]) + 1
        <5>1. cnt[m] \in Nat /\ cnt[m] + 1 \in Nat /\ cnt[m] =< cnt[m] + 1 /\ (cnt[m] + 1) - cnt[m] = 1
          BY <1>1
        <5> QED BY <1>1, <5>1, DueGrows
      <4> QED BY <1>1, <2>1, <3>1, <4>1, <4>2, <4>3
    <3>2. CASE m # n
      <4>1. cnt'[m] = cnt[m]
        BY <2>1, <3>2 DEF StateType
      <4> QED BY <1>1, <2>1, <3>2, <4>1
    <3> QED BY <3>1, <3>2
  <2>3. /\ SumOver(Dues) \in Nat /\ SumOver(Dues') \in Nat
        /\ SumOver(Dues') + (-1) =< SumOver(Dues)
    BY <2>2, DuesChange
  <2> QED BY <1>4, <2>1, <2>3 DEF DueInv
<1>6. ASSUME NEW n \in Nodes, ResetOnNode(n)  PROVE  bill' \in Nat /\ DueInv'
  <2>1. \A m \in Nodes : cnt'[m] =< cnt[m]
    BY <1>1, <1>6 DEF ResetOnNode, StateType
  <2> QED BY <1>3, <1>6, <2>1 DEF ResetOnNode, Local
<1>7. ASSUME NEW n \in Nodes, RenewOnNode(n)  PROVE  bill' \in Nat /\ DueInv'
  <2>1. \A m \in Nodes : cnt'[m] =< cnt[m]
    BY <1>1, <1>7 DEF RenewOnNode, StateType
  <2> QED BY <1>3, <1>7, <2>1 DEF RenewOnNode, Local
<1>8. ASSUME NEW n \in Nodes, Reconcile(n)  PROVE  bill' \in Nat /\ DueInv'
  BY <1>3, <1>8, ForgetsKeeps DEF Reconcile
<1>9. ASSUME NEW n \in Nodes, Fetch(n)  PROVE  bill' \in Nat /\ DueInv'
  <2>1. PICK s \in Snapshot(n) : snap' = [snap EXCEPT ![n] = s]
    BY <1>9 DEF Fetch
  <2>2. s \in SnapType /\ SnapOK(n, s) /\ (Copies(s) # {} => Max(Copies(s)) = cnt[n])
    BY FetchKeeps
  <2>3. /\ snap[n] = None /\ cnt' = cnt /\ base' = base /\ row' = row /\ bill' = bill
        /\ snap'[n] = s /\ \A m \in Nodes \ {n} : snap'[m] = snap[m]
    BY <1>9, <2>1 DEF Fetch, StateType
  <2>4. Due(cnt[n], base[n], s) = Due(cnt[n], base[n], None)
    BY <1>1, <2>2, SnapSound, DueAtFetch
  <2>5. \A m \in Nodes : Due(cnt'[m], base'[m], snap'[m]) =< Due(cnt[m], base[m], snap[m])
    <3> SUFFICES ASSUME NEW m \in Nodes
                 PROVE  Due(cnt'[m], base'[m], snap'[m]) =< Due(cnt[m], base[m], snap[m])
      OBVIOUS
    <3>1. Due(cnt'[m], base'[m], snap'[m]) = Due(cnt[m], base[m], snap[m])
      BY <2>3, <2>4
    <3> QED BY <1>1, <3>1
  <2> QED BY <2>3, <2>5, Quiet
<1>10. ASSUME NEW n \in Nodes, Merge(n)  PROVE  bill' \in Nat /\ DueInv'
  BY <1>10, DueAtMerge
<1>11. ASSUME NEW i \in Inbounds, EditOnNode(i)  PROVE  bill' \in Nat /\ DueInv'
  BY <1>3, <1>11, ForgetsKeeps DEF EditOnNode, Local
<1>12. ASSUME NEW i \in Inbounds, Attach(i)  PROVE  bill' \in Nat /\ DueInv'
  <2>1. CASE row = None
    <3>1. row' = [used |-> 0, exp |-> Delayed, at |-> i] /\ Restart(0)
      BY <1>12, <2>1 DEF Attach
    <3>2. row'.used = 0
      BY <3>1
    <3> QED BY <3>1, <3>2, Restarted
  <2>2. CASE row # None
    <3>1. row' = [row EXCEPT !.at = i] /\ bill' = bill /\ base' = base /\ cnt' = cnt
      BY <1>12, <2>2 DEF Attach, nodeVars
    <3>2. row'.used = row.used
      BY <2>2, <3>1 DEF StateType, RowType
    <3>3. \A n \in Nodes : Copies(snap'[n]) = Copies(snap[n])
      BY <1>12, MarkKeeps DEF Attach
    <3>4. \A n \in Nodes : cnt'[n] =< cnt[n]
      BY <1>1, <3>1
    <3>5. \A n \in Nodes : Due(cnt'[n], base'[n], snap'[n]) =< Due(cnt[n], base[n], snap[n])
      BY <1>2, <3>1, <3>3, <3>4
    <3> QED BY <2>2, <3>1, <3>2, <3>5, Quiet
  <2> QED BY <2>1, <2>2
<1>13. ASSUME NEW i \in Inbounds, Detach(i)  PROVE  bill' \in Nat /\ DueInv'
  <2>1. row' = row /\ bill' = bill /\ base' = base
    BY <1>13 DEF Detach
  <2>2. \A n \in Nodes : Copies(snap'[n]) = Copies(snap[n])
    BY <1>13, MarkKeeps DEF Detach
  <2>3. \A n \in Nodes : cnt'[n] =< cnt[n]
    <3>1. cnt' = cnt \/ Forgets(node')
      BY <1>13 DEF Detach, nodeVars
    <3> QED BY <1>1, <3>1, ForgetsKeeps
  <2>4. \A n \in Nodes : Due(cnt'[n], base'[n], snap'[n]) =< Due(cnt[n], base[n], snap[n])
    BY <1>2, <2>1, <2>2, <2>3
  <2> QED BY <2>1, <2>4, Quiet
<1>14. ASSUME NEW i \in Inbounds, ResetClient(i)  PROVE  bill' \in Nat /\ DueInv'
  <2>1. row' = [row EXCEPT !.used = 0] /\ Restart(0) /\ row # None
    BY <1>14 DEF ResetClient
  <2>2. row'.used = 0
    BY <2>1 DEF StateType, RowType
  <2> QED BY <2>1, <2>2, Restarted
<1>15. CASE DeleteClient
  BY <1>15 DEF DeleteClient, DueInv
<1>16. CASE BulkReset
  <2>1. row' = [row EXCEPT !.used = 0] /\ Restart(0) /\ row # None
    BY <1>16 DEF BulkReset
  <2>2. row'.used = 0
    BY <2>1 DEF StateType, RowType
  <2> QED BY <2>1, <2>2, Restarted
<1>17. CASE ExpireTomb
  <2>1. \A n \in Nodes : cnt'[n] =< cnt[n]
    BY <1>1, <1>17 DEF ExpireTomb
  <2> QED BY <1>3, <1>17, <2>1 DEF ExpireTomb
<1>18. CASE UNCHANGED vars
  <2>1. \A n \in Nodes : cnt'[n] =< cnt[n]
    BY <1>1, <1>18 DEF vars
  <2> QED BY <1>3, <1>18, <2>1 DEF vars
<1> QED
  BY <1>5, <1>6, <1>7, <1>8, <1>9, <1>10, <1>11, <1>12, <1>13, <1>14, <1>15, <1>16, <1>17, <1>18
  DEF Next
-----------------------------------------------------------------------------
IInv == StateType /\ SnapInv /\ bill \in Nat /\ DueInv

LEMMA Start_IInv == Init => IInv
<1> SUFFICES ASSUME Init  PROVE  IInv
  OBVIOUS
<1>1. StateType
  <2>1. /\ node \in [Inbounds -> Place] /\ central \in [Inbounds -> Place]
        /\ cnt \in [Nodes -> Nat] /\ nodeExp \in [Nodes -> Nat]
    BY DEF Init, Start, Place, Delayed
  <2>2. /\ base \in [Nodes -> Nat \cup {None}] /\ snap \in [Nodes -> SnapType \cup {None}]
        /\ dirty \in [Nodes -> BOOLEAN] /\ tomb \in BOOLEAN
    BY DEF Init, Start, NoBase
  <2>3. row \in RowType \cup {None} /\ {bytes, acts} \subseteq Nat
    BY DEF Init, Start
  <2> QED BY <2>1, <2>2, <2>3 DEF StateType
<1>2. SnapInv
  BY DEF Init, Start, SnapInv
<1>3. bill \in Nat /\ DueInv
  BY DEF Init, Start, DueInv
<1> QED BY <1>1, <1>2, <1>3 DEF IInv

LEMMA Step_IInv == IInv /\ [Next]_vars => IInv'
<1> SUFFICES ASSUME IInv, [Next]_vars  PROVE  IInv'
  OBVIOUS
<1>1. StateType' /\ SnapInv'
  BY TypeStep DEF IInv
<1>2. bill' \in Nat /\ DueInv'
  BY <1>1, DueStep DEF IInv
<1> QED BY <1>1, <1>2 DEF IInv

(* The invariant from which the properties follow: the types, what a        *)
(* snapshot may hold, and that what is used with what all nodes still owe   *)
(* is at most the history.                                                  *)
THEOREM Invariant == Spec => []IInv
BY Start_IInv, Step_IInv, PTL DEF Spec

(* Every variable keeps its type.                                           *)
THEOREM TypeCorrect == Spec => []TypeOK
<1>1. IInv => TypeOK
  BY DEF IInv, StateType, TypeOK
<1> QED BY <1>1, Invariant, PTL

(* No byte is added to the row twice, nor one from before a restart: what is *)
(* used is at most what was due at the last restart and what was sent since. *)
THEOREM NothingCountedTwice == Spec => []NoDoubleCount
<1>1. IInv => NoDoubleCount
  <2> SUFFICES ASSUME IInv, row # None  PROVE  row.used =< bill
    BY DEF NoDoubleCount
  <2>1. SumOver(Dues) \in Nat
    BY DuesAreNat DEF IInv, StateType, SnapInv, Dues
  <2>2. row.used \in Nat /\ row.used + SumOver(Dues) =< bill /\ bill \in Nat
    BY DEF IInv, StateType, RowType, DueInv
  <2> QED BY <2>1, <2>2
<1> QED BY <1>1, Invariant, PTL
-----------------------------------------------------------------------------
LEMMA OwedNat ==
  ASSUME NEW c \in [Nodes -> Nat], NEW b \in [Nodes -> Nat \cup {None}]
  PROVE  /\ Owed(c, b) \in Nat
         /\ \A n \in Nodes : (IF b[n] = None THEN 0 ELSE Above(c[n], b[n])) \in Nat
<1> DEFINE f == [n \in Nodes |-> IF b[n] = None THEN 0 ELSE Above(c[n], b[n])]
<1>1. \A n \in Nodes : f[n] \in Nat
  BY DEF Above
<1>2. SumOver(f) \in Nat
  <2> HIDE DEF f
  <2> QED BY <1>1, FiniteAssumption, TotalNat, SumIsTotal
<1> QED BY <1>1, <1>2 DEF Owed

(* Of two states of counters and baselines, the second owes as much as the  *)
(* first, but for d that a node n was relieved of.                          *)
LEMMA OwedKept ==
  ASSUME NEW c \in [Nodes -> Nat], NEW b \in [Nodes -> Nat \cup {None}],
         NEW e \in [Nodes -> Nat], NEW a \in [Nodes -> Nat \cup {None}],
         \A m \in Nodes : c[m] =< e[m],
         NEW n \in Nodes, NEW d \in Nat,
         \A m \in Nodes : m # n => a[m] = b[m],
         (IF b[n] = None THEN 0 ELSE Above(c[n], b[n]))
            =< (IF a[n] = None THEN 0 ELSE Above(e[n], a[n])) + d
  PROVE  Owed(c, b) =< Owed(e, a) + d
<1> DEFINE f == [m \in Nodes |-> IF a[m] = None THEN 0 ELSE Above(e[m], a[m])]
           g == [m \in Nodes |-> IF b[m] = None THEN 0 ELSE Above(c[m], b[m])]
<1>1. \A m \in Nodes : f[m] \in Int /\ g[m] \in Int
  BY OwedNat
<1>2. \A m \in Nodes : m # n => g[m] =< f[m]
  BY DEF Above
<1>3. g[n] + (-d) =< f[n]
  BY <1>1
<1>4. Total(g, Nodes) + (-d) =< Total(f, Nodes)
  <2> HIDE DEF f, g
  <2> QED BY <1>1, <1>2, <1>3, FiniteAssumption, TotalChange
<1>5. Total(f, Nodes) = Owed(e, a) /\ Total(g, Nodes) = Owed(c, b)
  BY SumIsTotal DEF Owed
<1>6. Owed(e, a) \in Nat /\ Owed(c, b) \in Nat
  BY OwedNat
<1> QED BY <1>4, <1>5, <1>6

LEMMA OwedSame ==
  ASSUME StateType, SnapInv, StateType', base' = base,
         \A n \in Nodes : cnt'[n] >= cnt[n]
  PROVE  Owed(cnt', base') >= Owed(cnt, base)
<1>1. \A n \in Nodes : cnt[n] \in Nat /\ cnt'[n] \in Nat
  BY DEF StateType
<1>2. Owed(cnt, base) \in Nat /\ Owed(cnt', base') \in Nat
  BY OwedNat DEF StateType
<1>3. CASE Nodes = {}
  <2>1. cnt' = cnt
    BY <1>3 DEF StateType
  <2> QED BY <1>2, <2>1
<1>4. CASE Nodes # {}
  <2>1. PICK n \in Nodes : TRUE
    BY <1>4
  <2>2. (IF base[n] = None THEN 0 ELSE Above(cnt[n], base[n]))
           =< (IF base'[n] = None THEN 0 ELSE Above(cnt'[n], base'[n])) + 0
    BY <1>1, <2>1 DEF Above, StateType
  <2>3. Owed(cnt, base) =< Owed(cnt', base') + 0
    BY <1>1, <2>1, <2>2, OwedKept DEF StateType
  <2> QED BY <1>2, <2>3
<1> QED BY <1>3, <1>4

(* Nothing that a node owes is dropped by a merge that reports the client.  *)
LEMMA LosslessMerge ==
  ASSUME StateType, SnapInv, StateType', NEW n \in Nodes, Merge(n),
         row # None, row' # None, Copies(snap[n]) # {}
  PROVE  \/ row'.used + Owed(cnt', base') >= row.used + Owed(cnt, base)
         \/ row'.exp > row.exp
<1>1. snap[n] # None /\ cnt' = cnt /\ Account(n)
  BY DEF Merge, Create
<1>2. /\ snap[n] \in SnapType /\ Sound(snap[n])
      /\ Reported(n) # {} /\ Canon(snap[n]) \in Nat
  BY <1>1, ReportsAreCopies
<1>3. ~Orphaned(n) /\ ~Unseen(n)
  BY <1>1, <1>2 DEF Account, Unseen, BaseGone
<1>4. row \in RowType /\ row.used \in Nat /\ row'.used \in Nat
      /\ cnt[n] \in Nat /\ base[n] \in Nat \cup {None}
  BY DEF StateType, RowType
<1>5. Owed(cnt, base) \in Nat /\ Owed(cnt', base') \in Nat
  BY OwedNat DEF StateType
<1>6. CASE Stats(n) = {}
  <2>1. row' = row /\ base' = base
    BY <1>1, <1>2, <1>3, <1>6 DEF Account, BaseGone
  <2> QED BY <1>1, <1>4, <1>5, <2>1
<1>7. CASE Stats(n) # {}
  <2> DEFINE here == Home[row.at] = n /\ central[row.at] # "absent"
             renewed == base[n] # None /\ here /\ Renewed(row, snap[n], base[n])
  <2>1. /\ row' = Counted(row, snap[n], base[n], here)
        /\ base' = [base EXCEPT ![n] = Canon(snap[n])]
    BY <1>1, <1>2, <1>3, <1>7 DEF Account, BaseGone
  <2>2. CASE renewed
    BY <1>1, <1>2, <1>4, <2>1, <2>2, CountedType
  <2>3. CASE ~renewed
    <3>1. row'.used = row.used + More(snap[n], base[n])
      BY ZenonT(60), <1>1, <1>2, <1>4, <2>1, <2>3, CountedType
    <3>2. More(snap[n], base[n]) \in Nat
      BY <1>2, <1>4 DEF More, Above
    <3>3. base'[n] = Canon(snap[n]) /\ \A m \in Nodes : m # n => base'[m] = base[m]
      BY <2>1 DEF StateType
    <3>4. (IF base[n] = None THEN 0 ELSE Above(cnt[n], base[n]))
             =< (IF base'[n] = None THEN 0 ELSE Above(cnt'[n], base'[n])) + More(snap[n], base[n])
      BY <1>1, <1>2, <1>4, <3>3, NoneAssumption DEF Above, More
    <3>5. \A m \in Nodes : cnt[m] =< cnt'[m]
      BY <1>1 DEF StateType
    <3>6. Owed(cnt, base) =< Owed(cnt', base') + More(snap[n], base[n])
      BY <3>2, <3>3, <3>4, <3>5, OwedKept DEF StateType
    <3> QED BY <1>4, <1>5, <3>1, <3>2, <3>6
  <2> QED BY <2>2, <2>3
<1> QED BY <1>6, <1>7

LEMMA LosslessStep ==
  ASSUME IInv, [Next]_vars
  PROVE  Lossless
<1> SUFFICES ASSUME row # None, row' # None,
                    \A n \in Nodes : /\ cnt'[n] >= cnt[n]
                                     /\ snap'[n] = None /\ snap[n] # None => Copies(snap[n]) # {}
             PROVE  \/ row'.used + Owed(cnt', base') >= row.used + Owed(cnt, base)
                    \/ row'.used = 0 /\ base' = NoBase
                    \/ row'.exp > row.exp
  BY DEF Lossless
<1>1. StateType /\ SnapInv /\ StateType'
  BY TypeStep DEF IInv
<1>2. row.used \in Nat /\ row'.used \in Nat /\ row \in RowType
  BY <1>1 DEF StateType, RowType
<1>3. Owed(cnt, base) \in Nat /\ Owed(cnt', base') \in Nat
  BY <1>1, OwedNat DEF StateType
<1>4. ASSUME row'.used = row.used, base' = base
      PROVE  row'.used + Owed(cnt', base') >= row.used + Owed(cnt, base)
  BY <1>1, <1>2, <1>3, <1>4, OwedSame
<1>5. ASSUME NEW n \in Nodes,
             Traffic(n) \/ ResetOnNode(n) \/ RenewOnNode(n) \/ Reconcile(n) \/ Fetch(n)
      PROVE  row'.used = row.used /\ base' = base
  BY <1>5 DEF Traffic, ResetOnNode, RenewOnNode, Reconcile, Fetch, Local
<1>6. ASSUME NEW n \in Nodes, Merge(n)
      PROVE  \/ row'.used + Owed(cnt', base') >= row.used + Owed(cnt, base)
             \/ row'.exp > row.exp
  <2>1. snap[n] # None /\ snap'[n] = None
    BY <1>1, <1>6 DEF Merge, StateType
  <2> QED BY <1>1, <1>6, <2>1, LosslessMerge
<1>7. ASSUME NEW i \in Inbounds, EditOnNode(i) \/ Detach(i)
      PROVE  row'.used = row.used /\ base' = base
  BY <1>7 DEF EditOnNode, Detach, Local
<1>8. ASSUME NEW i \in Inbounds, Attach(i)  PROVE  row'.used = row.used /\ base' = base
  <2>1. row' = [row EXCEPT !.at = i] /\ base' = base
    BY <1>8 DEF Attach
  <2> QED BY <1>2, <2>1 DEF RowType
<1>9. ASSUME NEW i \in Inbounds, ResetClient(i)  PROVE  row'.used = 0 /\ base' = NoBase
  <2>1. row' = [row EXCEPT !.used = 0] /\ base' = NoBase
    BY <1>9 DEF ResetClient
  <2> QED BY <1>2, <2>1 DEF RowType
<1>10. CASE DeleteClient
  BY <1>10 DEF DeleteClient
<1>11. CASE BulkReset
  <2>1. row' = [row EXCEPT !.used = 0] /\ base' = NoBase
    BY <1>11 DEF BulkReset
  <2> QED BY <1>2, <2>1 DEF RowType
<1>12. CASE ExpireTomb \/ UNCHANGED vars
  BY <1>4, <1>12 DEF ExpireTomb, vars
<1> QED
  BY <1>4, <1>5, <1>6, <1>7, <1>8, <1>9, <1>10, <1>11, <1>12 DEF Next

(* Nothing that a node owes the row is dropped while the node reports the   *)
(* client, but by a reset or a renewal.                                     *)
THEOREM NothingDropped == Spec => Conserved
<1>1. IInv /\ [Next]_vars => [Lossless]_vars
  BY LosslessStep
<1> QED BY <1>1, Invariant, PTL DEF Spec, Conserved
-----------------------------------------------------------------------------
LEMMA SharedMerge ==
  ASSUME StateType, SnapInv, NEW n \in Nodes, Merge(n), row # None, Shared
  PROVE  row' # None
<1>1. snap[n] # None /\ central' = After(n) /\ Account(n)
  BY DEF Merge, Create
<1>2. PICK i \in Inbounds : central[i] = "client" /\ After(n)[i] = "client"
  BY <1>1 DEF Shared, Holders
<1>3. /\ snap[n] \in SnapType
      /\ Stats(n) # {} => Reported(n) # {}
      /\ Reported(n) = {} => Holders(snap[n].list) = {}
  BY <1>1, ReportsAreCopies
<1>4. ~Orphaned(n)
  BY <1>2 DEF Orphaned, Holders
<1>5. ASSUME Alone(row.at)  PROVE  ~Swept(n) /\ ~Unseen(n)
  <2>1. i = row.at
    BY <1>2, <1>5 DEF Alone, Holders
  <2>2. ~Swept(n)
    BY <1>2, <2>1 DEF Swept, After
  <2>3. ASSUME Unseen(n)  PROVE  FALSE
    <3>1. Reported(n) = {} /\ ~snap[n].dirty /\ i \in Listed(n)
      BY <2>1, <2>3 DEF Unseen, BaseGone, Known
    <3>2. snap[n].list[i] # "client"
      BY <1>3, <3>1 DEF Holders
    <3> QED BY <1>2, <3>1, <3>2 DEF After
  <2> QED BY <2>2, <2>3
<1>6. CASE Stats(n) = {}
  BY <1>1, <1>4, <1>5, <1>6 DEF Account
<1>7. CASE Stats(n) # {}
  <2>1. PICK here \in BOOLEAN : row' = Counted(row, snap[n], base[n], here)
    <3>1. (Home[row.at] = n /\ central[row.at] # "absent") \in BOOLEAN
      OBVIOUS
    <3> QED BY <1>1, <1>4, <1>5, <1>7, <3>1 DEF Account
  <2>2. row \in RowType /\ base[n] \in Nat \cup {None}
    BY DEF StateType
  <2>3. row' \in RowType
    BY <1>1, <1>3, <1>7, <2>1, <2>2, CountedType
  <2> QED BY <2>3, NoneAssumption
<1> QED BY <1>6, <1>7

LEMMA SharedStep ==
  ASSUME IInv, [Next]_vars, row # None, Shared
  PROVE  row' # None
<1>1. StateType /\ SnapInv /\ row \in RowType
  BY DEF IInv, StateType
<1>2. ASSUME NEW n \in Nodes, Merge(n)  PROVE  row' # None
  BY <1>1, <1>2, SharedMerge
<1>3. ASSUME NEW i \in Inbounds, Attach(i) \/ ResetClient(i)  PROVE  row' # None
  <2>1. row' = [row EXCEPT !.at = i] \/ row' = [row EXCEPT !.used = 0]
    BY <1>3 DEF Attach, ResetClient
  <2>2. row' \in RowType
    BY <1>1, <2>1 DEF RowType
  <2> QED BY <2>2, NoneAssumption
<1>4. CASE DeleteClient
  BY <1>4 DEF DeleteClient, Shared, Holders
<1>5. CASE BulkReset
  <2>1. row' \in RowType
    BY <1>1, <1>5 DEF BulkReset, RowType
  <2> QED BY <2>1, NoneAssumption
<1>6. ASSUME NEW n \in Nodes,
             Traffic(n) \/ ResetOnNode(n) \/ RenewOnNode(n) \/ Reconcile(n) \/ Fetch(n)
      PROVE  row' # None
  BY <1>6 DEF Traffic, ResetOnNode, RenewOnNode, Reconcile, Fetch, Local
<1>7. ASSUME NEW i \in Inbounds, EditOnNode(i) \/ Detach(i)  PROVE  row' # None
  BY <1>7 DEF EditOnNode, Detach, Local
<1>8. CASE ExpireTomb \/ UNCHANGED vars
  BY <1>8 DEF ExpireTomb, vars
<1> QED
  BY <1>2, <1>3, <1>4, <1>5, <1>6, <1>7, <1>8 DEF Next

(* No step deletes the row of a client that some inbound of the panel has   *)
(* before and after it: the sweep of one inbound asks the others.           *)
THEOREM SharedRowKept == Spec => SharedKept
<1>1. IInv /\ [Next]_vars => [row # None /\ Shared => row' # None]_vars
  BY SharedStep
<1> QED BY <1>1, Invariant, PTL DEF Spec, SharedKept
=============================================================================

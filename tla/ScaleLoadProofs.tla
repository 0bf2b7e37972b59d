-------------------------- MODULE ScaleLoadProofs --------------------------
(***************************************************************************)
(* Proofs about module ScaleLoad: its types, and why a scale holds what its *)
(* last list says, for any workplaces, scales, goods and numbers.           *)
(***************************************************************************)
EXTENDS ScaleLoad, Recursions, SequenceTheorems, TLAPS

(***************************************************************************)
(* Between the erasing and the upload of a scale nobody doubts, the scale   *)
(* is empty and the workplace that erased it is alone with it; the file it  *)
(* will send is made from its own list.                                     *)
(***************************************************************************)

\* The part of the types the argument needs.
Tables ==
    /\ at \in [Workplaces -> {"idle", "connect", "read", "build", "erase", "upload", "close"}]
    /\ todo = [w \in Workplaces |-> todo[w]]
    /\ l_tovar = [w \in Workplaces |-> l_tovar[w]]
    /\ critical = [w \in Workplaces |-> critical[w]]
    /\ tovar_dat = [w \in Workplaces |-> tovar_dat[w]]
    /\ plu = [s \in ToSet(Scales) |-> plu[s]]
    /\ last = [s \in ToSet(Scales) |-> last[s]]

Loading(w, s) == at[w] = "upload" /\ Current(w) = s

FileFromList ==
    \A w \in Workplaces : at[w] \in {"erase", "upload"} =>
        tovar_dat[w] = HavingPlu(Reached(l_tovar[w], critical[w]))

AloneAndEmpty ==
    \A s \in ToSet(Scales) \ doubt : \A w \in Workplaces : Loading(w, s) =>
        /\ plu[s] = Empty
        /\ \A v \in Workplaces : Loading(v, s) => v = w

HeldList ==
    \A s \in ToSet(Scales) \ doubt :
        (\A w \in Workplaces : ~Loading(w, s)) => plu[s] = Loaded(Empty, HavingPlu(last[s]))

LoadInv == Tables /\ FileFromList /\ AloneAndEmpty /\ HeldList

LEMMA LoadInit == Init => LoadInv
BY DEF Init, LoadInv, Tables, FileFromList, AloneAndEmpty, HeldList

\* What the steps of one workplace leave to the others.
LEMMA Others ==
  ASSUME LoadInv, NEW w \in Workplaces,
         Go(w) \/ LibraConnect(w) \/ LibraTovarAdd(w) \/ BuildFile(w) \/ Erase(w) \/ Upload(w)
           \/ LibraDisconnect(w) \/ Raise(w)
  PROVE  /\ \A v \in Workplaces \ {w} :
              /\ at'[v] = at[v] /\ todo'[v] = todo[v] /\ l_tovar'[v] = l_tovar[v]
              /\ critical'[v] = critical[v] /\ tovar_dat'[v] = tovar_dat[v]
         /\ Tables'
<1> USE DEF LoadInv, Tables, Goto, history
<1>1. CASE Go(w) \/ LibraDisconnect(w)
  BY <1>1 DEF Go, LibraDisconnect
<1>2. CASE LibraConnect(w) \/ LibraTovarAdd(w)
  BY <1>2 DEF LibraConnect, LibraTovarAdd
<1>3. CASE BuildFile(w)
  BY <1>3 DEF BuildFile
<1>4. CASE Erase(w) \/ Raise(w)
  BY <1>4 DEF Erase, Raise
<1>5. CASE Upload(w)
  BY <1>5 DEF Upload
<1> QED
  BY <1>1, <1>2, <1>3, <1>4, <1>5

\* A step that leaves the scales alone and has w neither begin nor end an upload.
LEMMA Elsewhere ==
  ASSUME LoadInv, NEW w \in Workplaces,
         UNCHANGED <<plu, doubt, last>>, Tables',
         at[w] # "upload", at'[w] # "upload",
         \A v \in Workplaces \ {w} : at'[v] = at[v] /\ todo'[v] = todo[v]
  PROVE  AloneAndEmpty' /\ HeldList'
<1>1. \A v \in Workplaces, s \in ToSet(Scales) : Loading(v, s)' <=> Loading(v, s)
  BY DEF Loading, Current
<1> QED
  BY <1>1 DEF LoadInv, AloneAndEmpty, HeldList

LEMMA FileKept ==
  ASSUME LoadInv, NEW w \in Workplaces, Tables',
         at'[w] \notin {"erase", "upload"},
         \A v \in Workplaces \ {w} :
            /\ at'[v] = at[v] /\ l_tovar'[v] = l_tovar[v]
            /\ critical'[v] = critical[v] /\ tovar_dat'[v] = tovar_dat[v]
  PROVE  FileFromList'
BY DEF LoadInv, FileFromList

LEMMA EraseHolds ==
  ASSUME LoadInv, NEW w \in Workplaces, Erase(w)
  PROVE  LoadInv'
<1> DEFINE s == Current(w)
<1>1. /\ at[w] = "erase" /\ at'[w] = "upload" /\ Tables'
      /\ UNCHANGED <<todo, l_tovar, critical, tovar_dat, last>>
      /\ \A v \in Workplaces \ {w} : at'[v] = at[v]
  BY Others DEF Erase, Goto, LoadInv, Tables
<1>2. FileFromList'
  BY <1>1 DEF LoadInv, FileFromList
<1>3. \A r \in ToSet(Scales) : r # s =>
         plu'[r] = plu[r] /\ (r \notin doubt' => r \notin doubt)
  BY DEF Erase, LoadInv, Tables
<1>4. \A v \in Workplaces, r \in ToSet(Scales) :
         Loading(v, r)' <=> Loading(v, r) \/ (v = w /\ r = s)
  BY <1>1 DEF Loading, Current
<1>5. s \in ToSet(Scales) /\ s \notin doubt' =>
         plu'[s] = Empty /\ \A v \in Workplaces \ {w} : ~Loading(v, s)
  BY DEF Erase, Overlaps, Loading, LoadInv, Tables
<1> HIDE DEF s
<1>6. AloneAndEmpty'
  <2> SUFFICES ASSUME NEW r \in ToSet(Scales), r \notin doubt',
                      NEW v \in Workplaces, Loading(v, r)'
               PROVE  plu'[r] = Empty /\ \A u \in Workplaces : Loading(u, r)' => u = v
    BY DEF AloneAndEmpty
  <2>1. CASE r = s
    BY <1>4, <1>5, <2>1
  <2>2. CASE r # s
    BY <1>3, <1>4, <2>2 DEF LoadInv, AloneAndEmpty
  <2> QED
    BY <2>1, <2>2
<1>7. HeldList'
  <2> SUFFICES ASSUME NEW r \in ToSet(Scales), r \notin doubt',
                      \A v \in Workplaces : ~Loading(v, r)'
               PROVE  plu'[r] = Loaded(Empty, HavingPlu(last[r]))
    BY <1>1 DEF HeldList
  <2>1. r # s
    BY <1>4
  <2> QED
    BY <1>3, <1>4, <2>1 DEF LoadInv, HeldList
<1> QED
  BY <1>1, <1>2, <1>6, <1>7 DEF LoadInv

LEMMA UploadHolds ==
  ASSUME LoadInv, NEW w \in Workplaces, Upload(w)
  PROVE  LoadInv'
<1> DEFINE s == Current(w)
<1>1. /\ at[w] = "upload" /\ at'[w] = "close" /\ Tables'
      /\ UNCHANGED <<todo, l_tovar, critical, tovar_dat>>
      /\ \A v \in Workplaces \ {w} : at'[v] = at[v]
  BY Others DEF Upload, Goto, LoadInv, Tables
<1>2. FileFromList'
  BY <1>1, FileKept
<1>3. \A r \in ToSet(Scales) : r # s =>
         plu'[r] = plu[r] /\ last'[r] = last[r] /\ (r \notin doubt' => r \notin doubt)
  BY DEF Upload, LoadInv, Tables
<1>4. \A v \in Workplaces, r \in ToSet(Scales) : Loading(v, r)' <=> Loading(v, r) /\ v # w
  BY <1>1 DEF Loading, Current
<1>5. Loading(w, s)
  BY <1>1 DEF Loading
<1>6. s \in ToSet(Scales) /\ s \notin doubt' =>
         /\ s \notin doubt
         /\ plu'[s] = Loaded(Empty, HavingPlu(last'[s]))
         /\ \A v \in Workplaces \ {w} : ~Loading(v, s)
  <2> SUFFICES ASSUME s \in ToSet(Scales), s \notin doubt'
               PROVE  /\ s \notin doubt
                      /\ plu'[s] = Loaded(Empty, HavingPlu(last'[s]))
                      /\ \A v \in Workplaces \ {w} : ~Loading(v, s)
    OBVIOUS
  <2>1. s \notin doubt /\ critical[w] # 2 /\ plu' = [plu EXCEPT ![s] = Loaded(@, tovar_dat[w])]
    BY DEF Upload
  <2>2. plu[s] = Empty /\ \A v \in Workplaces \ {w} : ~Loading(v, s)
    BY <1>5, <2>1 DEF LoadInv, AloneAndEmpty
  <2>3. plu'[s] = Loaded(Empty, tovar_dat[w])
    BY <2>1, <2>2 DEF LoadInv, Tables
  <2>4. last'[s] = l_tovar[w]
    BY DEF Upload, LoadInv, Tables
  <2>5. tovar_dat[w] = HavingPlu(l_tovar[w])
    BY <1>1, <2>1 DEF LoadInv, FileFromList, Reached
  <2> QED
    BY <2>1, <2>2, <2>3, <2>4, <2>5
<1> HIDE DEF s
<1>7. AloneAndEmpty'
  <2> SUFFICES ASSUME NEW r \in ToSet(Scales), r \notin doubt',
                      NEW v \in Workplaces, Loading(v, r)'
               PROVE  plu'[r] = Empty /\ \A u \in Workplaces : Loading(u, r)' => u = v
    BY DEF AloneAndEmpty
  <2>1. r # s
    BY <1>4, <1>6
  <2> QED
    BY <1>3, <1>4, <2>1 DEF LoadInv, AloneAndEmpty
<1>8. HeldList'
  <2> SUFFICES ASSUME NEW r \in ToSet(Scales), r \notin doubt',
                      \A v \in Workplaces : ~Loading(v, r)'
               PROVE  plu'[r] = Loaded(Empty, HavingPlu(last'[r]))
    BY DEF HeldList
  <2>1. CASE r = s
    BY <1>6, <2>1
  <2>2. CASE r # s
    <3>1. \A v \in Workplaces : ~Loading(v, r)
      BY <1>4, <1>5, <2>2 DEF Loading
    <3> QED
      BY <1>3, <2>2, <3>1 DEF LoadInv, HeldList
  <2> QED
    BY <2>1, <2>2
<1> QED
  BY <1>1, <1>2, <1>7, <1>8 DEF LoadInv

LEMMA RaiseHolds ==
  ASSUME LoadInv, NEW w \in Workplaces, Raise(w)
  PROVE  LoadInv'
<1>1. /\ at'[w] = "idle" /\ Tables'
      /\ UNCHANGED <<plu, last, l_tovar, critical, tovar_dat>>
      /\ \A v \in Workplaces \ {w} : at'[v] = at[v] /\ todo'[v] = todo[v]
  BY Others DEF Raise, Goto, LoadInv, Tables
<1>2. FileFromList'
  BY <1>1, FileKept
<1>3. \A v \in Workplaces, r \in ToSet(Scales) : Loading(v, r)' <=> Loading(v, r) /\ v # w
  BY <1>1 DEF Loading, Current
<1>4. \A r \in ToSet(Scales) : r \notin doubt' => r \notin doubt /\ ~Loading(w, r)
  BY DEF Raise, Loading
<1>5. AloneAndEmpty'
  BY <1>1, <1>3, <1>4 DEF LoadInv, AloneAndEmpty, Empty
<1>6. HeldList'
  BY <1>1, <1>3, <1>4 DEF LoadInv, HeldList
<1> QED
  BY <1>1, <1>2, <1>5, <1>6 DEF LoadInv

LEMMA LoadStep == LoadInv /\ [Next]_vars => LoadInv'
<1> SUFFICES ASSUME LoadInv, [Next]_vars PROVE LoadInv'
  OBVIOUS
<1>1. CASE UNCHANGED vars \/ \E g \in Goods, a \in Arts \cup {NoArt} : ChangeWares(g, a)
  <2>1. UNCHANGED <<plu, work, history>>
    BY <1>1 DEF vars, ChangeWares
  <2>2. UNCHANGED <<plu, doubt, last, at, todo, l_tovar, critical, tovar_dat>>
    BY <2>1 DEF work, history
  <2> QED
    BY <2>2 DEF LoadInv, Tables, FileFromList, AloneAndEmpty, HeldList, Loading, Current
<1>2. ASSUME NEW w \in Workplaces, Go(w) \/ LibraConnect(w) \/ LibraTovarAdd(w) \/ LibraDisconnect(w)
      PROVE  LoadInv'
  <2>1. /\ at[w] # "upload" /\ at'[w] \notin {"erase", "upload"}
        /\ UNCHANGED <<plu, doubt, last>>
    BY <1>2 DEF Go, LibraConnect, LibraTovarAdd, LibraDisconnect, Goto, LoadInv, Tables, history
  <2> QED
    BY <1>2, <2>1, Others, Elsewhere, FileKept DEF LoadInv
<1>3. ASSUME NEW w \in Workplaces, BuildFile(w) PROVE LoadInv'
  <2>1. /\ at[w] = "build" /\ at'[w] = "erase" /\ UNCHANGED <<plu, doubt, last, l_tovar, critical>>
        /\ tovar_dat'[w] = HavingPlu(Reached(l_tovar[w], critical[w]))
    BY <1>3 DEF BuildFile, Goto, LoadInv, Tables, history
  <2>2. FileFromList'
    BY <1>3, <2>1, Others DEF LoadInv, FileFromList
  <2> QED
    BY <1>3, <2>1, <2>2, Others, Elsewhere DEF LoadInv
<1> QED
  BY <1>1, <1>2, <1>3, EraseHolds, UploadHolds, RaiseHolds DEF Next

\* A scale that was loaded and that nobody is loading sells exactly the goods of the
\* last list read for it, unless a failure or an overlap has touched it since it was
\* erased.
THEOREM ScaleHoldsItsListCorrect == Spec => []ScaleHoldsItsList
<1>1. LoadInv => ScaleHoldsItsList
  BY DEF LoadInv, HeldList, Loading, ScaleHoldsItsList
<1> QED
  BY <1>1, LoadInit, LoadStep, PTL DEF Spec

-----------------------------------------------------------------------------
(***************************************************************************)
(* The types.                                                               *)
(***************************************************************************)

\* Append, for the provers a name of its own.
More(u, e) == Append(u, e)

\* The members of a list that are in a set are a list again, and not an empty
\* one when there are any.
LEMMA AmongTyped ==
  ASSUME NEW T, NEW list \in Seq(T), NEW S
  PROVE  /\ Among(list, S) \in Seq(T \cap S)
         /\ (\E i \in 1 .. Len(list) : list[i] \in S) => Among(list, S) # <<>>
<1> DEFINE n == Len(list)
           U == T \cap S
           Rule(f) == [j \in 0 .. n |->
                        IF j = 0 THEN <<>>
                        ELSE IF list[j] \in S THEN Append(f[j - 1], list[j])
                        ELSE f[j - 1]]
           kept == CHOOSE f : f = Rule(f)
           v(f, j) == IF j = 0 THEN <<>>
                      ELSE IF list[j] \in S THEN More(f[j - 1], list[j])
                      ELSE f[j - 1]
           g == [p \in Nat \X Seq(U) |->
                   IF p[1] \in 1 .. n /\ list[p[1]] \in S THEN More(p[2], list[p[1]]) ELSE p[2]]
<1>1. n \in Nat /\ \A j \in 1 .. n : list[j] \in T
  BY LenProperties, ElementOfSeq
<1>2. Among(list, S) = kept[n]
  BY DEF Among
<1>3. \A f : Rule(f) = [j \in 0 .. n |-> v(f, j)]
  BY DEF More
<1>4. \A u \in Seq(U), e \in U : More(u, e) \in Seq(U) /\ More(u, e) # <<>>
  <2> SUFFICES ASSUME NEW u \in Seq(U), NEW e \in U
               PROVE  More(u, e) \in Seq(U) /\ More(u, e) # <<>>
    OBVIOUS
  <2> HIDE DEF U
  <2>1. More(u, e) \in Seq(U) /\ Len(More(u, e)) = Len(u) + 1 /\ Len(u) \in Nat
    BY AppendProperties, LenProperties DEF More
  <2>2. Len(<<>>) = 0
    BY EmptySeq
  <2> QED
    BY <2>1, <2>2
<1> HIDE DEF n, Rule
<1>5. g \in Rules(Seq(U))
  <2>1. \A p \in Nat \X Seq(U) :
           (IF p[1] \in 1 .. n /\ list[p[1]] \in S THEN More(p[2], list[p[1]]) ELSE p[2]) \in Seq(U)
    BY <1>1, <1>4
  <2> QED
    BY <2>1 DEF Rules
<1>6. <<>> \in Seq(U)
  BY EmptySeq
<1>7. PICK f \in [0 .. n -> Seq(U)] : Follows(f, <<>>, g, n)
  <2> HIDE DEF g
  <2> QED
    BY <1>1, <1>5, <1>6, Recursion
<1>8. ASSUME NEW j \in 1 .. n
      PROVE  f[j] = IF list[j] \in S THEN More(f[j - 1], list[j]) ELSE f[j - 1]
  <2>1. f[j] = g[<<j, f[j - 1]>>]
    BY <1>7 DEF Follows
  <2>2. <<j, f[j - 1]>> \in Nat \X Seq(U)
    BY <1>1
  <2> QED
    BY <2>1, <2>2
<1> HIDE DEF g
<1>9. \A j \in 0 .. n : f[j] = v(f, j)
  <2> TAKE j \in 0 .. n
  <2>1. CASE j = 0
    BY <1>7, <2>1 DEF Follows
  <2>2. CASE j # 0
    <3>1. j \in 1 .. n
      BY <1>1, <2>2
    <3>2. f[j] = IF list[j] \in S THEN More(f[j - 1], list[j]) ELSE f[j - 1]
      BY <1>8, <3>1
    <3> QED
      BY <2>2, <3>2, Zenon
  <2> QED
    BY <2>1, <2>2
<1> HIDE DEF v
<1>10. f = Rule(f)
  <2>1. f = [j \in 0 .. n |-> v(f, j)]
    BY <1>9
  <2> QED
    BY <1>3, <2>1
<1>11. kept = Rule(kept)
  BY <1>10
<1> HIDE DEF kept
<1>12. \A j \in 0 .. n : kept[j] = v(kept, j)
  BY <1>3, <1>11
<1>13. /\ kept[0] = <<>>
       /\ \A j \in 1 .. n :
             kept[j] = IF list[j] \in S THEN More(kept[j - 1], list[j]) ELSE kept[j - 1]
  BY <1>1, <1>12 DEF v
<1> DEFINE Good(j) == /\ kept[j] \in Seq(U)
                      /\ (\E i \in 1 .. j : list[i] \in S) => kept[j] # <<>>
           G == {j \in 0 .. n : Good(j)}
<1> HIDE DEF U
<1>14. 0 \in G
  <2>1. kept[0] \in Seq(U)
    BY <1>6, <1>13
  <2>2. ~ \E k \in 1 .. 0 : list[k] \in S
    OBVIOUS
  <2>3. 0 \in 0 .. n
    BY <1>1
  <2> QED
    BY <2>1, <2>2, <2>3
<1>15. \A j \in 0 .. n : j \in G /\ j < n => j + 1 \in G
  <2> SUFFICES ASSUME NEW j \in 0 .. n, j \in G, j < n PROVE j + 1 \in G
    OBVIOUS
  <2>0. kept[j] \in Seq(U) /\ ((\E k \in 1 .. j : list[k] \in S) => kept[j] # <<>>)
    OBVIOUS
  <2>1. j + 1 \in 1 .. n /\ j + 1 - 1 = j
    BY <1>1
  <2>2. kept[j + 1] = IF list[j + 1] \in S THEN More(kept[j], list[j + 1]) ELSE kept[j]
    BY <1>13, <2>1
  <2>3. CASE list[j + 1] \in S
    <3>1. list[j + 1] \in U
      BY <1>1, <2>1, <2>3 DEF U
    <3>2. kept[j + 1] = More(kept[j], list[j + 1])
      BY <2>2, <2>3
    <3>3. kept[j + 1] \in Seq(U) /\ kept[j + 1] # <<>>
      BY <1>4, <2>0, <3>1, <3>2
    <3>4. j + 1 \in 0 .. n
      BY <1>1, <2>1
    <3> QED
      BY <3>3, <3>4
  <2>4. CASE list[j + 1] \notin S
    <3>1. kept[j + 1] = kept[j]
      BY <2>2, <2>4
    <3>2. \A k \in 1 .. j + 1 : list[k] \in S => k \in 1 .. j
      BY <1>1, <2>4
    <3>3. (\E k \in 1 .. j + 1 : list[k] \in S) => kept[j + 1] # <<>>
      BY <2>0, <3>1, <3>2
    <3>4. j + 1 \in 0 .. n /\ kept[j + 1] \in Seq(U)
      BY <1>1, <2>0, <2>1, <3>1
    <3> QED
      BY <3>3, <3>4
  <2> QED
    BY <2>3, <2>4
<1>16. \A j \in G : kept[j] \in Seq(U) /\ ((\E k \in 1 .. j : list[k] \in S) => kept[j] # <<>>)
  OBVIOUS
<1> HIDE DEF G, Good
<1>17. n \in G
  <2>1. \A k \in 0 .. n : k \in G
    BY <1>1, <1>14, <1>15, UpTo
  <2> QED
    BY <1>1, <2>1
<1>18. kept[n] \in Seq(U) /\ ((\E k \in 1 .. n : list[k] \in S) => kept[n] # <<>>)
  BY <1>16, <1>17
<1> QED
  BY <1>2, <1>18 DEF U, n

LEMMA WaresTyped == Wares \in Seq(Goods)
<1>1. Len(Wares) \in Nat /\ DOMAIN Wares = 1 .. Len(Wares)
      /\ Wares \in [1 .. Len(Wares) -> Nat \ {0}]
  BY ScaleAssumption, LenProperties
<1>2. Wares \in [1 .. Len(Wares) -> Goods]
  BY <1>1 DEF Goods, ToSet
<1> QED
  BY <1>1, <1>2

\* The rows of PS_SCALE_NOMENS are goods that have a number.
LEMMA NomensTyped ==
  ASSUME scale_art_num \in [Goods -> Arts \cup {NoArt}]
  PROVE  PS_SCALE_NOMENS \in Seq(Tovar)
<1> DEFINE S == {g \in Goods : scale_art_num[g] # NoArt}
           codes == Among(Wares, S)
<1>1. codes \in Seq(Goods \cap S)
  BY WaresTyped, AmongTyped
<1>2. \A g \in Goods \cap S : [nomen_num |-> g, art_num |-> scale_art_num[g]] \in Tovar
  BY DEF Tovar
<1>3. PS_SCALE_NOMENS = [k \in DOMAIN codes |-> [nomen_num |-> codes[k], art_num |-> scale_art_num[codes[k]]]]
  BY DEF PS_SCALE_NOMENS
<1> HIDE DEF codes, S
<1>4. Len(codes) \in Nat /\ DOMAIN codes = 1 .. Len(codes)
      /\ \A k \in 1 .. Len(codes) : codes[k] \in Goods \cap S
  BY <1>1, LenProperties, ElementOfSeq
<1>5. PS_SCALE_NOMENS \in [1 .. Len(codes) -> Tovar]
  BY <1>2, <1>3, <1>4
<1> QED
  BY <1>4, <1>5

\* What is written to the file is goods of the list.
LEMMA FileTyped ==
  ASSUME NEW list \in Seq(Tovar), NEW c
  PROVE  HavingPlu(Reached(list, c)) \in Seq(Tovar)
<1>1. Reached(list, c) \in Seq(Tovar)
  <2>1. list # <<>> => SubSeq(list, 1, 1) \in Seq(Tovar)
    <3> SUFFICES ASSUME list # <<>> PROVE SubSeq(list, 1, 1) \in Seq(Tovar)
      OBVIOUS
    <3>1. Len(list) \in Nat \ {0}
      BY EmptySeq
    <3>2. \A k \in 1 .. 1 : list[k] \in Tovar
      BY <3>1, ElementOfSeq
    <3> QED
      BY <3>1, <3>2, SubSeqProperties
  <2> QED
    BY <2>1 DEF Reached
<1> DEFINE reached == Reached(list, c)
           S == {tovar \in ToSet(reached) : HasPlu(tovar)}
<1>2. HavingPlu(reached) = Among(reached, S)
  BY DEF HavingPlu
<1> HIDE DEF reached, S
<1>3. reached \in Seq(Tovar)
  BY <1>1 DEF reached
<1>4. Among(reached, S) \in Seq(Tovar \cap S)
  BY <1>3, AmongTyped
<1>5. Among(reached, S) \in Seq(Tovar)
  BY <1>4, SeqMonotonic
<1> QED
  BY <1>2, <1>5 DEF reached

Memory == [Arts -> Goods \cup {NoGoods}]

\* A scale sells goods under the numbers a file gives them.
LEMMA LoadedTyped ==
  ASSUME NEW memory \in Memory, NEW file \in Seq(Tovar)
  PROVE  Loaded(memory, file) \in Memory
<1>1. Len(file) \in Nat /\ DOMAIN file = 1 .. Len(file)
      /\ \A k \in 1 .. Len(file) : file[k].nomen_num \in Goods
  <2>1. Len(file) \in Nat /\ DOMAIN file = 1 .. Len(file)
    BY LenProperties
  <2>2. \A k \in 1 .. Len(file) : file[k] \in Tovar
    BY ElementOfSeq
  <2>3. \A t \in Tovar : t.nomen_num \in Goods
    BY DEF Tovar
  <2> QED
    BY <2>1, <2>2, <2>3
<1> SUFFICES ASSUME NEW a \in Arts PROVE Loaded(memory, file)[a] \in Goods \cup {NoGoods}
  BY DEF Loaded, Memory
<1> DEFINE same == {k \in DOMAIN file : file[k].art_num = a}
           latest == CHOOSE k \in same : \A j \in same : j <= k
<1>2. Loaded(memory, file)[a] = IF same = {} THEN memory[a] ELSE file[latest].nomen_num
  BY DEF Loaded
<1>3. CASE same = {}
  BY <1>2, <1>3 DEF Memory
<1>4. CASE same # {}
  <2>1. same \in SUBSET (1 .. Len(file))
    BY <1>1
  <2> HIDE DEF same
  <2>2. \E k \in same : \A j \in same : j <= k
    BY <1>1, <1>4, <2>1, GreatestElement
  <2>3. latest \in same
    BY <2>2
  <2> QED
    BY <1>1, <1>2, <1>4, <2>1, <2>3
<1> QED
  BY <1>3, <1>4

Places == {"idle", "connect", "read", "build", "erase", "upload", "close"}

\* What is left to do is a list of scales, and empty just when nothing runs.
WorkTyped(place, list) ==
    /\ place \in Places
    /\ list \in Seq(ToSet(Scales))
    /\ place = "idle" <=> list = <<>>

LEMMA CurrentTyped ==
  ASSUME TypeOK, NEW w \in Workplaces, at[w] # "idle"
  PROVE  Current(w) \in ToSet(Scales)
<1>1. todo[w] \in Seq(ToSet(Scales)) /\ todo[w] # <<>>
  BY DEF TypeOK
<1> QED
  BY <1>1, HeadTailProperties DEF Current

\* A workplace whose place and list change keeps the others as they are.
LEMMA WorkKept ==
  ASSUME TypeOK, Tables', NEW w \in Workplaces, WorkTyped(at'[w], todo'[w]),
         \A v \in Workplaces \ {w} : at'[v] = at[v] /\ todo'[v] = todo[v]
  PROVE  /\ at' \in [Workplaces -> Places]
         /\ \A v \in Workplaces :
               todo'[v] \in Seq(ToSet(Scales)) /\ (at'[v] = "idle" <=> todo'[v] = <<>>)
<1>1. at' \in [Workplaces -> Places]
  BY DEF Tables, Places
<1>2. ASSUME NEW v \in Workplaces
      PROVE  todo'[v] \in Seq(ToSet(Scales)) /\ (at'[v] = "idle" <=> todo'[v] = <<>>)
  BY DEF TypeOK, WorkTyped
<1> QED
  BY <1>1, <1>2

LEMMA GoTyped ==
  ASSUME LoadInv, TypeOK, NEW w \in Workplaces, Go(w)
  PROVE  WorkTyped(at'[w], todo'[w])
<1>1. PICK ticked \in (SUBSET ToSet(Scales)) \ {{}} :
         todo' = [todo EXCEPT ![w] = Among(Scales, ticked)]
  BY DEF Go
<1>2. todo'[w] = Among(Scales, ticked) /\ at'[w] = "connect"
  BY <1>1 DEF Go, Goto, LoadInv, Tables
<1>3. Scales \in Seq(ToSet(Scales))
  BY ScaleAssumption
<1>4. DOMAIN Scales = 1 .. Len(Scales)
  BY <1>3, LenProperties
<1>5. \E k \in 1 .. Len(Scales) : Scales[k] \in ticked
  BY <1>4 DEF ToSet
<1>6. Among(Scales, ticked) \in Seq(ToSet(Scales) \cap ticked) /\ Among(Scales, ticked) # <<>>
  BY <1>3, <1>5, AmongTyped
<1>7. Among(Scales, ticked) \in Seq(ToSet(Scales))
  BY <1>6, SeqMonotonic
<1> QED
  BY <1>2, <1>6, <1>7 DEF WorkTyped, Places

LEMMA DisconnectTyped ==
  ASSUME LoadInv, TypeOK, NEW w \in Workplaces, LibraDisconnect(w)
  PROVE  WorkTyped(at'[w], todo'[w])
<1> DEFINE list == todo[w]
<1>1. list \in Seq(ToSet(Scales)) /\ list # <<>>
  BY DEF LibraDisconnect, TypeOK
<1>2. todo'[w] = Tail(list) /\ at'[w] = IF Len(list) = 1 THEN "idle" ELSE "connect"
  BY DEF LibraDisconnect, Goto, LoadInv, Tables
<1> HIDE DEF list
<1>3. Tail(list) \in Seq(ToSet(Scales)) /\ Len(Tail(list)) = Len(list) - 1
      /\ Len(list) \in Nat
  BY <1>1, HeadTailProperties, LenProperties
<1>4. Len(list) = 1 <=> Tail(list) = <<>>
  <2>1. Len(Tail(list)) = 0 <=> Tail(list) = <<>>
    <3>1. Tail(list) # <<>> => Len(Tail(list)) \in Nat \ {0}
      BY <1>3, EmptySeq
    <3>2. Len(<<>>) = 0
      BY EmptySeq
    <3> QED
      BY <3>1, <3>2
  <2> QED
    BY <1>3, <2>1
<1> QED
  BY <1>2, <1>3, <1>4 DEF WorkTyped, Places

\* Each step of a workplace leaves it a place and a list that fit together.
LEMMA WorkStep ==
  ASSUME LoadInv, TypeOK, NEW w \in Workplaces,
         Go(w) \/ LibraConnect(w) \/ LibraTovarAdd(w) \/ BuildFile(w) \/ Erase(w) \/ Upload(w)
           \/ LibraDisconnect(w) \/ Raise(w)
  PROVE  WorkTyped(at'[w], todo'[w])
<1>1. CASE LibraConnect(w) \/ LibraTovarAdd(w) \/ BuildFile(w) \/ Erase(w) \/ Upload(w)
  <2>1. at[w] # "idle" /\ at'[w] \in Places \ {"idle"} /\ UNCHANGED todo
    BY <1>1 DEF LibraConnect, LibraTovarAdd, BuildFile, Erase, Upload, Goto, LoadInv, Tables, Places
  <2> QED
    BY <2>1 DEF TypeOK, WorkTyped
<1>2. CASE Raise(w)
  <2>1. at'[w] = "idle" /\ todo'[w] = <<>>
    BY <1>2 DEF Raise, Goto, LoadInv, Tables
  <2> QED
    BY <2>1, EmptySeq DEF WorkTyped, Places
<1> QED
  BY <1>1, <1>2, GoTyped, DisconnectTyped

\* The rest of the types, which a step may disturb one at a time.
GoodsTyped ==
    /\ scale_art_num \in [Goods -> Arts \cup {NoArt}]
    /\ plu \in [ToSet(Scales) -> Memory]
    /\ l_tovar \in [Workplaces -> Seq(Tovar)]
    /\ critical \in [Workplaces -> {0, 2}]
    /\ tovar_dat \in [Workplaces -> Seq(Tovar)]
    /\ changes \in 0 .. MaxChanges /\ faults \in 0 .. MaxFaults
    /\ doubt \subseteq ToSet(Scales)

LEMMA TypeParts ==
  TypeOK <=> /\ GoodsTyped
             /\ at \in [Workplaces -> Places]
             /\ \A w \in Workplaces :
                   todo[w] \in Seq(ToSet(Scales)) /\ (at[w] = "idle" <=> todo[w] = <<>>)
BY DEF TypeOK, GoodsTyped, Places, Memory

LEMMA FaultTyped ==
  ASSUME GoodsTyped, Fault
  PROVE  changes' \in 0 .. MaxChanges /\ faults' \in 0 .. MaxFaults
BY ScaleAssumption DEF GoodsTyped, Fault

LEMMA EraseTyped ==
  ASSUME TypeOK, NEW w \in Workplaces, Erase(w)
  PROVE  GoodsTyped'
<1>1. GoodsTyped /\ Current(w) \in ToSet(Scales)
  BY TypeParts, CurrentTyped DEF Erase
<1>2. Empty \in Memory
  BY DEF Empty, Memory
<1>3. plu' \in [ToSet(Scales) -> Memory] /\ doubt' \subseteq ToSet(Scales)
  BY <1>1, <1>2 DEF Erase, GoodsTyped
<1>4. changes' \in 0 .. MaxChanges /\ faults' \in 0 .. MaxFaults
  BY <1>1, FaultTyped DEF Erase, GoodsTyped, bounds
<1> QED
  BY <1>1, <1>3, <1>4 DEF Erase, GoodsTyped

LEMMA UploadTyped ==
  ASSUME TypeOK, NEW w \in Workplaces, Upload(w)
  PROVE  GoodsTyped'
<1> DEFINE s == Current(w)
           file == tovar_dat[w]
<1>1. GoodsTyped /\ s \in ToSet(Scales) /\ file \in Seq(Tovar) /\ plu[s] \in Memory
  BY TypeParts, CurrentTyped DEF Upload, GoodsTyped
<1>2. \E sent \in Seq(Tovar) : plu' = [plu EXCEPT ![s] = Loaded(@, sent)]
  <2>1. \A n \in 0 .. Len(file) : SubSeq(file, 1, n) \in Seq(Tovar)
    <3> TAKE n \in 0 .. Len(file)
    <3> HIDE DEF file
    <3>1. Len(file) \in Nat /\ \A k \in 1 .. n : file[k] \in Tovar
      BY <1>1, LenProperties, ElementOfSeq
    <3> QED
      BY <1>1, <3>1, SubSeqProperties
  <2> QED
    BY <1>1, <2>1 DEF Upload
<1>3. PICK sent \in Seq(Tovar) : plu' = [plu EXCEPT ![s] = Loaded(@, sent)]
  BY <1>2
<1>4. Loaded(plu[s], sent) \in Memory
  BY <1>1, LoadedTyped
<1>5. plu' \in [ToSet(Scales) -> Memory] /\ doubt' \subseteq ToSet(Scales)
  BY <1>1, <1>3, <1>4 DEF Upload, GoodsTyped
<1>6. changes' \in 0 .. MaxChanges /\ faults' \in 0 .. MaxFaults
  BY <1>1, FaultTyped DEF Upload, GoodsTyped, bounds
<1> QED
  BY <1>1, <1>5, <1>6 DEF Upload, GoodsTyped

LEMMA ListTyped ==
  ASSUME TypeOK, NEW w \in Workplaces,
         Go(w) \/ LibraConnect(w) \/ LibraTovarAdd(w) \/ BuildFile(w) \/ LibraDisconnect(w)
           \/ Raise(w)
  PROVE  GoodsTyped'
<1>1. GoodsTyped
  BY TypeParts
<1>2. CASE Go(w) \/ LibraDisconnect(w)
  BY <1>1, <1>2 DEF Go, LibraDisconnect, GoodsTyped, bounds, history
<1>3. CASE LibraConnect(w)
  <2>1. <<>> \in Seq(Tovar)
    BY EmptySeq
  <2> QED
    BY <1>1, <1>3, <2>1 DEF LibraConnect, GoodsTyped, bounds, history
<1>4. CASE LibraTovarAdd(w)
  <2>1. l_tovar[w] \o PS_SCALE_NOMENS \in Seq(Tovar)
    <3>1. l_tovar[w] \in Seq(Tovar) /\ PS_SCALE_NOMENS \in Seq(Tovar)
      BY <1>1, NomensTyped DEF GoodsTyped
    <3> QED
      BY <3>1, ConcatProperties
  <2> QED
    BY <1>1, <1>4, <2>1 DEF LibraTovarAdd, GoodsTyped, bounds, history
<1>5. CASE BuildFile(w)
  <2>1. HavingPlu(Reached(l_tovar[w], critical[w])) \in Seq(Tovar)
    BY <1>1, FileTyped DEF GoodsTyped
  <2> QED
    BY <1>1, <1>5, <2>1 DEF BuildFile, GoodsTyped, bounds, history
<1>6. CASE Raise(w)
  <2>1. changes' \in 0 .. MaxChanges /\ faults' \in 0 .. MaxFaults
    BY <1>1, <1>6, FaultTyped DEF Raise, GoodsTyped, bounds
  <2>2. doubt' \subseteq ToSet(Scales)
    BY <1>1, <1>6, CurrentTyped DEF Raise, GoodsTyped
  <2> QED
    BY <1>1, <1>6, <2>1, <2>2 DEF Raise, GoodsTyped
<1> QED
  BY <1>2, <1>3, <1>4, <1>5, <1>6

LEMMA TypeStep == LoadInv /\ TypeOK /\ [Next]_vars => TypeOK'
<1> SUFFICES ASSUME LoadInv, TypeOK, [Next]_vars PROVE TypeOK'
  OBVIOUS
<1>1. CASE UNCHANGED vars
  <2>1. UNCHANGED <<scale_art_num, plu, at, todo, l_tovar, critical, tovar_dat, changes, faults, doubt>>
    BY <1>1 DEF vars, work, bounds, history
  <2> QED
    BY <2>1 DEF TypeOK
<1>2. ASSUME NEW g \in Goods, NEW a \in Arts \cup {NoArt}, ChangeWares(g, a) PROVE TypeOK'
  <2>1. scale_art_num' \in [Goods -> Arts \cup {NoArt}] /\ changes' \in 0 .. MaxChanges
    BY <1>2, ScaleAssumption DEF ChangeWares, TypeOK
  <2>2. UNCHANGED <<plu, at, todo, l_tovar, critical, tovar_dat, faults, doubt>>
    BY <1>2 DEF ChangeWares, work, history
  <2> QED
    BY <2>1, <2>2 DEF TypeOK
<1>3. ASSUME NEW w \in Workplaces,
             Go(w) \/ LibraConnect(w) \/ LibraTovarAdd(w) \/ BuildFile(w) \/ Erase(w) \/ Upload(w)
               \/ LibraDisconnect(w) \/ Raise(w)
      PROVE  TypeOK'
  <2>1. GoodsTyped'
    BY <1>3, ListTyped, EraseTyped, UploadTyped
  <2>2. Tables' /\ \A v \in Workplaces \ {w} : at'[v] = at[v] /\ todo'[v] = todo[v]
    BY <1>3, Others
  <2>3. WorkTyped(at'[w], todo'[w])
    BY <1>3, WorkStep
  <2>4. /\ at' \in [Workplaces -> Places]
        /\ \A v \in Workplaces :
              todo'[v] \in Seq(ToSet(Scales)) /\ (at'[v] = "idle" <=> todo'[v] = <<>>)
    BY <2>2, <2>3, WorkKept
  <2> QED
    BY <2>1, <2>4 DEF TypeOK, GoodsTyped, Places, Memory
<1> QED
  BY <1>1, <1>2, <1>3 DEF Next

\* Every table keeps its type, the file and the list of a workplace hold goods with
\* their numbers, and a workplace has scales left to load exactly while it is at work:
\* the dialog leaves its loop at the end of the grid and not before or after.
THEOREM TypeCorrect == Spec => []TypeOK
<1>1. Init => TypeOK
  <2> SUFFICES ASSUME Init PROVE TypeOK
    OBVIOUS
  <2>1. <<>> \in Seq(Tovar) /\ <<>> \in Seq(ToSet(Scales))
    BY EmptySeq
  <2>2. plu \in [ToSet(Scales) -> [Arts -> Goods \cup {NoGoods}]]
    BY DEF Init, Empty
  <2> QED
    BY <2>1, <2>2, ScaleAssumption DEF Init, TypeOK
<1>2. LoadInv /\ TypeOK /\ [Next]_vars => LoadInv' /\ TypeOK'
  BY LoadStep, TypeStep
<1> QED
  BY <1>1, <1>2, LoadInit, PTL DEF Spec

=============================================================================

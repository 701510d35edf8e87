--------------------------- MODULE ReactorProofs ---------------------------
(***************************************************************************)
(* Proofs about a reactor's list of reactions, for any set of reactions,   *)
(* any number of messages and every kind of reactor in AllSetups.          *)
(*                                                                         *)
(* The argument: the link the walking thread is at is in the list and      *)
(* "temp" is the link behind it, so that taking out the one it is at, or   *)
(* nothing, leads to the next reaction; whoever was in the list when the   *)
(* walk began has been called or is still ahead.  The lock keeps all       *)
(* others off the list meanwhile; only a reaction that detaches another    *)
(* one breaks this, and never in a walk in which reactions are removed.    *)
(***************************************************************************)
EXTENDS Reactor, SequenceTheorems, TLAPS

(* In this walk the list is changed by the walking thread only. *)
Undisturbed == ~setup.nested \/ Last

(* The walk is at position p of the list. *)
AtLink(p) ==
    /\ list[p] = elem
    /\ temp = IF p < Len(list) THEN list[p + 1] ELSE NULL
    /\ removing => elem \in called
    /\ ~setup.nested => \A r \in due : r \in called \/ \E j \in p .. Len(list) : list[j] = r

WalkState ==
    /\ walking => done < posted
    /\ ~walking => elem = NULL
    /\ removing => walking /\ elem # NULL /\ Last
    /\ walking /\ elem # NULL /\ Undisturbed => \E p \in DOMAIN list : AtLink(p)

(* Owners, list and "gone" before an object that notifies local reactions  *)
(* of its end.                                                             *)
OwnersAgree ==
    (setup.destroys => Global) =>
        /\ \A r \in Reactions :
              owner[r] \in {"attached", "detaching"} => r \in InList \/ (Global /\ r \in gone)
        /\ \A r \in InList : owner[r] \in {"attached", "detaching"} /\ r \notin gone

ListState ==
    /\ \A r \in InList \cup gone : owner[r] # "new"
    /\ gone # {} => setup.destroys
    /\ OwnersAgree

IInv ==
    /\ TypeOK
    /\ WalkState
    /\ ListState
    /\ RemovesMembers
    /\ NoUseAfterFree
    /\ NobodyIsSkipped

-----------------------------------------------------------------------------
(* The link behind the one at position p, link->next. *)
LEMMA AfterFacts ==
    ASSUME NEW s \in Seq(Reactions), Distinct(s), NEW p \in 1..Len(s)
    PROVE  After(s, s[p]) = IF p < Len(s) THEN s[p + 1] ELSE NULL
<1>1. CASE p < Len(s)
  <2>1. \A i \in 1 .. Len(s) - 1 : s[i] = s[p] => i = p
    BY DEF Distinct
  <2>2. (CHOOSE i \in 1 .. Len(s) - 1 : s[i] = s[p]) = p
    BY <1>1, <2>1
  <2>3. \E i \in 1 .. Len(s) - 1 : s[i] = s[p]
    BY <1>1
  <2>4. After(s, s[p]) = s[1 + p]
    BY <2>2, <2>3 DEF After
  <2> QED
    BY <1>1, <2>4
<1>2. CASE ~(p < Len(s))
  BY <1>2 DEF After, Distinct
<1> QED
  BY <1>1, <1>2

LEMMA AfterType ==
    ASSUME NEW s \in Seq(Reactions), NEW x
    PROVE  After(s, x) \in Reactions \cup {NULL}
<1>1. CASE \E i \in 1 .. Len(s) - 1 : s[i] = x
  <2> DEFINE i == CHOOSE i \in 1 .. Len(s) - 1 : s[i] = x
  <2>1. i \in 1 .. Len(s) - 1
    BY <1>1
  <2>2. After(s, x) = s[1 + i]
    BY <1>1 DEF After
  <2> HIDE DEF i
  <2> QED
    BY <2>1, <2>2
<1> QED
  BY <1>1 DEF After

(* direct_list_remove() of the link at position p *)
LEMMA WithoutFacts ==
    ASSUME NEW s \in Seq(Reactions), Distinct(s), NEW p \in 1..Len(s)
    PROVE  /\ Without(s, s[p]) \in Seq(Reactions)
           /\ Len(Without(s, s[p])) = Len(s) - 1
           /\ \A k \in 1 .. Len(s) - 1 :
                 Without(s, s[p])[k] = IF k < p THEN s[k] ELSE s[k + 1]
           /\ Distinct(Without(s, s[p]))
           /\ {Without(s, s[p])[i] : i \in DOMAIN Without(s, s[p])}
                 = {s[i] : i \in DOMAIN s} \ {s[p]}
<1> DEFINE w == Without(s, s[p])
           a == SubSeq(s, 1, p - 1)
           b == SubSeq(s, p + 1, Len(s))
<1>1. (CHOOSE i \in DOMAIN s : s[i] = s[p]) = p
  BY DEF Distinct
<1>2. Without(s, s[p]) = a \o b
  <2>1. \E i \in DOMAIN s : s[i] = s[p]
    OBVIOUS
  <2> HIDE DEF w
  <2> QED
    BY <1>1, <2>1 DEF Without
<1>3. /\ a \in Seq(Reactions) /\ Len(a) = p - 1 /\ \A k \in 1 .. p - 1 : a[k] = s[k]
      /\ b \in Seq(Reactions) /\ Len(b) = Len(s) - p /\ \A k \in 1 .. Len(s) - p : b[k] = s[p + k]
  OBVIOUS
<1>4. /\ w \in Seq(Reactions) /\ Len(w) = Len(s) - 1
      /\ \A k \in 1 .. Len(s) - 1 : w[k] = IF k < p THEN s[k] ELSE s[k + 1]
  <2> HIDE DEF a, b
  <2>1. a \o b \in Seq(Reactions) /\ Len(a \o b) = Len(a) + Len(b)
    BY <1>3, ConcatProperties
  <2>2. Len(a \o b) = Len(s) - 1
    BY <1>3, <2>1
  <2>3. \A k \in 1 .. Len(s) - 1 : (a \o b)[k] = IF k < p THEN s[k] ELSE s[k + 1]
    BY <1>3
  <2> QED
    BY <1>2, <2>1, <2>2, <2>3
<1> HIDE DEF w
<1>5. Distinct(w)
  BY <1>4 DEF Distinct
<1>6. ASSUME NEW x \in {w[i] : i \in DOMAIN w} PROVE x \in {s[i] : i \in DOMAIN s} \ {s[p]}
  BY <1>4 DEF Distinct
<1>7. ASSUME NEW i \in DOMAIN s, s[i] # s[p] PROVE s[i] \in {w[k] : k \in DOMAIN w}
  <2>1. CASE i < p
    BY <1>4, <2>1
  <2>2. CASE i > p
    <3>1. i - 1 \in DOMAIN w /\ w[i - 1] = s[i]
      BY <1>4, <2>2
    <3> QED
      BY <3>1
  <2> QED
    BY <1>7, <2>1, <2>2
<1>8. {w[i] : i \in DOMAIN w} = {s[i] : i \in DOMAIN s} \ {s[p]}
  BY <1>6, <1>7
<1> QED
  BY <1>4, <1>5, <1>8 DEF w

(* Attaching puts the reaction in front. *)
LEMMA InFrontFacts ==
    ASSUME NEW s \in Seq(Reactions), Distinct(s), NEW r \in Reactions,
           \A i \in DOMAIN s : s[i] # r
    PROVE  /\ <<r>> \o s \in Seq(Reactions)
           /\ Distinct(<<r>> \o s)
           /\ {(<<r>> \o s)[i] : i \in DOMAIN (<<r>> \o s)} = {s[i] : i \in DOMAIN s} \cup {r}
<1> DEFINE w == <<r>> \o s
<1>1. /\ w \in Seq(Reactions) /\ Len(w) = Len(s) + 1 /\ w[1] = r
      /\ \A k \in 2 .. Len(s) + 1 : w[k] = s[k - 1]
  OBVIOUS
<1> HIDE DEF w
<1>2. Distinct(w)
  BY <1>1 DEF Distinct
<1>3. ASSUME NEW i \in DOMAIN s PROVE s[i] \in {w[k] : k \in DOMAIN w}
  <2>1. i + 1 \in DOMAIN w /\ w[i + 1] = s[i]
    BY <1>1
  <2> QED
    BY <2>1
<1>4. {w[i] : i \in DOMAIN w} = {s[i] : i \in DOMAIN s} \cup {r}
  BY <1>1, <1>3
<1> QED
  BY <1>1, <1>2, <1>4 DEF w

-----------------------------------------------------------------------------
LEMMA InitInv == Init => IInv
<1> SUFFICES ASSUME Init PROVE IInv
  OBVIOUS
<1>1. TypeOK
  <2>1. list \in Seq(Reactions) /\ Distinct(list)
    BY DEF Init, Distinct
  <2>2. posted \in 0 .. MaxMsgs /\ done \in 0 .. posted
    BY ReactorAssumption DEF Init
  <2> QED
    BY <2>1, <2>2 DEF Init, TypeOK
<1>2. WalkState /\ RemovesMembers /\ NoUseAfterFree /\ NobodyIsSkipped
  BY DEF Init, WalkState, RemovesMembers, NoUseAfterFree, NobodyIsSkipped
<1>3. ListState
  BY DEF Init, ListState, OwnersAgree, InList
<1> QED
  BY <1>1, <1>2, <1>3 DEF IInv

(* The walk is not affected by steps of others, which leave the list alone *)
(* while it goes on.                                                       *)
LEMMA WalkStateKept ==
    ASSUME WalkState, TypeOK, UNCHANGED <<setup, walk>>, posted' \in Nat, posted <= posted',
           walking => UNCHANGED <<list, due>>
    PROVE  WalkState' /\ (NobodyIsSkipped => NobodyIsSkipped')
<1>1. ASSUME NEW p \in DOMAIN list, AtLink(p), walking PROVE AtLink(p)'
  BY <1>1 DEF AtLink, walk
<1>2. Last' = Last /\ Undisturbed' = Undisturbed
  BY DEF Last, Undisturbed, walk
<1>3. WalkState'
  <2>1. /\ (walking => done < posted)'
        /\ (~walking => elem = NULL)'
        /\ (removing => walking /\ elem # NULL /\ Last)'
    BY <1>2 DEF WalkState, walk, TypeOK
  <2>2. (walking /\ elem # NULL /\ Undisturbed => \E p \in DOMAIN list : AtLink(p))'
    BY <1>1, <1>2 DEF WalkState, walk
  <2> QED
    BY <2>1, <2>2 DEF WalkState
<1> QED
  BY <1>3 DEF NobodyIsSkipped, walk

LEMMA DispatchInv ==
    ASSUME IInv, Dispatch
    PROVE  IInv'
<1>1. TypeOK'
  BY ReactorAssumption DEF IInv, TypeOK, Dispatch, walk
<1>2. WalkState' /\ NobodyIsSkipped'
  BY WalkStateKept DEF IInv, TypeOK, Dispatch, walk
<1>3. ListState' /\ RemovesMembers' /\ NoUseAfterFree'
  BY DEF IInv, ListState, OwnersAgree, RemovesMembers, NoUseAfterFree, InList, Global, Dispatch, walk
<1> QED
  BY <1>1, <1>2, <1>3 DEF IInv

LEMMA AttachInv ==
    ASSUME IInv, NEW r \in Reactions, Attach(r)
    PROVE  IInv'
<1> DEFINE l == <<r>> \o list
<1>1. /\ list' = l /\ owner' = [owner EXCEPT ![r] = "attached"] /\ owner[r] = "new"
      /\ ~walking
      /\ UNCHANGED <<setup, posted, walk, gone, due, twice>>
  BY DEF Attach, Locked
<1>2. /\ r \notin InList /\ r \notin gone
      /\ list \in Seq(Reactions) /\ Distinct(list)
      /\ owner \in [Reactions -> {"new", "attached", "detaching", "freeing", "freed"}]
  BY <1>1 DEF IInv, ListState, TypeOK
<1>3. l \in Seq(Reactions) /\ Distinct(l) /\ {l[i] : i \in DOMAIN l} = InList \cup {r}
  BY <1>2, InFrontFacts DEF InList
<1> HIDE DEF l
<1>4. InList' = InList \cup {r}
  BY <1>1, <1>3 DEF InList
<1>5. TypeOK'
  BY <1>1, <1>2, <1>3 DEF IInv, TypeOK, walk
<1>6. WalkState' /\ NobodyIsSkipped'
  BY <1>1, WalkStateKept DEF IInv, TypeOK
<1>7. ListState'
  BY <1>1, <1>2, <1>4 DEF IInv, ListState, OwnersAgree, Global
<1>8. RemovesMembers' /\ NoUseAfterFree'
  BY <1>1, <1>2, <1>4 DEF IInv, RemovesMembers, NoUseAfterFree, WalkState, Global, walk
<1> QED
  BY <1>5, <1>6, <1>7, <1>8 DEF IInv

LEMMA ReleaseInv ==
    ASSUME IInv, NEW r \in Reactions, Release(r)
    PROVE  IInv'
<1>1. /\ owner[r] = "attached"
      /\ owner' = [owner EXCEPT ![r] = IF r \in gone /\ ~Global THEN "freeing" ELSE "detaching"]
      /\ UNCHANGED <<setup, list, posted, walk, gone, due, twice>>
  BY DEF Release
<1>2. TypeOK'
  BY <1>1 DEF IInv, TypeOK, walk
<1>3. WalkState' /\ NobodyIsSkipped'
  BY <1>1, WalkStateKept DEF IInv, TypeOK
<1>4. InList' = InList
  BY <1>1 DEF InList
<1>5. ListState'
  BY <1>1, <1>4 DEF IInv, TypeOK, ListState, OwnersAgree, Global
<1>6. RemovesMembers' /\ NoUseAfterFree'
  BY <1>1, <1>4 DEF IInv, TypeOK, RemovesMembers, NoUseAfterFree, Global, walk
<1> QED
  BY <1>2, <1>3, <1>5, <1>6 DEF IInv

LEMMA DetachInv ==
    ASSUME IInv, NEW r \in Reactions, Detach(r)
    PROVE  IInv'
<1>1. /\ owner[r] = "detaching" /\ ~walking
      /\ owner' = [owner EXCEPT ![r] = "freeing"]
      /\ due' = due \ {r}
      /\ UNCHANGED <<setup, posted, walk, gone>>
  BY DEF Detach, MayDetach, Locked
<1>2. list \in Seq(Reactions) /\ Distinct(list)
  BY DEF IInv, TypeOK
<1>3. /\ list' \in Seq(Reactions) /\ Distinct(list)'
      /\ InList' \subseteq InList /\ InList \ {r} \subseteq InList'
      /\ Takes(r) => r \notin InList'
  <2>1. CASE Takes(r) /\ r \in InList
    <3>1. PICK p \in 1 .. Len(list) : list[p] = r
      BY <1>2, <2>1 DEF InList
    <3>2. list' = Without(list, list[p])
      BY <2>1, <3>1 DEF Detach
    <3> DEFINE w == Without(list, list[p])
    <3>3. /\ w \in Seq(Reactions) /\ Distinct(w)
          /\ {w[i] : i \in DOMAIN w} = {list[i] : i \in DOMAIN list} \ {list[p]}
      BY <1>2, WithoutFacts
    <3> HIDE DEF w
    <3>4. InList' = InList \ {r}
      BY <3>1, <3>2, <3>3 DEF InList, w
    <3> QED
      BY <3>2, <3>3, <3>4 DEF Distinct, w
  <2>2. CASE ~(Takes(r) /\ r \in InList)
    <3>1. list' = list
      BY <2>2 DEF Detach, Without, InList
    <3> QED
      BY <1>2, <2>2, <3>1 DEF InList
  <2> QED
    BY <2>1, <2>2
<1>4. twice' = IF Takes(r) /\ r \notin InList THEN twice \cup {r} ELSE twice
  BY DEF Detach
<1>5. TypeOK'
  BY <1>1, <1>3, <1>4 DEF IInv, TypeOK, walk
<1>6. WalkState' /\ NobodyIsSkipped'
  BY <1>1, WalkStateKept DEF IInv, TypeOK
<1>7. ListState'
  BY <1>1, <1>3 DEF IInv, TypeOK, ListState, OwnersAgree, Global, Takes
<1>8. RemovesMembers'
  BY <1>1, <1>3, <1>4 DEF IInv, RemovesMembers, ListState, OwnersAgree, Global, Takes
<1>9. NoUseAfterFree'
  BY <1>1, <1>3 DEF IInv, TypeOK, NoUseAfterFree, Global, walk
<1> QED
  BY <1>5, <1>6, <1>7, <1>8, <1>9 DEF IInv

LEMMA FreeInv ==
    ASSUME IInv, NEW r \in Reactions, Free(r)
    PROVE  IInv'
<1>1. /\ owner[r] = "freeing" /\ owner' = [owner EXCEPT ![r] = "freed"]
      /\ UNCHANGED <<setup, list, posted, walk, gone, due, twice>>
  BY DEF Free
<1>2. TypeOK'
  BY <1>1 DEF IInv, TypeOK, walk
<1>3. WalkState' /\ NobodyIsSkipped'
  BY <1>1, WalkStateKept DEF IInv, TypeOK
<1>4. InList' = InList
  BY <1>1 DEF InList
<1>5. ListState' /\ RemovesMembers'
  BY <1>1, <1>4 DEF IInv, TypeOK, ListState, OwnersAgree, RemovesMembers, Global
<1>6. ~setup.nested /\ elem # NULL => elem \in InList
  BY DEF IInv, WalkState, Undisturbed, AtLink, InList
<1>7. NoUseAfterFree'
  BY <1>1, <1>4, <1>6, ReactorAssumption
  DEF IInv, TypeOK, NoUseAfterFree, ListState, OwnersAgree, Global, walk
<1> QED
  BY <1>2, <1>3, <1>5, <1>7 DEF IInv

(* Facts about NULL and the current link. *)
LEMMA CurrentLink ==
    ASSUME IInv, walking, elem # NULL, Undisturbed
    PROVE  elem \in InList /\ elem \in Reactions
  BY DEF IInv, TypeOK, WalkState, AtLink, InList

LEMMA StartInv ==
    ASSUME IInv, Start
    PROVE  IInv'
<1>1. /\ ~walking /\ done < posted /\ walking' = TRUE
      /\ elem' = First(list) /\ temp' = After(list, First(list))
      /\ due' = InList /\ called' = {}
      /\ UNCHANGED <<setup, list, posted, done, removing, owner, gone, twice>>
  BY DEF Start
<1>2. list \in Seq(Reactions) /\ Distinct(list) /\ NULL \notin Reactions /\ ~removing
  BY <1>1, ReactorAssumption DEF IInv, TypeOK, WalkState
<1>3. CASE list = << >>
  <2>1. elem' = NULL /\ temp' = NULL /\ due' = {}
    <3>1. First(list) = NULL /\ InList = {}
      BY <1>3 DEF First, InList
    <3>2. After(list, NULL) = NULL
      BY <1>2, <1>3 DEF After
    <3> QED
      BY <1>1, <3>1, <3>2
  <2>2. TypeOK'
    BY <1>1, <2>1 DEF IInv, TypeOK
  <2>3. WalkState' /\ NobodyIsSkipped'
    BY <1>1, <1>2, <2>1 DEF WalkState, NobodyIsSkipped
  <2>4. ListState' /\ RemovesMembers'
    BY <1>1 DEF IInv, ListState, OwnersAgree, RemovesMembers, InList, Global
  <2>5. NoUseAfterFree'
    BY <1>1, <1>2, <2>1 DEF IInv, NoUseAfterFree, InList, Global
  <2> QED
    BY <2>2, <2>3, <2>4, <2>5 DEF IInv
<1>4. CASE list # << >>
  <2>1. /\ 1 \in 1 .. Len(list) /\ First(list) = list[1] /\ list[1] \in Reactions
    BY <1>2, <1>4 DEF First
  <2>2. elem' = list[1] /\ temp' = IF 1 < Len(list) THEN list[2] ELSE NULL
    BY <1>1, <1>2, <2>1, AfterFacts
  <2>3. TypeOK'
    BY <1>1, <1>2, <2>1, <2>2 DEF IInv, TypeOK, InList
  <2>4. AtLink(1)'
    BY <1>1, <1>2, <2>1, <2>2 DEF AtLink, InList
  <2>5. WalkState'
    BY <1>1, <1>2, <2>1, <2>4 DEF WalkState
  <2>6. NobodyIsSkipped'
    BY <1>2, <2>1, <2>2 DEF NobodyIsSkipped
  <2>7. ListState' /\ RemovesMembers'
    BY <1>1 DEF IInv, ListState, OwnersAgree, RemovesMembers, InList, Global
  <2>8. NoUseAfterFree'
    BY <1>1, <1>2, <2>1, <2>2 DEF IInv, NoUseAfterFree, InList, Global, ListState, OwnersAgree
  <2> QED
    BY <2>3, <2>5, <2>6, <2>7, <2>8 DEF IInv
<1> QED
  BY <1>3, <1>4

(* A reaction returns RS_OK and nothing is removed. *)
LEMMA ProceedInv ==
    ASSUME IInv, CallOK, Proceed(list), UNCHANGED <<list, owner, due, twice>>
    PROVE  IInv'
<1>1. /\ walking /\ elem # NULL /\ ~removing /\ ~Last
      /\ called' = called \cup {elem}
      /\ elem' = temp /\ temp' = After(list, temp)
      /\ UNCHANGED <<setup, list, posted, done, walking, removing, owner, gone, due, twice>>
  BY DEF CallOK, Proceed
<1>2. /\ list \in Seq(Reactions) /\ Distinct(list) /\ NULL \notin Reactions
      /\ temp \in Reactions \cup {NULL} /\ elem \in Reactions
  BY <1>1, ReactorAssumption DEF IInv, TypeOK
<1>3. temp' \in Reactions \cup {NULL}
  BY <1>1, <1>2, AfterType
<1>4. TypeOK'
  BY <1>1, <1>2, <1>3 DEF IInv, TypeOK
<1>5. ListState' /\ RemovesMembers'
  BY <1>1 DEF IInv, ListState, OwnersAgree, RemovesMembers, InList, Global
<1>6. Last' = Last /\ Undisturbed' = Undisturbed
  BY <1>1 DEF Last, Undisturbed
<1>7. CASE Undisturbed
  <2>1. PICK p \in 1 .. Len(list) : AtLink(p)
    BY <1>1, <1>2, <1>7 DEF IInv, WalkState
  <2>2. CASE p < Len(list)
    <3>1. /\ temp = list[p + 1] /\ p + 1 \in 1 .. Len(list)
          /\ temp' = IF p + 1 < Len(list) THEN list[p + 2] ELSE NULL
      BY <1>1, <1>2, <2>1, <2>2, AfterFacts DEF AtLink
    <3>2. AtLink(p + 1)'
      <4>1. \A r \in due : ~setup.nested => r \in called' \/ \E j \in p + 1 .. Len(list) : list[j] = r
        BY <1>1, <1>2, <2>1 DEF AtLink
      <4> QED
        BY <1>1, <1>2, <3>1, <4>1 DEF AtLink
    <3>3. WalkState' /\ NobodyIsSkipped'
      BY <1>1, <1>2, <3>1, <3>2 DEF IInv, WalkState, NobodyIsSkipped
    <3>4. NoUseAfterFree'
      BY <1>1, <1>2, <3>1 DEF IInv, NoUseAfterFree, InList, Global, ListState, OwnersAgree
    <3> QED
      BY <1>4, <1>5, <3>3, <3>4 DEF IInv
  <2>3. CASE ~(p < Len(list))
    <3>1. elem' = NULL /\ p = Len(list)
      BY <1>1, <1>2, <2>1, <2>3 DEF AtLink
    <3>2. ~setup.nested => due' \subseteq called'
      BY <1>1, <1>2, <2>1, <3>1 DEF AtLink
    <3>3. WalkState' /\ NobodyIsSkipped'
      BY <1>1, <3>1, <3>2 DEF IInv, WalkState, NobodyIsSkipped
    <3>4. NoUseAfterFree'
      BY <1>1, <1>2, <3>1 DEF IInv, NoUseAfterFree, InList, Global
    <3> QED
      BY <1>4, <1>5, <3>3, <3>4 DEF IInv
  <2> QED
    BY <2>2, <2>3
<1>8. CASE ~Undisturbed
  <2>1. WalkState' /\ NobodyIsSkipped' /\ NoUseAfterFree'
    BY <1>1, <1>6, <1>8 DEF IInv, WalkState, NobodyIsSkipped, NoUseAfterFree, Undisturbed
  <2> QED
    BY <1>4, <1>5, <2>1 DEF IInv
<1> QED
  BY <1>7, <1>8

(* A reaction detaches another one and returns RS_OK. *)
LEMMA NestedInv ==
    ASSUME IInv, CallOK, setup.nested, NEW d \in InList \ {elem},
           owner[d] = "attached", owner' = [owner EXCEPT ![d] = "freeing"],
           list' = Without(list, d), due' = due \ {d},
           Proceed(Without(list, d)), UNCHANGED twice
    PROVE  IInv'
<1>1. /\ walking /\ elem # NULL /\ ~removing /\ ~Last
      /\ called' = called \cup {elem}
      /\ elem' = temp /\ temp' = After(list', temp)
      /\ UNCHANGED <<setup, posted, done, walking, removing, gone, twice>>
  BY DEF CallOK, Proceed
<1>2. /\ list \in Seq(Reactions) /\ Distinct(list) /\ d \in Reactions
      /\ temp \in Reactions \cup {NULL} /\ elem \in Reactions
  BY <1>1 DEF IInv, TypeOK, InList
<1>3. list' \in Seq(Reactions) /\ Distinct(list') /\ InList' = InList \ {d}
  <2>1. PICK p \in 1 .. Len(list) : list[p] = d
    BY <1>2 DEF InList
  <2> DEFINE w == Without(list, list[p])
  <2>2. /\ w \in Seq(Reactions) /\ Distinct(w)
        /\ {w[i] : i \in DOMAIN w} = {list[i] : i \in DOMAIN list} \ {list[p]}
    BY <1>2, WithoutFacts
  <2>3. list' = w
    BY <2>1
  <2> HIDE DEF w
  <2> QED
    BY <2>1, <2>2, <2>3 DEF InList
<1>4. temp' \in Reactions \cup {NULL}
  BY <1>1, <1>3, AfterType
<1>5. TypeOK'
  BY <1>1, <1>2, <1>3, <1>4 DEF IInv, TypeOK, Distinct
<1>6. ListState'
  BY <1>1, <1>2, <1>3 DEF IInv, TypeOK, ListState, OwnersAgree, Global
<1>7. Last' = Last /\ ~Undisturbed'
  BY <1>1 DEF Last, Undisturbed
<1>8. WalkState' /\ RemovesMembers' /\ NobodyIsSkipped' /\ NoUseAfterFree'
  BY <1>1, <1>7 DEF IInv, WalkState, RemovesMembers, NobodyIsSkipped, NoUseAfterFree, Global
<1> QED
  BY <1>5, <1>6, <1>8 DEF IInv

LEMMA CallOKInv ==
    ASSUME IInv, CallOK
    PROVE  IInv'
<1>1. CASE Proceed(list) /\ UNCHANGED <<list, owner, due, twice>>
  BY <1>1, ProceedInv
<1>2. CASE /\ setup.nested
           /\ \E d \in InList \ {elem} :
                /\ owner[d] = "attached"
                /\ owner' = [owner EXCEPT ![d] = "freeing"]
                /\ list' = Without(list, d)
                /\ due' = due \ {d}
                /\ Proceed(Without(list, d))
           /\ UNCHANGED twice
  BY <1>2, NestedInv
<1> QED
  BY <1>1, <1>2 DEF CallOK

LEMMA CallRemoveInv ==
    ASSUME IInv, CallRemove
    PROVE  IInv'
<1>1. /\ walking /\ elem # NULL /\ ~removing /\ Last
      /\ called' = called \cup {elem}
      /\ gone' = IF Global THEN gone ELSE gone \cup {elem}
      /\ removing' = TRUE
      /\ UNCHANGED <<setup, list, posted, done, walking, elem, temp, owner, due, twice>>
  BY DEF CallRemove
<1>2. elem \in InList /\ elem \in Reactions
  BY <1>1, CurrentLink DEF Undisturbed
<1>3. Last' = Last /\ Undisturbed /\ setup.destroys /\ InList' = InList
  BY <1>1 DEF Last, Undisturbed, InList
<1>4. TypeOK'
  BY <1>1, <1>2 DEF IInv, TypeOK
<1>5. WalkState'
  <2>1. PICK p \in DOMAIN list : AtLink(p)
    BY <1>1, <1>3 DEF IInv, WalkState
  <2>2. AtLink(p)'
    BY <1>1, <2>1 DEF AtLink
  <2> QED
    BY <1>1, <1>3, <2>2 DEF IInv, WalkState
<1>6. ListState'
  BY <1>1, <1>2, <1>3 DEF IInv, ListState, OwnersAgree, Global
<1>7. RemovesMembers' /\ NoUseAfterFree' /\ NobodyIsSkipped'
  BY <1>1, <1>3 DEF IInv, RemovesMembers, NoUseAfterFree, NobodyIsSkipped, Global
<1> QED
  BY <1>4, <1>5, <1>6, <1>7 DEF IInv

(* The walking thread takes the link it is at out of the list; the next    *)
(* one is at the same position afterwards.                                 *)
LEMMA RemoveInv ==
    ASSUME IInv, Remove
    PROVE  IInv'
<1>1. /\ removing /\ walking /\ elem # NULL /\ Last /\ Undisturbed
      /\ removing' = FALSE
      /\ gone' = gone \cup {elem}
      /\ list' = Without(list, elem)
      /\ twice' = IF elem \in InList THEN twice ELSE twice \cup {elem}
      /\ elem' = temp /\ temp' = After(list', temp)
      /\ UNCHANGED <<setup, posted, done, walking, owner, due, called>>
  BY DEF Remove, Proceed, IInv, WalkState, Undisturbed
<1>2. /\ list \in Seq(Reactions) /\ Distinct(list) /\ NULL \notin Reactions
      /\ temp \in Reactions \cup {NULL} /\ elem \in Reactions
  BY <1>1, ReactorAssumption DEF IInv, TypeOK
<1>3. elem \in InList
  BY <1>1, CurrentLink
<1>4. PICK p \in 1 .. Len(list) : AtLink(p)
  BY <1>1, <1>2 DEF IInv, WalkState
<1>5. /\ list' \in Seq(Reactions) /\ Distinct(list') /\ InList' = InList \ {elem}
      /\ Len(list') = Len(list) - 1
      /\ \A k \in 1 .. Len(list) - 1 : list'[k] = IF k < p THEN list[k] ELSE list[k + 1]
  <2> DEFINE w == Without(list, list[p])
  <2>1. /\ w \in Seq(Reactions) /\ Distinct(w) /\ Len(w) = Len(list) - 1
        /\ \A k \in 1 .. Len(list) - 1 : w[k] = IF k < p THEN list[k] ELSE list[k + 1]
        /\ {w[i] : i \in DOMAIN w} = {list[i] : i \in DOMAIN list} \ {list[p]}
    BY <1>2, WithoutFacts
  <2>2. list' = w /\ list[p] = elem
    BY <1>1, <1>4 DEF AtLink
  <2> HIDE DEF w
  <2> QED
    BY <2>1, <2>2 DEF InList
<1>6. temp' \in Reactions \cup {NULL}
  BY <1>1, <1>5, AfterType
<1>7. TypeOK'
  BY <1>1, <1>2, <1>3, <1>5, <1>6 DEF IInv, TypeOK, Distinct
<1>8. Last' = Last /\ setup.destroys /\ elem \in called
  BY <1>1, <1>4 DEF Last, AtLink
<1>9. ListState'
  BY <1>1, <1>2, <1>3, <1>5, <1>8 DEF IInv, ListState, OwnersAgree, Global
<1>10. RemovesMembers'
  BY <1>1, <1>3 DEF IInv, RemovesMembers, Global
<1>11. CASE p < Len(list)
  <2>1. temp = list[p + 1] /\ list'[p] = temp /\ p \in 1 .. Len(list')
    BY <1>2, <1>4, <1>5, <1>11 DEF AtLink
  <2>2. temp' = IF p < Len(list') THEN list'[p + 1] ELSE NULL
    BY <1>1, <1>5, <2>1, AfterFacts
  <2>3. ASSUME ~setup.nested, NEW r \in due, r \notin called
        PROVE  \E j \in p .. Len(list') : list'[j] = r
    <3>1. PICK j \in p .. Len(list) : list[j] = r
      BY <1>4, <2>3 DEF AtLink
    <3>2. j # p
      BY <1>4, <1>8, <2>3, <3>1 DEF AtLink
    <3>3. j - 1 \in p .. Len(list') /\ list'[j - 1] = r
      BY <1>2, <1>5, <3>1, <3>2
    <3> QED
      BY <3>3
  <2>4. AtLink(p)'
    BY <1>1, <2>1, <2>2, <2>3 DEF AtLink
  <2>5. WalkState' /\ NobodyIsSkipped'
    BY <1>1, <1>2, <1>5, <2>1, <2>4 DEF IInv, WalkState, NobodyIsSkipped
  <2>6. temp \in InList'
    BY <1>5, <2>1 DEF InList
  <2>7. NoUseAfterFree'
    BY <1>1, <1>5, <1>9, <2>6 DEF IInv, NoUseAfterFree, Global, ListState, OwnersAgree
  <2> QED
    BY <1>7, <1>9, <1>10, <2>5, <2>7 DEF IInv
<1>12. CASE ~(p < Len(list))
  <2>1. elem' = NULL /\ p = Len(list)
    BY <1>1, <1>2, <1>4, <1>12 DEF AtLink
  <2>2. ~setup.nested => due' \subseteq called'
    BY <1>1, <1>2, <1>4, <1>8, <2>1 DEF AtLink
  <2>3. WalkState' /\ NobodyIsSkipped'
    BY <1>1, <2>1, <2>2 DEF IInv, WalkState, NobodyIsSkipped
  <2>4. NoUseAfterFree'
    BY <1>1, <1>2, <1>5, <2>1 DEF IInv, NoUseAfterFree, Global
  <2> QED
    BY <1>7, <1>9, <1>10, <2>3, <2>4 DEF IInv
<1> QED
  BY <1>11, <1>12

LEMMA EndInv ==
    ASSUME IInv, End
    PROVE  IInv'
<1>1. /\ walking /\ elem = NULL /\ walking' = FALSE /\ done' = done + 1
      /\ UNCHANGED <<setup, list, posted, elem, temp, removing, owner, gone, due, called, twice>>
  BY DEF End
<1>2. TypeOK'
  <2>1. done + 1 \in 0 .. posted
    BY <1>1, ReactorAssumption DEF IInv, TypeOK, WalkState
  <2> QED
    BY <1>1, <2>1 DEF IInv, TypeOK
<1>3. WalkState' /\ NobodyIsSkipped'
  BY <1>1 DEF IInv, WalkState, NobodyIsSkipped
<1>4. ListState' /\ RemovesMembers' /\ NoUseAfterFree'
  BY <1>1 DEF IInv, ListState, OwnersAgree, RemovesMembers, NoUseAfterFree, InList, Global
<1> QED
  BY <1>2, <1>3, <1>4 DEF IInv

LEMMA NextInv == IInv /\ [Next]_vars => IInv'
<1> SUFFICES ASSUME IInv, [Next]_vars PROVE IInv'
  OBVIOUS
<1>1. CASE UNCHANGED vars
  <2>1. TypeOK' /\ RemovesMembers' /\ NoUseAfterFree' /\ NobodyIsSkipped'
    BY <1>1 DEF vars, IInv, TypeOK, RemovesMembers, NoUseAfterFree, NobodyIsSkipped, InList, Global
  <2>2. ListState'
    BY <1>1 DEF vars, IInv, ListState, OwnersAgree, InList, Global
  <2>3. WalkState'
    BY <1>1 DEF vars, IInv, WalkState, Undisturbed, Last, AtLink
  <2> QED
    BY <2>1, <2>2, <2>3 DEF IInv
<1>2. CASE Walk
  BY <1>2, StartInv, CallOKInv, CallRemoveInv, RemoveInv, EndInv DEF Walk
<1>3. ASSUME NEW r \in Reactions, Attach(r) \/ Release(r) \/ Owner(r) PROVE IInv'
  BY <1>3, AttachInv, ReleaseInv, DetachInv, FreeInv DEF Owner
<1> QED
  BY <1>1, <1>2, <1>3, DispatchInv DEF Next

LEMMA AlwaysInv == Spec => []IInv
  BY InitInv, NextInv, PTL DEF Spec

(* List, owners and walk always agree: no reaction is in the list twice,   *)
(* none is removed that is not in it (the assertion of                     *)
(* direct_list_remove()), and the walk touches no freed one, for every     *)
(* kind of reactor, under the conditions the parts state.                  *)
THEOREM ReactorIsConsistent == Spec => []Consistent
<1>1. IInv => Consistent
  BY DEF IInv, Consistent
<1> QED
  BY <1>1, AlwaysInv, PTL

(* A reaction its owner has detached is not called any more. *)
THEOREM NeverCalledWhenDetached == Spec => []DetachedIsNotCalled
<1>1. IInv => DetachedIsNotCalled
  BY CurrentLink DEF IInv, DetachedIsNotCalled, Undisturbed
<1> QED
  BY <1>1, AlwaysInv, PTL

(* Every message reaches every reaction that stays attached, although the  *)
(* walk goes on from links that have been taken out of the list.           *)
THEOREM MessageReachesEveryReaction == Spec => []NobodyIsSkipped
<1>1. IInv => NobodyIsSkipped
  BY DEF IInv
<1> QED
  BY <1>1, AlwaysInv, PTL
=============================================================================

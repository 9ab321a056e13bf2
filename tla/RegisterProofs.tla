--------------------------- MODULE RegisterProofs ---------------------------
(***************************************************************************)
(* Every operation of module Register keeps a register well formed and     *)
(* only adds to it.  These lemmas are what the proofs about the walk of    *)
(* the statements rest on.                                                 *)
(***************************************************************************)
EXTENDS Register, WellFoundedInduction, TLAPS

\* Descriptors that can be inserted.
Insertable == {d \in DescType : d.tag # "none"}

\* An entry built from a descriptor is typed.
LEMMA EntryTyped ==
    ASSUME NEW d \in Insertable, NEW s \in Nat, NEW fn \in Nat
    PROVE  Entry(d, s, fn) \in EntryType
BY DEF Insertable, DescType, Entry, EntryType

\* What RegisterOK says of one entry, and of one scope.
LEMMA EntryFacts ==
    ASSUME NEW R, RegisterOK(R), NEW i \in IdsOf(R)
    PROVE  /\ i \in Nat \ {0} /\ i < R.next
           /\ R.flat[i] \in EntryType
           /\ R.flat[i].scope \in 1..R.scopes
           /\ R.flat[i].name \in NameOpt
           /\ R.flat[i].fn \in 0..(i - 1)
           /\ R.flat[i].fn # 0 => R.flat[i].fn \in IdsOf(R)
<1>0. R.next \in Nat \ {0} /\ i \in 1..(R.next - 1)
  BY DEF RegisterOK, IdsOf
<1>1. R.flat[i] \in EntryType
  BY DEF RegisterOK
<1>2. R.flat[i].fn \in Nat /\ R.flat[i].name \in NameOpt
  BY <1>1 DEF EntryType
<1>3. R.flat[i].scope \in 1..R.scopes /\ R.flat[i].fn < i
  BY DEF RegisterOK
<1> QED
  BY <1>0, <1>1, <1>2, <1>3 DEF IdsOf

LEMMA ScopeFacts ==
    ASSUME NEW R, RegisterOK(R), NEW s \in 1..R.scopes
    PROVE  /\ R.next \in Nat \ {0} /\ R.scopes \in Nat \ {0}
           /\ R.owner[s] \in 0..(R.next - 1)
           /\ R.owner[s] # 0 => R.owner[s] \in IdsOf(R)
           /\ R.encl[s] \in 0..(R.next - 1)
           /\ R.names[s] \in [Name -> 0..(R.next - 1)]
           /\ R.parent[s] \in Nat /\ R.parent[s] < s
<1>1. R.next \in Nat \ {0} /\ R.scopes \in Nat \ {0}
  BY DEF RegisterOK
<1>2. /\ R.owner[s] \in 0..(R.next - 1) /\ R.encl[s] \in 0..(R.next - 1)
      /\ R.names[s] \in [Name -> 0..(R.next - 1)]
      /\ R.parent[s] \in Nat /\ R.parent[s] < s
  BY DEF RegisterOK
<1> QED
  BY <1>1, <1>2 DEF IdsOf

\* A register follows itself, and following is transitive.
LEMMA FollowsSelf ==
    ASSUME NEW R, RegisterOK(R) PROVE Follows(R, R)
BY DEF Follows, RegisterOK

LEMMA FollowsTransitive ==
    ASSUME NEW P, NEW Q, NEW R, RegisterOK(P), RegisterOK(Q), RegisterOK(R),
           Follows(Q, R), Follows(P, Q)
    PROVE  Follows(P, R)
<1>0. /\ R.next \in Nat /\ Q.next \in Nat /\ P.next \in Nat
      /\ R.scopes \in Nat /\ Q.scopes \in Nat /\ P.scopes \in Nat
  BY DEF RegisterOK
<1>a. /\ Q.next >= R.next /\ Q.scopes >= R.scopes
      /\ P.next >= Q.next /\ P.scopes >= Q.scopes
  BY DEF Follows
<1>1. IdsOf(R) \subseteq IdsOf(Q) /\ 1..R.scopes \subseteq 1..Q.scopes
  BY <1>0, <1>a DEF IdsOf
<1>2. P.next >= R.next /\ P.scopes >= R.scopes
  BY <1>0, <1>a
<1>3. \A i \in IdsOf(R) : P.flat[i] = R.flat[i]
  BY <1>1 DEF Follows
<1>4. \A s \in 1..R.scopes : P.parent[s] = R.parent[s]
  BY <1>1 DEF Follows
<1>5. \A s \in 1..R.scopes : R.owner[s] # 0 => P.owner[s] = R.owner[s]
  BY <1>1 DEF Follows
<1>6. \A s \in 1..R.scopes, n \in Name :
          R.names[s][n] # 0 => P.names[s][n] = R.names[s][n]
  BY <1>1 DEF Follows
<1> QED
  BY <1>2, <1>3, <1>4, <1>5, <1>6 DEF Follows

-----------------------------------------------------------------------------
(* The two inserts.                                                        *)

\* What the caller of Store guarantees of the stamp it passes.
StampFits(R, s, d, fn) ==
    /\ fn \in 0..(R.next - 1)
    /\ fn # 0 => fn = R.encl[s] /\ R.flat[fn].tag = "Function"
    /\ fn = OwnerFn(R, s) \/ (d.tag = "Param" /\ fn = 0)

\* The fields of the register after Store, id by id and scope by scope.
LEMMA StoreFields ==
    ASSUME NEW R, RegisterOK(R), NEW d \in Insertable, NEW s \in 1..R.scopes,
           NEW fn \in 0..(R.next - 1)
    PROVE  LET Q == Store(R, s, d, fn) IN
           /\ Q.next = R.next + 1 /\ Q.scopes = R.scopes
           /\ Q.cap = GrowFlat(R.cap, R.next)
           /\ Q.flat \in [IdsOf(Q) -> EntryType]
           /\ Q.flat[R.next] = Entry(d, s, fn)
           /\ \A i \in IdsOf(R) : Q.flat[i] = R.flat[i]
           /\ IdsOf(Q) = IdsOf(R) \cup {R.next}
           /\ Q.parent = R.parent /\ Q.owner = R.owner /\ Q.encl = R.encl
           /\ Q.names \in [1..R.scopes -> [Name -> 0..R.next]]
           /\ \A t \in 1..R.scopes, n \in Name :
                  Q.names[t][n] = IF t = s /\ n = d.name /\ R.names[t][n] = 0
                                  THEN R.next ELSE R.names[t][n]
<1> DEFINE Q == Store(R, s, d, fn)
<1>1. /\ Q.next = R.next + 1 /\ Q.scopes = R.scopes
      /\ Q.cap = GrowFlat(R.cap, R.next)
      /\ Q.parent = R.parent /\ Q.owner = R.owner /\ Q.encl = R.encl
      /\ Q.flat = Extend(R.flat, R.next, Entry(d, s, fn))
      /\ Q.names = [R.names EXCEPT ![s] = PutName(R.names[s], d.name, R.next)]
  BY DEF Store
<1>2. R.next \in Nat \ {0} /\ R.scopes \in Nat
  BY DEF RegisterOK
<1>3. Entry(d, s, fn) \in EntryType
  BY <1>2, EntryTyped
<1>4. R.flat \in [1..(R.next - 1) -> EntryType] /\ R.next - 1 \in Nat
  BY <1>2 DEF RegisterOK, IdsOf
<1>5. /\ Q.flat \in [IdsOf(Q) -> EntryType]
      /\ Q.flat[R.next] = Entry(d, s, fn)
      /\ \A i \in IdsOf(R) : Q.flat[i] = R.flat[i]
  <2>1. R.next - 1 + 1 = R.next /\ IdsOf(Q) = 1..R.next /\ IdsOf(R) = 1..(R.next - 1)
    BY <1>1, <1>2 DEF IdsOf
  <2>2. DOMAIN R.flat \cup {R.next} = 1..R.next
    BY <1>2, <1>4
  <2>3. Q.flat = [i \in 1..R.next |->
                      IF i = R.next THEN Entry(d, s, fn) ELSE R.flat[i]]
    BY <1>1, <2>2 DEF Extend
  <2> HIDE DEF Q
  <2> QED
    BY <1>2, <1>3, <1>4, <2>1, <2>3
<1>6. IdsOf(Q) = IdsOf(R) \cup {R.next}
  BY <1>1, <1>2 DEF IdsOf
<1>7. PutName(R.names[s], d.name, R.next) \in [Name -> 0..R.next]
  BY <1>2, SMTT(30) DEF PutName, RegisterOK
<1>8. Q.names \in [1..R.scopes -> [Name -> 0..R.next]]
  BY <1>1, <1>2, <1>7, SMTT(30) DEF RegisterOK
<1>9. \A t \in 1..R.scopes, n \in Name :
         Q.names[t][n] = IF t = s /\ n = d.name /\ R.names[t][n] = 0
                         THEN R.next ELSE R.names[t][n]
  BY <1>1, <1>2 DEF PutName, RegisterOK
<1> QED
  BY <1>1, <1>5, <1>6, <1>8, <1>9

\* An insert whose stamp fits keeps the register well formed.
LEMMA StoreWellFormed ==
    ASSUME NEW R, WellFormed(R), NEW d \in Insertable, NEW s \in 1..R.scopes,
           NEW fn, StampFits(R, s, d, fn)
    PROVE  /\ WellFormed(Store(R, s, d, fn))
           /\ Follows(Store(R, s, d, fn), R)
<1> DEFINE Q == Store(R, s, d, fn)
<1>1. RegisterOK(R)
  BY DEF WellFormed
<1>2. R.next \in Nat \ {0} /\ R.scopes \in Nat \ {0} /\ fn \in 0..(R.next - 1)
  BY <1>1 DEF RegisterOK, StampFits
<1>3. /\ Q.next = R.next + 1 /\ Q.scopes = R.scopes
      /\ Q.cap = GrowFlat(R.cap, R.next)
      /\ Q.flat \in [IdsOf(Q) -> EntryType]
      /\ Q.flat[R.next] = Entry(d, s, fn)
      /\ \A i \in IdsOf(R) : Q.flat[i] = R.flat[i]
      /\ IdsOf(Q) = IdsOf(R) \cup {R.next}
      /\ Q.parent = R.parent /\ Q.owner = R.owner /\ Q.encl = R.encl
      /\ Q.names \in [1..R.scopes -> [Name -> 0..R.next]]
      /\ \A t \in 1..R.scopes, n \in Name :
             Q.names[t][n] = IF t = s /\ n = d.name /\ R.names[t][n] = 0
                             THEN R.next ELSE R.names[t][n]
  BY <1>1, <1>2, StoreFields
<1> HIDE DEF Q
<1>4. /\ Entry(d, s, fn).scope = s /\ Entry(d, s, fn).fn = fn
      /\ Entry(d, s, fn).name = d.name /\ Entry(d, s, fn).tag = d.tag
  BY DEF Entry
<1>5. CapOK(R) /\ CapOK(Q) /\ Q.cap \in Nat
  BY <1>1, <1>2, <1>3, FlatCapAssumption DEF WellFormed, CapOK, GrowFlat, RegisterOK
<1>6. RegisterOK(Q)
  <2>1. ASSUME NEW i \in IdsOf(Q)
        PROVE  Q.flat[i].scope \in 1..Q.scopes /\ Q.flat[i].fn < i
    <3>1. CASE i = R.next
      BY <3>1, <1>2, <1>3, <1>4
    <3>2. CASE i \in IdsOf(R)
      BY <3>2, <1>1, <1>3 DEF RegisterOK
    <3> QED
      BY <3>1, <3>2, <1>3
  <2>2. /\ Q.owner \in [1..Q.scopes -> 0..(Q.next - 1)]
        /\ Q.encl \in [1..Q.scopes -> 0..(Q.next - 1)]
    BY <1>1, <1>2, <1>3 DEF RegisterOK
  <2>3. Q.next - 1 = R.next
    BY <1>2, <1>3
  <2>4. Q.names \in [1..Q.scopes -> [Name -> 0..(Q.next - 1)]]
    BY <1>3, <2>3
  <2>5. /\ Q.parent \in [1..Q.scopes -> Nat]
        /\ \A t \in 1..Q.scopes : Q.parent[t] < t
    BY <1>1, <1>3 DEF RegisterOK
  <2>6. Q.next \in Nat \ {0} /\ Q.scopes \in Nat \ {0}
    BY <1>2, <1>3, SMTT(30)
  <2> QED
    BY <1>3, <1>5, <2>1, <2>2, <2>4, <2>5, <2>6 DEF RegisterOK
<1>7. NamesOK(Q)
  <2>1. ASSUME NEW t \in 1..Q.scopes, NEW n \in Name, Q.names[t][n] # 0
        PROVE  Q.flat[Q.names[t][n]].scope = t /\ Q.flat[Q.names[t][n]].name = n
    <3>1. CASE t = s /\ n = d.name /\ R.names[t][n] = 0
      BY <3>1, <1>3, <1>4
    <3>2. CASE ~(t = s /\ n = d.name /\ R.names[t][n] = 0)
      <4>0. t \in 1..R.scopes
        BY <1>3
      <4>1. Q.names[t][n] = R.names[t][n]
        BY <3>2, <4>0, <1>3
      <4>2. R.names[t][n] \in 0..(R.next - 1)
        BY <4>0, <1>1, SMTT(30) DEF RegisterOK
      <4>3. R.names[t][n] \in IdsOf(R)
        BY <4>1, <4>2, <2>1, <1>2 DEF IdsOf
      <4>4. NamesOK(R)
        BY DEF WellFormed
      <4>5. /\ R.flat[R.names[t][n]].scope = t
            /\ R.flat[R.names[t][n]].name = n
        BY <4>0, <4>1, <4>4, <2>1 DEF NamesOK
      <4> QED
        BY <4>1, <4>3, <4>5, <1>3
    <3> QED
      BY <3>1, <3>2
  <2>2. ASSUME NEW i \in IdsOf(Q), Q.flat[i].name \in Name
        PROVE  Q.names[Q.flat[i].scope][Q.flat[i].name] \in 1..i
    <3>1. CASE i = R.next
      <4>1. Q.flat[i].scope = s /\ Q.flat[i].name = d.name /\ d.name \in Name
        BY <3>1, <2>2, <1>3, <1>4
      <4>2. R.names[s][d.name] \in 0..(R.next - 1)
        BY <4>1, <1>1, ScopeFacts
      <4>3. Q.names[s][d.name] \in 1..R.next
        <5>1. Q.names[s][d.name] = IF R.names[s][d.name] = 0
                                   THEN R.next ELSE R.names[s][d.name]
          BY <4>1, <1>3
        <5> QED
          BY <5>1, <4>2, <1>2
      <4> QED
        BY <3>1, <4>1, <4>3
    <3>2. CASE i \in IdsOf(R)
      <4> DEFINE t == R.flat[i].scope
                 n == R.flat[i].name
      <4>1. Q.flat[i] = R.flat[i] /\ n \in Name /\ t \in 1..R.scopes /\ i \in Nat
        BY <3>2, <2>2, <1>1, <1>3, EntryFacts, SMTT(30)
      <4>2. R.names[t][n] \in 1..i
        BY <3>2, <4>1 DEF WellFormed, NamesOK
      <4> HIDE DEF t, n
      <4>3. R.names[t][n] # 0
        BY <4>1, <4>2
      <4>4. Q.names[t][n] = R.names[t][n]
        BY <4>1, <4>3, <1>3
      <4> QED
        BY <4>1, <4>2, <4>4 DEF t, n
    <3> QED
      BY <3>1, <3>2, <1>3
  <2> QED
    BY <2>1, <2>2 DEF NamesOK
<1>8. ASSUME NEW t \in 1..R.scopes
      PROVE  /\ Q.owner[t] = R.owner[t] /\ OwnerFn(Q, t) = OwnerFn(R, t)
             /\ R.owner[t] # 0 => /\ R.owner[t] \in IdsOf(R)
                                  /\ Q.flat[R.owner[t]] = R.flat[R.owner[t]]
  <2>1. Q.owner[t] = R.owner[t]
    BY <1>3
  <2>2. R.owner[t] # 0 => R.owner[t] \in IdsOf(R)
    BY <1>1, ScopeFacts
  <2>3. R.owner[t] # 0 => Q.flat[R.owner[t]] = R.flat[R.owner[t]]
    BY <2>2, <1>3
  <2> QED
    BY <2>1, <2>2, <2>3 DEF OwnerFn
<1>9. OwnersOK(Q)
  <2>1. ASSUME NEW i \in IdsOf(Q), Q.flat[i].fn # 0
        PROVE  /\ Q.flat[i].fn = Q.encl[Q.flat[i].scope]
               /\ Q.flat[Q.flat[i].fn].tag = "Function"
    <3>1. CASE i = R.next
      BY <3>1, <2>1, <1>2, <1>3, <1>4 DEF StampFits, IdsOf
    <3>2. CASE i \in IdsOf(R)
      <4>1. Q.flat[i] = R.flat[i] /\ R.flat[i].fn \in IdsOf(R)
        BY <3>2, <2>1, <1>1, <1>3, EntryFacts
      <4> QED
        BY <3>2, <2>1, <4>1, <1>3 DEF WellFormed, OwnersOK
    <3> QED
      BY <3>1, <3>2, <1>3
  <2> QED
    BY <2>1 DEF OwnersOK
<1>10. LinksOK(Q)
  BY <1>1, <1>3, <1>8 DEF WellFormed, LinksOK
<1>11. StampsOK(Q)
  <2>1. ASSUME NEW i \in IdsOf(Q)
        PROVE  \/ Q.flat[i].fn = OwnerFn(Q, Q.flat[i].scope)
               \/ Q.flat[i].tag = "Param" /\ Q.flat[i].fn = 0
    <3>1. CASE i = R.next
      BY <3>1, <1>3, <1>4, <1>8 DEF StampFits
    <3>2. CASE i \in IdsOf(R)
      <4>1. /\ Q.flat[i] = R.flat[i] /\ R.flat[i].scope \in 1..R.scopes
            /\ OwnerFn(Q, R.flat[i].scope) = OwnerFn(R, R.flat[i].scope)
        BY <3>2, <1>1, <1>3, <1>8, EntryFacts
      <4>2. StampsOK(R)
        BY DEF WellFormed
      <4> QED
        BY <3>2, <4>1, <4>2 DEF StampsOK
    <3> QED
      BY <3>1, <3>2, <1>3
  <2> QED
    BY <2>1 DEF StampsOK
<1>12. Follows(Q, R)
  BY <1>1, <1>2, <1>3 DEF Follows, RegisterOK
<1> QED
  BY <1>5, <1>6, <1>7, <1>9, <1>10, <1>11, <1>12 DEF WellFormed, Q

-----------------------------------------------------------------------------
(* Steps of a handler.  Within(Q, R, s): a handler working in scope s takes *)
(* the register from R to Q.  It keeps the register well formed, touches    *)
(* neither owner nor enclosing function of the scopes that were there, and  *)
(* inserts in s and in scopes of its own only.                              *)

Within(Q, R, s) ==
    /\ WellFormed(Q)
    /\ Follows(Q, R)
    /\ \A t \in 1..R.scopes : Q.owner[t] = R.owner[t] /\ Q.encl[t] = R.encl[t]
    /\ \A i \in IdsOf(Q) \ IdsOf(R) :
           Q.flat[i].scope = s \/ Q.flat[i].scope > R.scopes

\* Sizes only grow, as numbers.
LEMMA Sizes ==
    ASSUME NEW R, WellFormed(R)
    PROVE  R.next \in Nat \ {0} /\ R.scopes \in Nat \ {0} /\ RegisterOK(R)
BY DEF WellFormed, RegisterOK

LEMMA WithinSizes ==
    ASSUME NEW R, WellFormed(R), NEW Q, NEW s, Within(Q, R, s)
    PROVE  /\ WellFormed(Q) /\ RegisterOK(Q)
           /\ Q.next \in Nat \ {0} /\ Q.scopes \in Nat \ {0}
           /\ Q.next >= R.next /\ Q.scopes >= R.scopes
           /\ 1..R.scopes \subseteq 1..Q.scopes /\ IdsOf(R) \subseteq IdsOf(Q)
BY Sizes DEF Within, Follows, IdsOf

LEMMA WithinSelf ==
    ASSUME NEW R, WellFormed(R), NEW s PROVE Within(R, R, s)
BY FollowsSelf, Sizes DEF Within

\* Steps compose when the second works in the same scope or in a new one.
LEMMA WithinTransitive ==
    ASSUME NEW R, WellFormed(R), NEW Q, NEW P, NEW s, NEW t \in Nat,
           Within(Q, R, s), Within(P, Q, t), t = s \/ t > R.scopes
    PROVE  Within(P, R, s)
<1>1. /\ WellFormed(Q) /\ RegisterOK(Q) /\ RegisterOK(R)
      /\ Q.next \in Nat /\ Q.scopes \in Nat /\ R.scopes \in Nat
      /\ Q.scopes >= R.scopes
      /\ 1..R.scopes \subseteq 1..Q.scopes /\ IdsOf(R) \subseteq IdsOf(Q)
  BY WithinSizes, Sizes
<1>2. /\ WellFormed(P) /\ RegisterOK(P) /\ IdsOf(Q) \subseteq IdsOf(P)
  BY <1>1, WithinSizes
<1>3. Follows(P, R)
  BY <1>1, <1>2, FollowsTransitive DEF Within
<1>4. \A u \in 1..R.scopes : P.owner[u] = R.owner[u] /\ P.encl[u] = R.encl[u]
  BY <1>1 DEF Within
<1>5. ASSUME NEW i \in IdsOf(P) \ IdsOf(R)
      PROVE  P.flat[i].scope = s \/ P.flat[i].scope > R.scopes
  <2>1. CASE i \in IdsOf(Q)
    <3>1. P.flat[i] = Q.flat[i]
      BY <2>1 DEF Within, Follows
    <3> QED
      BY <2>1, <3>1 DEF Within
  <2>2. CASE i \notin IdsOf(Q)
    <3>1. P.flat[i].scope = t \/ P.flat[i].scope > Q.scopes
      BY <2>2 DEF Within
    <3>2. P.flat[i].scope \in Nat
      BY <1>2, EntryFacts
    <3> QED
      BY <1>1, <3>1, <3>2
  <2> QED
    BY <2>1, <2>2
<1> QED
  BY <1>2, <1>3, <1>4, <1>5 DEF Within

\* Any insert is a step, whatever its stamp, when the register stays well formed.
LEMMA StoreWithin ==
    ASSUME NEW R, WellFormed(R), NEW s \in 1..R.scopes, NEW d \in Insertable,
           NEW fn, StampFits(R, s, d, fn)
    PROVE  Within(Store(R, s, d, fn), R, s)
<1> DEFINE Q == Store(R, s, d, fn)
<1>1. RegisterOK(R) /\ fn \in 0..(R.next - 1)
  BY DEF WellFormed, StampFits
<1>2. WellFormed(Q) /\ Follows(Q, R)
  BY StoreWellFormed
<1>3. /\ Q.owner = R.owner /\ Q.encl = R.encl
      /\ IdsOf(Q) = IdsOf(R) \cup {R.next}
      /\ Q.flat[R.next] = Entry(d, s, fn)
  BY <1>1, StoreFields
<1>4. Entry(d, s, fn).scope = s
  BY DEF Entry
<1> HIDE DEF Q
<1>5. \A i \in IdsOf(Q) \ IdsOf(R) : Q.flat[i].scope = s
  BY <1>3, <1>4
<1>6. Within(Q, R, s)
  BY <1>2, <1>3, <1>5 DEF Within
<1> QED
  BY <1>6 DEF Q

\* register_insert, and register_insert_child for a parameter.
LEMMA InsertWithin ==
    ASSUME NEW R, WellFormed(R), NEW s \in 1..R.scopes, NEW d \in Insertable
    PROVE  /\ Within(RegisterInsert(R, s, d), R, s)
           /\ RegisterInsert(R, s, d).next = R.next + 1
           /\ RegisterInsert(R, s, d).scopes = R.scopes
           /\ RegisterInsert(R, s, d).flat[R.next] = Entry(d, s, OwnerFn(R, s))
<1> DEFINE o == R.owner[s]
           fn == OwnerFn(R, s)
<1>1. RegisterOK(R) /\ OwnersOK(R) /\ LinksOK(R)
  BY DEF WellFormed
<1>2. o # 0 => o \in IdsOf(R)
  BY <1>1, ScopeFacts
<1>3. StampFits(R, s, d, fn)
  <2>1. CASE o = 0
    BY <2>1, <1>1, Sizes DEF OwnerFn, StampFits
  <2>2. CASE o # 0 /\ R.flat[o].tag = "Function"
    <3>1. fn = o /\ R.encl[s] = o
      BY <2>2, <1>1 DEF OwnerFn, LinksOK
    <3> QED
      BY <2>2, <3>1, <1>1, ScopeFacts DEF StampFits
  <2>3. CASE o # 0 /\ R.flat[o].tag # "Function"
    <3>1. fn = R.flat[o].fn /\ R.encl[s] = R.encl[R.flat[o].scope]
      BY <2>3, <1>1 DEF OwnerFn, LinksOK
    <3>2. R.flat[o].fn \in 0..(o - 1) /\ o \in Nat /\ o < R.next /\ R.next \in Nat
      BY <2>3, <1>1, <1>2, EntryFacts, Sizes, SMTT(30)
    <3>3. fn # 0 => fn = R.encl[s] /\ R.flat[fn].tag = "Function"
      BY <2>3, <3>1, <1>1, <1>2 DEF OwnersOK
    <3>4. fn \in 0..(R.next - 1)
      BY <3>1, <3>2
    <3> QED
      BY <3>3, <3>4 DEF StampFits
  <2> QED
    BY <2>1, <2>2, <2>3
<1>4. fn \in 0..(R.next - 1)
  BY <1>3 DEF StampFits
<1>6. Within(Store(R, s, d, fn), R, s)
  BY <1>3, StoreWithin
<1> QED
  BY <1>1, <1>4, <1>6, StoreFields DEF RegisterInsert

LEMMA InsertChildWithin ==
    ASSUME NEW R, WellFormed(R), NEW s \in 1..R.scopes, NEW d \in Insertable,
           d.tag = "Param"
    PROVE  Within(RegisterInsertChild(R, s, d), R, s)
<1>1. RegisterOK(R) /\ 0 \in 0..(R.next - 1)
  BY Sizes
<1>2. StampFits(R, s, d, 0)
  BY <1>1 DEF StampFits
<1> QED
  BY <1>2, StoreWithin DEF RegisterInsertChild

-----------------------------------------------------------------------------
(* Scopes.                                                                 *)

\* make_child
LEMMA MakeChildWithin ==
    ASSUME NEW R, WellFormed(R), NEW s \in 1..R.scopes, NEW t
    PROVE  LET Q == MakeChild(R, s) IN
           /\ Within(Q, R, t)
           /\ Q.scopes = R.scopes + 1 /\ Q.next = R.next /\ Q.flat = R.flat
           /\ Q.encl[R.scopes + 1] = R.encl[s]
           /\ Q.owner[R.scopes + 1] = 0
<1> DEFINE Q == MakeChild(R, s)
           c == R.scopes + 1
           none == [n \in Name |-> 0]
<1>1. RegisterOK(R) /\ R.next \in Nat \ {0} /\ R.scopes \in Nat \ {0}
  BY Sizes
<1>2. /\ Q.next = R.next /\ Q.cap = R.cap /\ Q.flat = R.flat /\ Q.scopes = c
      /\ Q.parent = Extend(R.parent, c, s) /\ Q.owner = Extend(R.owner, c, 0)
      /\ Q.names = Extend(R.names, c, none)
      /\ Q.encl = Extend(R.encl, c, R.encl[s])
  BY DEF MakeChild
<1> HIDE DEF Q
<1>3. 1..R.scopes \cup {c} = 1..c /\ c \in Nat \ {0} /\ c \notin 1..R.scopes
  BY <1>1
<1>4. /\ DOMAIN R.parent = 1..R.scopes /\ DOMAIN R.owner = 1..R.scopes
      /\ DOMAIN R.names = 1..R.scopes /\ DOMAIN R.encl = 1..R.scopes
  BY <1>1 DEF RegisterOK
<1> HIDE DEF c
<1>5. /\ Q.parent = [t1 \in 1..c |-> IF t1 = c THEN s ELSE R.parent[t1]]
      /\ Q.owner = [t1 \in 1..c |-> IF t1 = c THEN 0 ELSE R.owner[t1]]
      /\ Q.names = [t1 \in 1..c |-> IF t1 = c THEN none ELSE R.names[t1]]
      /\ Q.encl = [t1 \in 1..c |-> IF t1 = c THEN R.encl[s] ELSE R.encl[t1]]
  BY <1>2, <1>3, <1>4 DEF Extend
<1>6. s \in 1..c /\ s < c /\ s \in Nat
  BY <1>1 DEF c
<1>7. \A u \in 1..c : u \in 1..R.scopes \/ u = c
  BY <1>3
<1>8. IdsOf(Q) = IdsOf(R)
  BY <1>2 DEF IdsOf
<1>9. R.encl[s] \in 0..(R.next - 1) /\ 0 \in 0..(R.next - 1)
  BY <1>1, ScopeFacts
<1>10. RegisterOK(Q)
  <2>1. /\ Q.parent \in [1..c -> Nat]
        /\ \A u \in 1..c : Q.parent[u] < u
    BY <1>1, <1>5, <1>6, <1>7, ScopeFacts
  <2>2. Q.owner \in [1..c -> 0..(R.next - 1)] /\ Q.encl \in [1..c -> 0..(R.next - 1)]
    BY <1>1, <1>5, <1>7, <1>9, ScopeFacts
  <2>3. Q.names \in [1..c -> [Name -> 0..(R.next - 1)]]
    BY <1>1, <1>5, <1>7, <1>9, ScopeFacts
  <2>4. \A i \in IdsOf(Q) : Q.flat[i].scope \in 1..c /\ Q.flat[i].fn < i
    BY <1>1, <1>2, <1>3, <1>8 DEF RegisterOK
  <2>5. Q.flat \in [IdsOf(Q) -> EntryType] /\ Q.cap \in Nat
    BY <1>1, <1>2, <1>8 DEF RegisterOK
  <2> QED
    BY <1>1, <1>2, <1>3, <2>1, <2>2, <2>3, <2>4, <2>5 DEF RegisterOK
<1>11. \A u \in 1..R.scopes : /\ Q.owner[u] = R.owner[u] /\ Q.encl[u] = R.encl[u]
                              /\ Q.names[u] = R.names[u] /\ Q.parent[u] = R.parent[u]
                              /\ u \in 1..c
  BY <1>3, <1>5, SMTT(30)
<1>12. Q.owner[c] = 0 /\ Q.encl[c] = R.encl[s] /\ Q.names[c] = none
  BY <1>3, <1>5
<1>13. \A i \in IdsOf(R) : R.flat[i].scope \in 1..R.scopes
  BY <1>1, EntryFacts
<1>14. CapOK(Q)
  BY <1>2 DEF CapOK, WellFormed
<1>15. NamesOK(Q)
  <2>1. \A u \in 1..c, n \in Name :
            Q.names[u][n] # 0 => u \in 1..R.scopes /\ Q.names[u] = R.names[u]
    BY <1>7, <1>11, <1>12
  <2>2. NamesOK(R)
    BY <1>2 DEF WellFormed
  <2>3. ASSUME NEW u \in 1..c, NEW n \in Name, Q.names[u][n] # 0
        PROVE  Q.flat[Q.names[u][n]].scope = u /\ Q.flat[Q.names[u][n]].name = n
    <3>1. u \in 1..R.scopes /\ Q.names[u] = R.names[u]
      BY <2>1, <2>3
    <3>2. R.names[u][n] # 0 /\ Q.flat = R.flat
      BY <2>3, <3>1, <1>2
    <3>3. R.flat[R.names[u][n]].scope = u /\ R.flat[R.names[u][n]].name = n
      BY <2>2, <3>1, <3>2 DEF NamesOK
    <3> QED
      BY <3>1, <3>2, <3>3
  <2>4. ASSUME NEW i \in IdsOf(R), R.flat[i].name \in Name
        PROVE  Q.names[R.flat[i].scope][R.flat[i].name] \in 1..i
    BY <2>2, <2>4, <1>11, <1>13 DEF NamesOK
  <2>5. Q.scopes = c /\ Q.flat = R.flat
    BY <1>2
  <2> QED
    BY <2>3, <2>4, <2>5, <1>8 DEF NamesOK
<1>16. OwnersOK(Q)
  BY <1>2, <1>8, <1>11, <1>13 DEF OwnersOK, WellFormed
<1>17. LinksOK(Q)
  <2>1. ASSUME NEW u \in 1..R.scopes, R.owner[u] # 0
        PROVE  Q.encl[u] = IF R.flat[R.owner[u]].tag = "Function" THEN R.owner[u]
                           ELSE Q.encl[R.flat[R.owner[u]].scope]
    <3>1. R.owner[u] \in IdsOf(R)
      BY <2>1, <1>1, ScopeFacts
    <3> QED
      BY <2>1, <3>1, <1>11, <1>13 DEF LinksOK, WellFormed
  <2> QED
    BY <2>1, <1>2, <1>7, <1>11, <1>12 DEF LinksOK
<1>18. StampsOK(Q)
  <2>1. StampsOK(R)
    BY DEF WellFormed
  <2>2. ASSUME NEW u \in 1..R.scopes PROVE OwnerFn(Q, u) = OwnerFn(R, u)
    BY <1>2, <1>11 DEF OwnerFn
  <2>3. ASSUME NEW i \in IdsOf(R)
        PROVE  \/ R.flat[i].fn = OwnerFn(Q, R.flat[i].scope)
               \/ R.flat[i].tag = "Param" /\ R.flat[i].fn = 0
    BY <2>1, <2>2, <1>13 DEF StampsOK
  <2>4. Q.flat = R.flat
    BY <1>2
  <2> QED
    BY <2>3, <2>4, <1>8 DEF StampsOK
<1>19. Follows(Q, R)
  BY <1>1, <1>2, <1>3, <1>11 DEF Follows, c
<1>20. Within(Q, R, t)
  BY <1>8, <1>10, <1>11, <1>14, <1>15, <1>16, <1>17, <1>18, <1>19
     DEF Within, WellFormed
<1> QED
  BY <1>2, <1>12, <1>20 DEF Q, c

\* child->owner_id = o on a scope nothing was inserted in yet.
LEMMA SetOwnerWellFormed ==
    ASSUME NEW R, WellFormed(R), NEW s \in 1..R.scopes, NEW o \in IdsOf(R),
           R.owner[s] = 0,
           \A i \in IdsOf(R) : R.flat[i].scope # s,
           R.flat[o].tag = "Function" \/ R.encl[R.flat[o].scope] = R.encl[s]
    PROVE  WellFormed(SetOwner(R, s, o)) /\ Follows(SetOwner(R, s, o), R)
<1> DEFINE Q == SetOwner(R, s, o)
<1>1. RegisterOK(R) /\ R.next \in Nat \ {0} /\ R.scopes \in Nat \ {0}
  BY Sizes
<1>2. /\ Q.next = R.next /\ Q.cap = R.cap /\ Q.flat = R.flat
      /\ Q.scopes = R.scopes /\ Q.parent = R.parent /\ Q.names = R.names
      /\ Q.owner = [R.owner EXCEPT ![s] = o]
      /\ Q.encl = IF R.flat[o].tag = "Function" THEN [R.encl EXCEPT ![s] = o]
                  ELSE R.encl
  BY DEF SetOwner
<1> HIDE DEF Q
<1>3. IdsOf(Q) = IdsOf(R) /\ o \in 0..(R.next - 1) /\ o # 0
  BY <1>1, <1>2 DEF IdsOf
<1>4. /\ R.owner \in [1..R.scopes -> 0..(R.next - 1)]
      /\ R.encl \in [1..R.scopes -> 0..(R.next - 1)]
  BY <1>1 DEF RegisterOK
<1>5. /\ Q.owner \in [1..R.scopes -> 0..(R.next - 1)]
      /\ Q.encl \in [1..R.scopes -> 0..(R.next - 1)]
      /\ Q.owner[s] = o
      /\ Q.encl[s] = IF R.flat[o].tag = "Function" THEN o ELSE R.encl[s]
      /\ \A u \in 1..R.scopes :
             u # s => Q.owner[u] = R.owner[u] /\ Q.encl[u] = R.encl[u]
  <2>1. /\ Q.owner \in [1..R.scopes -> 0..(R.next - 1)] /\ Q.owner[s] = o
        /\ \A u \in 1..R.scopes : u # s => Q.owner[u] = R.owner[u]
    <3>1. Q.owner = [R.owner EXCEPT ![s] = o]
      BY <1>2
    <3> QED
      BY <3>1, <1>3, <1>4
  <2>2. CASE R.flat[o].tag = "Function"
    <3>1. Q.encl = [R.encl EXCEPT ![s] = o]
      BY <2>2, <1>2
    <3>2. /\ Q.encl \in [1..R.scopes -> 0..(R.next - 1)] /\ Q.encl[s] = o
          /\ \A u \in 1..R.scopes : u # s => Q.encl[u] = R.encl[u]
      BY <3>1, <1>3, <1>4
    <3> QED
      BY <2>1, <2>2, <3>2
  <2>3. CASE R.flat[o].tag # "Function"
    <3>1. Q.encl = R.encl
      BY <2>3, <1>2
    <3> QED
      BY <2>1, <2>3, <3>1, <1>4
  <2> QED
    BY <2>2, <2>3
<1>6. RegisterOK(Q)
  BY <1>1, <1>2, <1>3, <1>5 DEF RegisterOK
<1>7. \A i \in IdsOf(R) : R.flat[i].scope \in 1..R.scopes /\ R.flat[i].scope # s
  BY <1>1, EntryFacts
<1>8. CapOK(Q) /\ NamesOK(Q)
  <2>1. CapOK(R) /\ NamesOK(R)
    BY DEF WellFormed
  <2>2. CapOK(Q)
    BY <2>1, <1>2 DEF CapOK
  <2>3. Q.next = R.next /\ Q.flat = R.flat /\ Q.scopes = R.scopes /\ Q.names = R.names
    BY <1>2
  <2>4. ASSUME NEW u \in 1..Q.scopes, NEW n \in Name, Q.names[u][n] # 0
        PROVE  Q.flat[Q.names[u][n]].scope = u /\ Q.flat[Q.names[u][n]].name = n
    <3>1. u \in 1..R.scopes /\ R.names[u][n] # 0
      BY <2>3, <2>4, SMTT(30)
    <3>2. R.flat[R.names[u][n]].scope = u /\ R.flat[R.names[u][n]].name = n
      BY <2>1, <3>1 DEF NamesOK
    <3> QED
      BY <2>3, <3>2
  <2>5. ASSUME NEW i \in IdsOf(Q), Q.flat[i].name \in Name
        PROVE  Q.names[Q.flat[i].scope][Q.flat[i].name] \in 1..i
    <3>1. R.names[R.flat[i].scope][R.flat[i].name] \in 1..i
      BY <2>1, <2>3, <2>5, <1>3, SMTT(30) DEF NamesOK
    <3> QED
      BY <2>3, <3>1, SMTT(30)
  <2>6. NamesOK(Q)
    BY <2>4, <2>5 DEF NamesOK
  <2> QED
    BY <2>2, <2>6
<1>9. OwnersOK(Q)
  BY <1>2, <1>3, <1>5, <1>7 DEF OwnersOK, WellFormed
<1>10. LinksOK(Q)
  <2>1. ASSUME NEW u \in 1..R.scopes, Q.owner[u] # 0
        PROVE  Q.encl[u] = IF R.flat[Q.owner[u]].tag = "Function" THEN Q.owner[u]
                           ELSE Q.encl[R.flat[Q.owner[u]].scope]
    <3>1. CASE u = s
      BY <3>1, <1>5, <1>7
    <3>2. CASE u # s
      <4>1. Q.owner[u] = R.owner[u] /\ Q.encl[u] = R.encl[u] /\ R.owner[u] \in IdsOf(R)
        BY <3>2, <2>1, <1>1, <1>5, ScopeFacts
      <4>2. LinksOK(R)
        BY DEF WellFormed
      <4>3. R.encl[u] = IF R.flat[R.owner[u]].tag = "Function" THEN R.owner[u]
                        ELSE R.encl[R.flat[R.owner[u]].scope]
        BY <2>1, <4>1, <4>2 DEF LinksOK
      <4>4. Q.encl[R.flat[R.owner[u]].scope] = R.encl[R.flat[R.owner[u]].scope]
        BY <4>1, <1>5, <1>7
      <4> QED
        BY <4>1, <4>3, <4>4
    <3> QED
      BY <3>1, <3>2
  <2>2. Q.scopes = R.scopes /\ Q.flat = R.flat
    BY <1>2
  <2> QED
    BY <2>1, <2>2 DEF LinksOK
<1>11. StampsOK(Q)
  <2>1. StampsOK(R)
    BY DEF WellFormed
  <2>2. ASSUME NEW u \in 1..R.scopes, u # s PROVE OwnerFn(Q, u) = OwnerFn(R, u)
    BY <2>2, <1>2, <1>5 DEF OwnerFn
  <2>3. ASSUME NEW i \in IdsOf(R)
        PROVE  \/ R.flat[i].fn = OwnerFn(Q, R.flat[i].scope)
               \/ R.flat[i].tag = "Param" /\ R.flat[i].fn = 0
    BY <2>1, <2>2, <1>7 DEF StampsOK
  <2>4. IdsOf(Q) = IdsOf(R) /\ Q.flat = R.flat
    BY <1>2, <1>3
  <2> QED
    BY <2>3, <2>4 DEF StampsOK
<1>12. Follows(Q, R)
  BY <1>1, <1>2, <1>5 DEF Follows
<1> QED
  BY <1>6, <1>8, <1>9, <1>10, <1>11, <1>12 DEF WellFormed, Q

\* The global scope of an empty program.
LEMMA RegisterNewWellFormed == WellFormed(RegisterNew)
<1> DEFINE R == RegisterNew
<1>1. /\ R.next = 1 /\ R.cap = 0 /\ R.scopes = 1 /\ R.flat = <<>>
      /\ R.parent = <<0>> /\ R.owner = <<0>> /\ R.encl = <<0>>
      /\ R.names = <<[n \in Name |-> 0]>>
  BY DEF RegisterNew
<1> HIDE DEF R
<1>2. IdsOf(R) = {} /\ 1..R.scopes = {1} /\ 0..(R.next - 1) = {0}
  BY <1>1 DEF IdsOf
<1>3. /\ R.flat \in [{} -> EntryType] /\ R.parent \in [{1} -> Nat]
      /\ R.owner \in [{1} -> {0}] /\ R.encl \in [{1} -> {0}]
      /\ R.names \in [{1} -> [Name -> {0}]]
      /\ R.parent[1] = 0 /\ R.owner[1] = 0 /\ R.names[1] = [n \in Name |-> 0]
  BY <1>1
<1>4. RegisterOK(R)
  BY <1>1, <1>2, <1>3 DEF RegisterOK
<1> QED
  BY <1>1, <1>2, <1>3, <1>4
     DEF R, WellFormed, CapOK, NamesOK, OwnersOK, LinksOK, StampsOK
-----------------------------------------------------------------------------
(* What register_get finds.  It is a recursive function over the scopes;   *)
(* the facts about it rest on the least scope a claim fails for.           *)

\* Every nonempty set of numbers has a least one.
LEMMA Least ==
    ASSUME NEW S \in SUBSET Nat, S # {}
    PROVE  \E n \in S : \A m \in S : n <= m
<1>1. IsWellFoundedOn(OpToRel(<, Nat), Nat)
  BY NatLessThanWellFounded
<1>2. PICK n \in S : \A m \in S : <<m, n>> \notin OpToRel(<, Nat)
  BY <1>1, WFMin
<1>3. ASSUME NEW m \in S PROVE n <= m
  <2>1. <<m, n>> \notin OpToRel(<, Nat)
    BY <1>2
  <2>2. ~(m < n)
    BY <2>1, SMT DEF OpToRel
  <2> QED
    BY <2>2
<1> QED
  BY <1>3

\* f is the table of register_get for the name n over the scopes up to m.
Nearest(f, R, n, m) ==
    f = [t \in 0..m |-> IF t = 0 THEN 0
                        ELSE IF R.names[t][n] # 0 THEN R.names[t][n]
                        ELSE f[R.parent[t]]]

LEMMA NearestExists ==
    ASSUME NEW R, RegisterOK(R), NEW n \in Name
    PROVE  \A m \in 0..R.scopes : \E f : Nearest(f, R, n, m)
<1> DEFINE Bad == {m \in 0..R.scopes : ~\E f : Nearest(f, R, n, m)}
<1>1. SUFFICES ASSUME Bad # {} PROVE FALSE
  OBVIOUS
<1>2. R.scopes \in Nat /\ Bad \in SUBSET Nat
  BY DEF RegisterOK
<1>3. PICK m \in Bad : \A k \in Bad : m <= k
  BY <1>1, <1>2, Least
<1>4. m \in 0..R.scopes /\ ~\E f : Nearest(f, R, n, m)
  BY <1>3
<1>5. CASE m = 0
  <2>1. Nearest([t \in 0..0 |-> 0], R, n, 0)
    BY DEF Nearest
  <2> QED
    BY <2>1, <1>4, <1>5
<1>6. CASE m # 0
  <2>1. m - 1 \in 0..R.scopes /\ ~(m <= m - 1) /\ m \in Nat /\ m - 1 \in Nat
    BY <1>2, <1>4, <1>6
  <2>2. PICK f : Nearest(f, R, n, m - 1)
    BY <2>1, <1>3
  <2> DEFINE v == IF R.names[m][n] # 0 THEN R.names[m][n] ELSE f[R.parent[m]]
             g == [t \in 0..m |-> IF t = m THEN v ELSE f[t]]
  <2>3. \A t \in 1..m : R.parent[t] \in 0..(t - 1)
    <3>1. ASSUME NEW t \in 1..m PROVE R.parent[t] \in 0..(t - 1)
      <4>1. t \in 1..R.scopes
        BY <1>2, <1>4
      <4> QED
        BY <4>1, ScopeFacts
    <3> QED
      BY <3>1
  <2>4. \A t \in 0..(m - 1) :
            f[t] = IF t = 0 THEN 0
                   ELSE IF R.names[t][n] # 0 THEN R.names[t][n] ELSE f[R.parent[t]]
    BY <2>2 DEF Nearest
  <2>5. \A t \in 0..(m - 1) : g[t] = f[t] /\ t \in 0..m /\ t # m
    BY <2>1
  <2>6. ASSUME NEW t \in 0..m
        PROVE  g[t] = IF t = 0 THEN 0
                      ELSE IF R.names[t][n] # 0 THEN R.names[t][n] ELSE g[R.parent[t]]
    <3>1. CASE t = m
      <4>1. R.parent[m] \in 0..(m - 1)
        BY <2>1, <2>3, <1>6
      <4>2. g[t] = v
        BY <3>1
      <4> HIDE DEF g
      <4> QED
        BY <3>1, <4>1, <4>2, <2>5, <1>6
    <3>2. CASE t # m
      <4>1. t \in 0..(m - 1)
        BY <2>1, <3>2
      <4>2. t # 0 => R.parent[t] \in 0..(m - 1)
        BY <2>1, <2>3, <4>1
      <4> HIDE DEF g
      <4> QED
        BY <4>1, <4>2, <2>4, <2>5
    <3> QED
      BY <3>1, <3>2
  <2>7. g = [t \in 0..m |-> IF t = 0 THEN 0
                            ELSE IF R.names[t][n] # 0 THEN R.names[t][n]
                            ELSE g[R.parent[t]]]
    BY <2>6
  <2>8. Nearest(g, R, n, m)
    BY <2>7 DEF Nearest
  <2> QED
    BY <2>8, <1>4
<1> QED
  BY <1>5, <1>6

LEMMA GetUnfolds ==
    ASSUME NEW R, RegisterOK(R), NEW n \in Name, NEW s \in 0..R.scopes
    PROVE  RegisterGet(R, s, n) =
               IF s = 0 THEN 0
               ELSE IF R.names[s][n] # 0 THEN R.names[s][n]
               ELSE RegisterGet(R, R.parent[s], n)
<1> DEFINE from == CHOOSE f : Nearest(f, R, n, R.scopes)
<1>1. R.scopes \in 0..R.scopes
  BY DEF RegisterOK
<1>2. Nearest(from, R, n, R.scopes)
  BY <1>1, NearestExists
<1>3. \A t : RegisterGet(R, t, n) = from[t]
  BY DEF RegisterGet, Nearest
<1> HIDE DEF from
<1>4. from[s] = IF s = 0 THEN 0
               ELSE IF R.names[s][n] # 0 THEN R.names[s][n] ELSE from[R.parent[s]]
  BY <1>2 DEF Nearest
<1> QED
  BY <1>3, <1>4

\* It finds an entry of that name, in a scope around s or in s itself.
LEMMA GetBelongs ==
    ASSUME NEW R, WellFormed(R), NEW n \in Name, NEW s \in 0..R.scopes,
           RegisterGet(R, s, n) # 0
    PROVE  /\ RegisterGet(R, s, n) \in IdsOf(R)
           /\ R.flat[RegisterGet(R, s, n)].name = n
           /\ R.flat[RegisterGet(R, s, n)].scope \in 1..s
<1> DEFINE Found(t) == LET i == RegisterGet(R, t, n)
                       IN i # 0 => /\ i \in IdsOf(R) /\ R.flat[i].name = n
                                   /\ R.flat[i].scope \in 1..t
           Bad == {t \in 0..R.scopes : ~Found(t)}
<1>1. RegisterOK(R) /\ NamesOK(R) /\ R.scopes \in Nat
  BY Sizes DEF WellFormed
<1>2. SUFFICES ASSUME Bad # {} PROVE FALSE
  OBVIOUS
<1>3. Bad \in SUBSET Nat
  BY <1>1
<1>4. PICK t \in Bad : \A u \in Bad : t <= u
  BY <1>2, <1>3, Least
<1>5. t \in 0..R.scopes /\ ~Found(t)
  BY <1>4
<1>6. RegisterGet(R, t, n) = IF t = 0 THEN 0
                             ELSE IF R.names[t][n] # 0 THEN R.names[t][n]
                             ELSE RegisterGet(R, R.parent[t], n)
  BY <1>1, <1>5, GetUnfolds
<1>7. t # 0
  BY <1>5, <1>6
<1>8. t \in 1..R.scopes
  BY <1>1, <1>5, <1>7
<1>9. CASE R.names[t][n] # 0
  <2>1. R.names[t][n] \in IdsOf(R)
    BY <1>1, <1>8, <1>9, ScopeFacts, Sizes, SMTT(30) DEF IdsOf
  <2>2. R.flat[R.names[t][n]].scope = t /\ R.flat[R.names[t][n]].name = n
    BY <1>1, <1>8, <1>9 DEF NamesOK
  <2> QED
    BY <1>5, <1>6, <1>7, <1>8, <1>9, <2>1, <2>2
<1>10. CASE R.names[t][n] = 0
  <2>1. R.parent[t] \in 0..(t - 1)
    BY <1>1, <1>8, ScopeFacts
  <2>2. R.parent[t] \in 0..R.scopes /\ ~(t <= R.parent[t])
    BY <1>1, <1>8, <2>1
  <2>3. Found(R.parent[t])
    BY <1>4, <2>2
  <2> QED
    BY <1>5, <1>6, <1>7, <1>8, <1>10, <2>1, <2>3
<1> QED
  BY <1>9, <1>10

\* The key of a name that a later register has and an earlier one has not is
\* that of an entry inserted in between.
LEMMA NewName ==
    ASSUME NEW R, WellFormed(R), NEW Q, WellFormed(Q), Follows(Q, R),
           NEW n \in Name, NEW s \in 1..R.scopes, Q.names[s][n] # R.names[s][n]
    PROVE  /\ R.names[s][n] = 0 /\ Q.names[s][n] \in IdsOf(Q) \ IdsOf(R)
           /\ Q.flat[Q.names[s][n]].scope = s /\ Q.flat[Q.names[s][n]].name = n
<1> DEFINE i == Q.names[s][n]
<1>1. /\ RegisterOK(R) /\ NamesOK(R) /\ RegisterOK(Q) /\ NamesOK(Q)
      /\ R.scopes \in Nat /\ Q.scopes \in Nat /\ Q.scopes >= R.scopes
  BY Sizes DEF WellFormed, Follows
<1>2. R.names[s][n] = 0
  BY DEF Follows
<1>3. s \in 1..Q.scopes /\ i # 0
  BY <1>1, <1>2, SMTT(30)
<1>4. i \in IdsOf(Q) /\ Q.flat[i].scope = s /\ Q.flat[i].name = n
  <2>1. i \in 0..(Q.next - 1) /\ Q.next \in Nat
    BY <1>1, <1>3, ScopeFacts, Sizes
  <2> QED
    BY <1>1, <1>3, <2>1 DEF NamesOK, IdsOf
<1>5. ASSUME i \in IdsOf(R) PROVE FALSE
  <2>1. R.flat[i].scope = s /\ R.flat[i].name = n
    BY <1>4, <1>5, SMTT(30) DEF Follows
  <2>2. R.names[s][n] \in 1..i
    BY <1>1, <1>5, <2>1 DEF NamesOK
  <2> QED
    BY <1>2, <2>2
<1> QED
  BY <1>2, <1>4, <1>5

\* What a name means changes only when a nearer scope declares it.
LEMMA GetFollows ==
    ASSUME NEW R, WellFormed(R), NEW Q, WellFormed(Q), Follows(Q, R),
           NEW n \in Name, NEW s \in 0..R.scopes, RegisterGet(R, s, n) # 0
    PROVE  \/ RegisterGet(Q, s, n) = RegisterGet(R, s, n)
           \/ /\ RegisterGet(Q, s, n) \in IdsOf(Q) \ IdsOf(R)
              /\ Q.flat[RegisterGet(Q, s, n)].scope > R.flat[RegisterGet(R, s, n)].scope
<1> DEFINE old(t) == RegisterGet(R, t, n)
           new(t) == RegisterGet(Q, t, n)
           Kept(t) == old(t) # 0 => \/ new(t) = old(t)
                                    \/ /\ new(t) \in IdsOf(Q) \ IdsOf(R)
                                       /\ Q.flat[new(t)].scope > R.flat[old(t)].scope
           Bad == {t \in 0..R.scopes : ~Kept(t)}
<1>1. /\ RegisterOK(R) /\ RegisterOK(Q) /\ R.scopes \in Nat /\ Q.scopes \in Nat
      /\ Q.scopes >= R.scopes
  BY Sizes DEF Follows
<1>2. SUFFICES ASSUME Bad # {} PROVE FALSE
  OBVIOUS
<1>3. Bad \in SUBSET Nat
  BY <1>1
<1>4. PICK t \in Bad : \A u \in Bad : t <= u
  BY <1>2, <1>3, Least
<1>5. t \in 0..R.scopes /\ ~Kept(t) /\ t \in 0..Q.scopes
  BY <1>1, <1>4
<1>6. /\ old(t) = IF t = 0 THEN 0 ELSE IF R.names[t][n] # 0 THEN R.names[t][n]
                  ELSE old(R.parent[t])
      /\ new(t) = IF t = 0 THEN 0 ELSE IF Q.names[t][n] # 0 THEN Q.names[t][n]
                  ELSE new(Q.parent[t])
  BY <1>1, <1>5, GetUnfolds
<1>7. t \in 1..R.scopes
  BY <1>1, <1>5, <1>6
<1>8. R.names[t][n] = 0
  <2>1. R.names[t][n] # 0 => Q.names[t][n] = R.names[t][n]
    BY <1>7 DEF Follows
  <2> QED
    BY <1>5, <1>6, <1>7, <2>1
<1>9. R.parent[t] \in 0..(t - 1) /\ Q.parent[t] = R.parent[t]
  BY <1>1, <1>7, ScopeFacts DEF Follows
<1>10. R.parent[t] \in 0..R.scopes /\ ~(t <= R.parent[t])
  BY <1>1, <1>7, <1>9
<1>11. Kept(R.parent[t])
  BY <1>4, <1>10
<1>12. CASE Q.names[t][n] = 0
  BY <1>5, <1>6, <1>7, <1>8, <1>9, <1>11, <1>12
<1>13. CASE Q.names[t][n] # 0
  <2>1. /\ Q.names[t][n] \in IdsOf(Q) \ IdsOf(R)
        /\ Q.flat[Q.names[t][n]].scope = t
    BY <1>7, <1>8, <1>13, NewName
  <2>2. old(t) = old(R.parent[t]) /\ new(t) = Q.names[t][n]
    BY <1>6, <1>7, <1>8, <1>13
  <2>3. ASSUME old(R.parent[t]) # 0 PROVE R.flat[old(R.parent[t])].scope \in 1..R.parent[t]
    BY <1>10, <2>3, GetBelongs
  <2>4. old(t) # 0 => t > R.flat[old(t)].scope
    BY <1>7, <1>9, <2>2, <2>3
  <2> QED
    BY <1>5, <2>1, <2>2, <2>4
<1> QED
  BY <1>12, <1>13
=============================================================================

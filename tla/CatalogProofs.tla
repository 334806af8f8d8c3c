----------------------------- MODULE CatalogProofs -----------------------------
(***************************************************************************)
(* CatalogSafe is inductive, and the safety properties of the catalogue    *)
(* follow from it, with a router and without, for any number of clients,   *)
(* arcsets, datasets and mount points.                                     *)
(***************************************************************************)
EXTENDS CatalogInv, FiniteSetTheorems, TLAPS

\* Only client c is changed, to a row of the right type.
Alone(c) ==
    /\ DOMAIN client' = Clients
    /\ client'[c] \in ClientRow(client'[c].seen)
    /\ \A e \in Clients \ {c} : client'[e] = client[e]

\* Client c begins a command: everything but it is as it was.
LEMMA Begins ==
    ASSUME CatalogTypes, NEW c \in Clients, NEW how, how \in ClientRow(how.seen), Begin(c, how)
    PROVE  Alone(c) /\ client'[c] = how /\ client[c].pc = "idle"
BY DEF CatalogTypes, Begin, At, Alone

\* Client c goes on to pc.
LEMMA Goes ==
    ASSUME CatalogTypes, NEW c \in Clients, NEW pc \in Mounting \cup Serialised, Go(c, pc)
    PROVE  /\ Alone(c) /\ client'[c].pc = pc
           /\ client'[c].a = client[c].a /\ client'[c].d = client[c].d /\ client'[c].mp = client[c].mp
           /\ client'[c].seen = client[c].seen /\ client'[c].list = client[c].list
           /\ client'[c].num = client[c].num
<1>1. client[c] \in ClientRow(client[c].seen) /\ DOMAIN client = Clients  BY DEF CatalogTypes
<1>2. client' = [client EXCEPT ![c] = [client[c] EXCEPT !.pc = pc]]  BY DEF Go
<1> QED  BY <1>1, <1>2 DEF Alone, ClientRow

\* Client c returns.
LEMMA Quits ==
    ASSUME CatalogTypes, NEW c \in Clients, Quit(c)
    PROVE  Alone(c) /\ client'[c] = Gone
BY DEF CatalogTypes, Quit, Alone, ClientRow, Gone, Mounting

\* Client c goes on with another list, sight or number.
LEMMA GoesWith ==
    ASSUME CatalogTypes, NEW c \in Clients, NEW how, how \in ClientRow(how.seen),
           client' = [client EXCEPT ![c] = how]
    PROVE  Alone(c) /\ client'[c] = how
BY DEF CatalogTypes, Alone

\* An arcset that takes the keys it lacks from a dataset that agrees shows them all,
\* and goes on showing those of the datasets it has.
LEMMA MergedShows ==
    ASSUME NEW meta \in Configs, NEW d \in Datasets, config \in [Datasets -> Configs]
    PROVE  /\ Merged(meta, d) \in Configs
           /\ Agrees(meta, d) => Shows(Merged(meta, d), d)
           /\ \A e \in Datasets : Shows(meta, e) => Shows(Merged(meta, d), e)
<1>1. Merged(meta, d) \in Configs  BY DEF Configs, Merged
<1>2. ASSUME Agrees(meta, d) PROVE Shows(Merged(meta, d), d)
  <2>1. ASSUME NEW k \in Keys PROVE config[d][k] \in {None, Merged(meta, d)[k]}
    <3>1. meta[k] = None \/ config[d][k] \in {None, meta[k]}  BY <1>2 DEF Agrees
    <3>2. Merged(meta, d)[k] = IF meta[k] = None THEN config[d][k] ELSE meta[k]  BY DEF Merged
    <3> QED  BY <3>1, <3>2
  <2> QED  BY <2>1 DEF Shows
<1>3. ASSUME NEW e \in Datasets, Shows(meta, e) PROVE Shows(Merged(meta, d), e)
  <2>1. ASSUME NEW k \in Keys PROVE config[e][k] \in {None, Merged(meta, d)[k]}
    <3>1. config[e][k] \in {None, meta[k]}  BY <1>3 DEF Shows
    <3>2. Merged(meta, d)[k] = IF meta[k] = None THEN config[d][k] ELSE meta[k]  BY DEF Merged
    <3> QED  BY <3>1, <3>2
  <2> QED  BY <2>1 DEF Shows
<1> QED  BY <1>1, <1>2, <1>3

\* What is compared depends on the configurations of the datasets alone.
LEMMA ConfigsKept ==
    ASSUME config' = config
    PROVE  /\ \A meta, d : Agrees(meta, d)' = Agrees(meta, d)
           /\ \A meta, d : Merged(meta, d)' = Merged(meta, d)
           /\ \A meta, d : Shows(meta, d)' = Shows(meta, d)
BY DEF Agrees, Merged, Shows

\* PGStore.Create on an empty catalogue.
LEMMA CatalogInitSafe == CatalogInit => CatalogSafe
<1> SUFFICES ASSUME CatalogInit PROVE CatalogSafe  OBVIOUS
<1> USE DEF CatalogInit
<1>1. rels = {} /\ \A a \in Arcsets : arcs[a] = None /\ manifest[a] = None  OBVIOUS
<1>2. \A c \in Clients : client[c] = Gone /\ Gone.pc = "idle" /\ Gone.a = None
  BY DEF Gone
<1>3. "idle" \notin Serialised /\ "idle" \in Mounting
  BY DEF Serialised, Appending, Exporting, InTransaction, Mounting
<1>4. CatalogTypes
  <2>1. Gone \in ClientRow(Gone.seen)  BY <1>3 DEF Gone, ClientRow
  <2>2. IsFiniteSet(rels)  BY <1>1, FS_EmptySet
  <2>3. "idle" \notin Appending  BY DEF Appending, InTransaction
  <2>4. config \in [Datasets -> Configs]  BY CatalogAssumption
  <2> QED  BY <1>1, <1>2, <1>3, <2>1, <2>2, <2>3, <2>4 DEF CatalogTypes
<1>5. RelationsExact
  <2>1. ASSUME NEW a \in Arcsets PROVE {r.order : r \in Related(a)} = 0 .. Cardinality(Related(a)) - 1
    <3>1. Related(a) = {} /\ Cardinality({}) = 0  BY <1>1, FS_EmptySet DEF Related
    <3> QED  BY <3>1
  <2> QED  BY <1>1, <2>1 DEF RelationsExact
<1>6. WidthInv /\ InsertInv /\ LockInv
  BY <1>2 DEF WidthInv, InsertInv, LockInv, At, LocksArcset, LocksRef, InTransaction
<1>7. RouterInv
  BY <1>2, <1>3 DEF RouterInv, Fresh, At, InTransaction
<1>8. PartitionsNamed /\ ConfigAgrees /\ ManifestAttributed
  BY <1>1 DEF PartitionsNamed, Known, ConfigAgrees, ManifestAttributed
<1> QED  BY <1>4, <1>5, <1>6, <1>7, <1>8 DEF CatalogSafe

\* A client that returns, mounts or unmounts writes nothing the others rely on.
LEMMA QuietSafe ==
    ASSUME CatalogSafe, UNCHANGED <<router, config, arcs, rels, manifest>>,
           DOMAIN client' = Clients,
           \A e \in Clients : /\ client'[e] \in ClientRow(client'[e].seen)
                              /\ client'[e] = client[e] \/ client'[e].pc \in Mounting
    PROVE  CatalogSafe'
<1>1. \A pc \in Mounting : /\ pc \notin Serialised /\ pc \notin InTransaction
                           /\ pc \notin Appending /\ pc # "expand" /\ pc # "inherit"
  BY DEF Mounting, Serialised, Appending, Exporting, InTransaction
<1>2. CatalogTypes'  BY <1>1 DEF CatalogSafe, CatalogTypes, Known
<1>3. WidthInv' /\ PartitionsNamed'
  BY <1>1 DEF CatalogSafe, WidthInv, FitsWidth, PartitionsNamed, Known, Mounting
<1>4. LockInv'
  BY <1>1 DEF CatalogSafe, LockInv, LocksArcset, LocksRef
<1>5. InsertInv' /\ RelationsExact'
  <2>1. \A x : RelationsOf(x)' = RelationsOf(x) /\ Related(x)' = Related(x)
    BY DEF RelationsOf, Related
  <2>2. RelationsExact'  BY <2>1 DEF CatalogSafe, RelationsExact
  <2>3. "insert" \notin Mounting  BY DEF Mounting
  <2>4. \A e \in Clients : At(e, "insert")' => client'[e] = client[e] /\ At(e, "insert")
    BY <2>3 DEF At
  <2>5. InsertInv'  BY <2>1, <2>4 DEF CatalogSafe, InsertInv
  <2> QED  BY <2>2, <2>5
<1>6. \A e \in Clients : router /\ Fresh(e) => Fresh(e)'
  BY <1>1, ConfigsKept DEF Fresh, At, Listed, Related, Mounting
<1>7. RouterInv'
  BY <1>1, <1>6 DEF CatalogSafe, RouterInv
<1>8. ConfigAgrees' /\ ManifestAttributed'
  BY ConfigsKept DEF CatalogSafe, ConfigAgrees, ManifestAttributed
<1> QED  BY <1>2, <1>3, <1>4, <1>5, <1>7, <1>8 DEF CatalogSafe

\* A step that changes the row of client c and perhaps a manifest, when what the
\* client now claims is so, and no other client claims it.
LEMMA ClientSafe ==
    ASSUME CatalogSafe, UNCHANGED <<router, config, arcs, rels>>, NEW c \in Clients, Alone(c),
           client'[c].pc \in Serialised => client'[c].a \in Arcsets /\ Known(client'[c].a),
           client'[c].pc \in Appending => client'[c].d \in Datasets,
           client'[c].pc \in {"expand", "inherit"} => client'[c].seen \in Configs,
           client'[c].pc \in {"expand", "inherit"} => FitsWidth(client'[c].num),
           \A e \in Clients \ {c} :
               /\ \A a \in Arcsets : LocksArcset(c, a)' => ~LocksArcset(e, a)
               /\ \A d \in Datasets : LocksRef(c, d)' => ~LocksRef(e, d)
               /\ (router /\ client'[c].pc \in Serialised /\ client[e].pc \in Serialised)
                      => client'[c].a # client[e].a,
           client'[c].pc = "insert" =>
               /\ RelationsOf(client'[c].d) = {}
               /\ {r.order : r \in Related(client'[c].a)} = 0 .. client'[c].num - 1
               /\ Cardinality(Related(client'[c].a)) = client'[c].num,
           router => Fresh(c)',
           DOMAIN manifest' = Arcsets, ManifestAttributed'
    PROVE  CatalogSafe'
<1> USE DEF Alone
<1>1. CatalogTypes'  BY DEF CatalogSafe, CatalogTypes, Known
<1>2. WidthInv' /\ PartitionsNamed'
  BY DEF CatalogSafe, WidthInv, FitsWidth, PartitionsNamed, Known
<1>3. LockInv'
  BY DEF CatalogSafe, LockInv, LocksArcset, LocksRef
<1>4. InsertInv' /\ RelationsExact'
  <2>1. \A x : RelationsOf(x)' = RelationsOf(x) /\ Related(x)' = Related(x)
    BY DEF RelationsOf, Related
  <2>2. RelationsExact'  BY <2>1 DEF CatalogSafe, RelationsExact
  <2>3. ASSUME NEW e \in Clients, At(e, "insert")'
        PROVE  /\ RelationsOf(client'[e].d) = {}
               /\ {r.order : r \in Related(client'[e].a)} = 0 .. client'[e].num - 1
               /\ Cardinality(Related(client'[e].a)) = client'[e].num
    <3>1. CASE e = c  BY <2>3, <3>1 DEF At
    <3>2. CASE e # c
      <4>1. client'[e] = client[e] /\ At(e, "insert")  BY <2>3, <3>2 DEF At
      <4> QED  BY <4>1 DEF CatalogSafe, InsertInv
    <3> QED  BY <3>1, <3>2
  <2> QED  BY <2>1, <2>2, <2>3 DEF InsertInv
<1>5. \A e \in Clients \ {c} : Fresh(e) => Fresh(e)'
  BY ConfigsKept DEF Fresh, At, Listed, Related
<1>6. RouterInv'
  BY <1>5 DEF CatalogSafe, RouterInv
<1>7. ConfigAgrees'  BY ConfigsKept DEF CatalogSafe, ConfigAgrees
<1> QED  BY <1>1, <1>2, <1>3, <1>4, <1>6, <1>7 DEF CatalogSafe

\* expand, append and export begin when the router lets no other command of the
\* arcset run, and remember what they have read.
LEMMA StartSafe ==
    ASSUME CatalogSafe, NEW c \in Clients, NEW a \in Arcsets,
           \/ a \in Focus /\ \E add \in Nat : ExpandRead(c, a, add)
           \/ \E d \in Datasets : AppendRead(c, a, d)
           \/ ExportFind(c, a)
    PROVE  CatalogSafe'
<1> DEFINE me == client'[c]
<1>1. CatalogTypes /\ Known(a) /\ Free(a) /\ UNCHANGED <<router, config, arcs, rels, manifest>>
  BY DEF ExpandRead, AppendRead, ExportFind, world, CatalogSafe
<1>2. arcs[a] \in ArcsetRow  BY <1>1 DEF CatalogTypes, Known
<1>3. /\ Alone(c) /\ me.a = a
      /\ \/ me.pc = "expand" /\ me.seen = arcs[a].meta /\ FitsWidth(me.num) /\ me.num >= arcs[a].groups
         \/ /\ me.pc = "inherit" /\ me.d \in Datasets /\ me.seen = Merged(arcs[a].meta, me.d)
            /\ Agrees(arcs[a].meta, me.d) /\ me.num = arcs[a].groups
         \/ me.pc = "lock" /\ me.d \in Datasets /\ Shows(arcs[a].meta, me.d)
         \/ me.pc = "relations"
  <2>1. ASSUME NEW add \in Nat, ExpandRead(c, a, add) PROVE <1>3!:
    <3> DEFINE n   == arcs[a].groups + add
               how == [Gone EXCEPT !.pc = "expand", !.a = a, !.seen = arcs[a].meta, !.num = n]
    <3>1. n \in Nat /\ n >= arcs[a].groups  BY <1>2 DEF ArcsetRow
    <3>2. Begin(c, how) /\ FitsWidth(n)  BY <2>1 DEF ExpandRead, Grown
    <3> HIDE DEF n
    <3>3. how.pc = "expand" /\ how.a = a /\ how.seen = arcs[a].meta /\ how.num = n
      BY DEF Gone
    <3>4. how \in ClientRow(how.seen)  BY <3>1, <3>3 DEF ClientRow, Serialised, Gone
    <3> HIDE DEF how
    <3>5. Alone(c) /\ client'[c] = how  BY <1>1, <3>2, <3>4, Begins
    <3> QED  BY <3>1, <3>2, <3>3, <3>5
  <2>2. ASSUME NEW d \in Datasets, AppendRead(c, a, d) PROVE <1>3!:
    <3> DEFINE meta == arcs[a].meta
               new  == Merged(meta, d)
               mine == [Gone EXCEPT !.a = a, !.d = d]
               inh  == [mine EXCEPT !.pc = "inherit", !.seen = new, !.num = arcs[a].groups]
               lock == [mine EXCEPT !.pc = "lock"]
    <3>1. Agrees(meta, d) /\ Begin(c, IF new = meta THEN lock ELSE inh)  BY <2>2 DEF AppendRead
    <3>2. meta \in Configs /\ arcs[a].groups \in Nat  BY <1>2 DEF ArcsetRow
    <3>3. {"inherit", "lock"} \subseteq Serialised  BY DEF Serialised, Appending
    <3>4. CASE new = meta
      <4>1. lock.pc = "lock" /\ lock.a = a /\ lock.d = d  BY DEF Gone
      <4>2. lock \in ClientRow(lock.seen)  BY <3>3 DEF ClientRow, Gone
      <4>3. Shows(meta, d)  BY <1>1, <3>1, <3>2, <3>4, MergedShows DEF CatalogTypes
      <4>4. Begin(c, lock)  BY <3>1, <3>4
      <4> HIDE DEF lock
      <4>5. Alone(c) /\ client'[c] = lock  BY <1>1, <4>2, <4>4, Begins
      <4> QED  BY <4>1, <4>3, <4>5
    <3>5. CASE new # meta
      <4>1. /\ inh.pc = "inherit" /\ inh.a = a /\ inh.d = d
            /\ inh.seen = new /\ inh.num = arcs[a].groups
        BY DEF Gone
      <4>2. inh \in ClientRow(inh.seen)  BY <3>2, <3>3 DEF ClientRow, Gone
      <4>3. Begin(c, inh)  BY <3>1, <3>5
      <4> HIDE DEF inh
      <4>4. Alone(c) /\ client'[c] = inh  BY <1>1, <4>2, <4>3, Begins
      <4> QED  BY <3>1, <4>1, <4>4
    <3> QED  BY <3>4, <3>5
  <2>3. CASE ExportFind(c, a)
    <3> DEFINE how == [Gone EXCEPT !.pc = "relations", !.a = a]
    <3>1. how.pc = "relations" /\ how.a = a /\ how.seen = None /\ "relations" \in Serialised
      BY DEF Gone, Serialised, Exporting
    <3>2. how \in ClientRow(how.seen)  BY <3>1 DEF ClientRow, Gone
    <3>3. Begin(c, how)  BY <2>3 DEF ExportFind
    <3> HIDE DEF how
    <3>4. Alone(c) /\ client'[c] = how  BY <1>1, <3>2, <3>3, Begins
    <3> QED  BY <3>1, <3>4
  <2> QED  BY <2>1, <2>2, <2>3
<1>4. FitsWidth(arcs[a].groups)
  BY <1>1 DEF CatalogSafe, PartitionsNamed, FitsWidth
<1>5. \A e \in Clients : router /\ client[e].pc \in Serialised => client[e].a # a
  BY <1>1 DEF Free, Mounting, Serialised, Appending, Exporting, InTransaction
<1>6. ~LocksArcset(c, a)' /\ \A x : ~LocksArcset(c, x)' /\ ~LocksRef(c, x)'
  BY <1>3 DEF LocksArcset, LocksRef, InTransaction
<1>7. Fresh(c)'
  BY <1>1, <1>2, <1>3, ConfigsKept DEF Fresh, At, InTransaction, ArcsetRow
<1>8. arcs[a].meta \in Configs  BY <1>2 DEF ArcsetRow
<1>9. DOMAIN manifest' = Arcsets /\ ManifestAttributed'
  BY <1>1 DEF CatalogSafe, CatalogTypes, ManifestAttributed
<1>10. (me.pc \in Appending => me.d \in Datasets) /\ me.pc # "insert"
  BY <1>3 DEF Appending, InTransaction
<1>11. me.pc \in {"expand", "inherit"} => me.seen \in Configs
  BY <1>1, <1>3, <1>8, MergedShows DEF CatalogTypes
<1>12. me.pc \in {"expand", "inherit"} => FitsWidth(me.num)  BY <1>3, <1>4
<1> HIDE DEF me
<1> QED
  BY <1>1, <1>3, <1>5, <1>6, <1>7, <1>9, <1>10, <1>11, <1>12, ClientSafe DEF me

\* The relations of an arcset are finitely many, and no more than all relations.
LEMMA RelatedFinite ==
    ASSUME CatalogTypes, NEW a
    PROVE  /\ IsFiniteSet(Related(a)) /\ Cardinality(Related(a)) \in Nat
           /\ Cardinality(rels) \in Nat /\ Cardinality(Related(a)) <= Cardinality(rels)
<1>1. Related(a) \subseteq rels /\ IsFiniteSet(rels)  BY DEF Related, CatalogTypes
<1> QED  BY <1>1, FS_Subset, FS_CardinalityType

\* COALESCE(MAX(append_order), -1) + 1 is the number of relations of the arcset.
LEMMA NextOrderCounts ==
    ASSUME CatalogTypes, RelationsExact, NEW a \in Arcsets
    PROVE  NextOrder(a) = Cardinality(Related(a))
<1> DEFINE n       == Cardinality(Related(a))
           orders  == {r.order : r \in Related(a)}
           next(m) == /\ \A r \in Related(a) : r.order < m
                      /\ m = 0 \/ \E r \in Related(a) : r.order = m - 1
<1>1. n \in 0 .. Cardinality(rels) /\ Cardinality(rels) \in Nat  BY RelatedFinite
<1>2. orders = 0 .. n - 1  BY DEF RelationsExact
<1>3. (\A r \in Related(a) : r.order \in 0 .. n - 1)
      /\ \A i \in 0 .. n - 1 : \E r \in Related(a) : r.order = i
  BY <1>2
<1> HIDE DEF n, orders
<1>4. next(n)  BY <1>1, <1>3
<1>5. ASSUME NEW m \in 0 .. Cardinality(rels), next(m) PROVE m = n
  <2>1. m \in Nat /\ n \in Nat  BY <1>1
  <2>2. m <= n  BY <1>3, <1>5, <2>1
  <2>3. n <= m
    <3>1. CASE n = 0  BY <2>1, <3>1
    <3>2. CASE n # 0
      <4>1. PICK r \in Related(a) : r.order = n - 1  BY <1>3, <2>1, <3>2
      <4> QED  BY <1>5, <2>1, <4>1
    <3> QED  BY <3>1, <3>2
  <2> QED  BY <2>1, <2>2, <2>3
<1>6. NextOrder(a) = CHOOSE m \in 0 .. Cardinality(rels) : next(m)  BY DEF NextOrder
<1> HIDE DEF next
<1>7. NextOrder(a) = n  BY <1>1, <1>4, <1>5, <1>6
<1> QED  BY <1>7 DEF n

\* The transaction of append goes on: it takes the row of its arcset, then that of
\* its dataset, and then finds the next order.
LEMMA TransactionSafe ==
    ASSUME CatalogSafe, NEW c \in Clients, AppendLock(c) \/ AppendRef(c) \/ AppendLookup(c)
    PROVE  CatalogSafe'
<1> DEFINE a == client[c].a
           d == client[c].d
<1>1. CatalogTypes /\ UNCHANGED <<router, config, arcs, rels, manifest>>
  BY DEF AppendLock, AppendRef, AppendLookup, world, CatalogSafe
<1>2. /\ client[c].pc \in {"lock", "ref", "lookup"}
      /\ a \in Arcsets /\ Known(a) /\ d \in Datasets
      /\ router => Shows(arcs[a].meta, d)
      /\ router => \A e \in Clients \ {c} : client[e].pc \in Serialised => client[e].a # a
  <2>1. client[c].pc \in {"lock", "ref", "lookup"}
    BY DEF AppendLock, AppendRef, AppendLookup, At
  <2>2. client[c].pc \in Serialised /\ client[c].pc \in Appending
    BY <2>1 DEF Serialised, Appending, InTransaction
  <2> QED
    BY <1>1, <2>1, <2>2 DEF CatalogTypes, CatalogSafe, RouterInv, Fresh, InTransaction
<1>3. CASE Quit(c)
  BY <1>1, <1>3, Quits, QuietSafe DEF Alone, Gone, Mounting, CatalogTypes
<1>4. ASSUME Alone(c), client'[c].a = a, client'[c].d = d,
             \/ client'[c].pc = "ref" /\ ~ArcsetLocked(a)
             \/ client'[c].pc = "lookup" /\ ~RefLocked(d) /\ client[c].pc = "ref"
             \/ /\ client'[c].pc = "insert" /\ client[c].pc = "lookup"
                /\ RelationsOf(d) = {} /\ client'[c].num = NextOrder(a)
      PROVE  CatalogSafe'
  <2>1. client'[c].pc \in {"ref", "lookup", "insert"}  BY <1>4
  <2>2. ASSUME NEW e \in Clients \ {c}
        PROVE  /\ \A x \in Arcsets : LocksArcset(c, x)' => ~LocksArcset(e, x)
               /\ \A x \in Datasets : LocksRef(c, x)' => ~LocksRef(e, x)
    BY <1>2, <1>4 DEF CatalogSafe, LockInv, LocksArcset, LocksRef, ArcsetLocked, RefLocked, InTransaction
  <2>3. client'[c].pc = "insert" =>
            /\ RelationsOf(d) = {}
            /\ {r.order : r \in Related(a)} = 0 .. client'[c].num - 1
            /\ Cardinality(Related(a)) = client'[c].num
    BY <1>1, <1>2, <1>4, NextOrderCounts DEF CatalogSafe, RelationsExact
  <2>4. router => Fresh(c)'
    BY <1>1, <1>2, <1>4, <2>1, ConfigsKept DEF Fresh, At
  <2>5. DOMAIN manifest' = Arcsets /\ ManifestAttributed'
    BY <1>1 DEF CatalogSafe, CatalogTypes, ManifestAttributed
  <2> HIDE DEF a, d
  <2>6. client'[c].a = a /\ client'[c].d = d  BY <1>4
  <2>7. client'[c].pc \notin {"expand", "inherit"}  BY <2>1
  <2>8. \A e \in Clients \ {c} : (router /\ client'[c].pc \in Serialised /\ client[e].pc \in Serialised)
                                   => client'[c].a # client[e].a
    BY <1>2, <2>6
  <2> QED
    BY <1>1, <1>2, <1>4, <2>2, <2>3, <2>4, <2>5, <2>6, <2>7, <2>8, ClientSafe
<1>5. CASE AppendLock(c)
  <2>1. Quit(c) \/ (Go(c, "ref") /\ ~ArcsetLocked(a))  BY <1>5 DEF AppendLock, MayLock
  <2>2. "ref" \in Mounting \cup Serialised  BY DEF Serialised, Appending, InTransaction
  <2> QED  BY <1>1, <1>3, <1>4, <2>1, <2>2, Goes
<1>6. CASE AppendRef(c)
  <2>1. Go(c, "lookup") /\ ~RefLocked(d) /\ client[c].pc = "ref"  BY <1>6 DEF AppendRef, At
  <2>2. "lookup" \in Mounting \cup Serialised  BY DEF Serialised, Appending, InTransaction
  <2> QED  BY <1>1, <1>4, <2>1, <2>2, Goes
<1>7. CASE AppendLookup(c)
  <2> DEFINE how == [client[c] EXCEPT !.pc = "insert", !.num = NextOrder(a)]
  <2>1. CASE RelationsOf(d) # {}  BY <1>3, <1>7, <2>1 DEF AppendLookup
  <2>2. CASE RelationsOf(d) = {}
    <3>1. client' = [client EXCEPT ![c] = how] /\ client[c].pc = "lookup"
      BY <1>7, <2>2 DEF AppendLookup, At
    <3>2. NextOrder(a) \in Nat  BY <1>1, <1>2, NextOrderCounts, RelatedFinite DEF CatalogSafe
    <3>3. "insert" \in Serialised  BY DEF Serialised, Appending, InTransaction
    <3>4. client[c] \in ClientRow(client[c].seen)  BY <1>1 DEF CatalogTypes
    <3>5. /\ how.pc = "insert" /\ how.num = NextOrder(a) /\ how.a = a /\ how.d = d
          /\ how.seen = client[c].seen
      BY <3>4 DEF ClientRow
    <3>6. how \in ClientRow(how.seen)  BY <3>2, <3>3, <3>4, <3>5 DEF ClientRow
    <3> HIDE DEF how
    <3>7. Alone(c) /\ client'[c] = how  BY <1>1, <3>1, <3>6, GoesWith
    <3> QED  BY <1>4, <2>2, <3>1, <3>5, <3>7
  <2> QED  BY <2>1, <2>2
<1> QED  BY <1>5, <1>6, <1>7

\* Export: with a router no append of the arcset comes between the relations and
\* the shards, so every shard that is read belongs to a dataset that was listed.
LEMMA ExportSafe ==
    ASSUME CatalogSafe, NEW c \in Clients, ExportRelations(c) \/ ExportShards(c) \/ ExportEncode(c)
    PROVE  CatalogSafe'
<1> DEFINE a == client[c].a
<1>1. /\ CatalogTypes /\ UNCHANGED <<router, config, arcs, rels>>
      /\ client[c] \in ClientRow(client[c].seen) /\ DOMAIN manifest = Arcsets
  BY DEF ExportRelations, ExportShards, ExportEncode, world, CatalogSafe, CatalogTypes
<1>2. /\ client[c].pc \in Exporting /\ a \in Arcsets /\ Known(a)
      /\ router => \A e \in Clients \ {c} : client[e].pc \in Serialised => client[e].a # a
      /\ router => Fresh(c)
  <2>1. client[c].pc \in Exporting
    BY DEF ExportRelations, ExportShards, ExportEncode, At, Exporting
  <2>2. client[c].pc \in Serialised  BY <2>1 DEF Serialised
  <2> QED
    BY <1>1, <2>1, <2>2 DEF CatalogTypes, CatalogSafe, RouterInv
<1>3. ASSUME Alone(c), client'[c].a = a, client'[c].pc \in {"shards", "encode"},
             router => Fresh(c)', DOMAIN manifest' = Arcsets, ManifestAttributed'
      PROVE  CatalogSafe'
  <2>1. client'[c].pc \notin Appending \cup InTransaction \cup {"expand", "inherit", "insert"}
    BY <1>3 DEF Appending, InTransaction
  <2>2. \A x : ~LocksArcset(c, x)' /\ ~LocksRef(c, x)'
    BY <2>1 DEF LocksArcset, LocksRef
  <2> QED
    BY <1>1, <1>2, <1>3, <2>1, <2>2, ClientSafe
<1>4. CASE ExportRelations(c)
  <2> DEFINE how == [client[c] EXCEPT !.pc = "shards", !.list = Listed(a)]
  <2>1. client' = [client EXCEPT ![c] = how] /\ manifest' = manifest
    BY <1>4 DEF ExportRelations
  <2>2. "shards" \in Serialised /\ Listed(a) \in SUBSET Datasets
    BY <1>1 DEF Serialised, Exporting, Listed, Related, CatalogTypes
  <2>3. /\ how.pc = "shards" /\ how.list = Listed(a) /\ how.a = a /\ how.seen = client[c].seen
    BY <1>1 DEF ClientRow
  <2>4. how \in ClientRow(how.seen)  BY <1>1, <2>2, <2>3 DEF ClientRow
  <2> HIDE DEF how
  <2>5. Alone(c) /\ client'[c] = how  BY <1>1, <2>1, <2>4, GoesWith
  <2>6. Listed(a)' = Listed(a)  BY <1>1, <2>3, <2>5 DEF Listed, Related
  <2>7. Fresh(c)'
    <3>1. client'[c].pc = "shards" /\ client'[c].a = a /\ client'[c].list = Listed(a)  BY <2>3, <2>5
    <3> QED  BY <1>1, <3>1 DEF Fresh, At, Listed, Related, InTransaction
  <2>8. ManifestAttributed'
    BY <1>1, <2>1 DEF CatalogSafe, ManifestAttributed
  <2> QED  BY <1>1, <1>3, <2>1, <2>3, <2>5, <2>7, <2>8
<1>5. CASE ExportShards(c)
  <2> DEFINE seen == [datasets |-> client[c].list, shards |-> ShardsOf(a)]
             how  == [client[c] EXCEPT !.pc = "encode", !.list = {}, !.seen = seen]
  <2>1. /\ client' = [client EXCEPT ![c] = how] /\ client[c].pc = "shards"
        /\ manifest' = [manifest EXCEPT ![a] = Torn]
    BY <1>5 DEF ExportShards, At
  <2>2. router => seen.shards \subseteq seen.datasets
    BY <1>2, <2>1 DEF Fresh, At, Listed, ShardsOf
  <2> HIDE DEF seen
  <2>3. "encode" \in Serialised  BY DEF Serialised, Exporting
  <2>4. how.pc = "encode" /\ how.a = a /\ how.seen = seen  BY <1>1 DEF ClientRow
  <2>5. how \in ClientRow(how.seen)  BY <1>1, <2>3, <2>4 DEF ClientRow
  <2> HIDE DEF how
  <2>6. Alone(c) /\ client'[c] = how  BY <1>1, <2>1, <2>5, GoesWith
  <2>7. router => Fresh(c)'
    <3>1. client'[c].pc = "encode" /\ client'[c].seen = seen  BY <2>4, <2>6
    <3> QED  BY <1>1, <2>2, <3>1 DEF Fresh, At, InTransaction
  <2>8. DOMAIN manifest' = Arcsets /\ ManifestAttributed'
    BY <1>1, <2>1 DEF CatalogSafe, ManifestAttributed
  <2> QED  BY <1>3, <2>4, <2>6, <2>7, <2>8
<1>6. CASE ExportEncode(c)
  <2>1. /\ Quit(c) /\ client[c].pc = "encode"
        /\ manifest' = [manifest EXCEPT ![a] = client[c].seen]
    BY <1>6 DEF ExportEncode, At
  <2>2. Alone(c) /\ client'[c] = Gone  BY <1>1, <2>1, Quits
  <2>3. Gone.pc = "idle" /\ "idle" \notin Serialised \cup InTransaction \cup Appending
    BY DEF Gone, Serialised, Appending, Exporting, InTransaction
  <2>4. \A x : ~LocksArcset(c, x)' /\ ~LocksRef(c, x)'
    BY <2>2, <2>3 DEF LocksArcset, LocksRef
  <2>5. Fresh(c)'  BY <2>2, <2>3 DEF Fresh, At
  <2>6. router => client[c].seen.shards \subseteq client[c].seen.datasets
    BY <1>2, <2>1 DEF Fresh, At
  <2>7. DOMAIN manifest' = Arcsets /\ ManifestAttributed'
    BY <1>1, <1>2, <2>1, <2>6 DEF CatalogSafe, ManifestAttributed
  <2> QED
    BY <1>1, <2>2, <2>3, <2>4, <2>5, <2>7, ClientSafe
<1> QED  BY <1>4, <1>5, <1>6

\* A step that changes status and phase only: make-ec, and validate at any time.
LEMMA StateSafe ==
    ASSUME CatalogSafe, NEW a \in Arcsets, MakeEC(a) \/ Validate(a)
    PROVE  CatalogSafe'
<1>1. CatalogTypes /\ Known(a) /\ UNCHANGED <<router, config, rels, manifest, client>>
  BY DEF MakeEC, Validate, world, CatalogSafe
<1>2. PICK status \in {"building", "completed"}, phase \in {"none", "ec"} :
          arcs' = [arcs EXCEPT ![a] = [arcs[a] EXCEPT !.status = status, !.phase = phase]]
  BY DEF MakeEC, Validate, SetState
<1>3. arcs[a] \in ArcsetRow /\ arcs \in [Arcsets -> ArcsetRow \cup {None}]
  BY <1>1 DEF CatalogTypes, Known
<1>4. [arcs[a] EXCEPT !.status = status, !.phase = phase] \in ArcsetRow  BY <1>3 DEF ArcsetRow
<1>5. /\ arcs' \in [Arcsets -> ArcsetRow \cup {None}]
      /\ \A b \in Arcsets : Known(b)' <=> Known(b)
      /\ \A b \in Arcsets : Known(b) => arcs'[b].meta = arcs[b].meta /\ arcs'[b].groups = arcs[b].groups
  BY <1>2, <1>3, <1>4, CatalogAssumption DEF Known, ArcsetRow
<1>6. CatalogTypes'  BY <1>1, <1>5 DEF CatalogTypes
<1>7. WidthInv' /\ PartitionsNamed'
  BY <1>1, <1>5 DEF CatalogSafe, WidthInv, FitsWidth, PartitionsNamed
<1>8. LockInv' /\ InsertInv' /\ RelationsExact' /\ ManifestAttributed'
  BY <1>1 DEF CatalogSafe, LockInv, LocksArcset, LocksRef, InsertInv, RelationsExact, At, RelationsOf,
     Related, ManifestAttributed
<1>9. ConfigAgrees'  BY <1>1, <1>5, ConfigsKept DEF CatalogSafe, ConfigAgrees, CatalogTypes
<1>10. \A e \in Clients : client[e].pc \in Serialised /\ Fresh(e) => Fresh(e)'
  BY <1>1, <1>5, ConfigsKept DEF Fresh, At, Listed, Related, CatalogTypes
<1>11. \A e \in Clients : client[e].pc \notin Serialised => Fresh(e)'
  BY <1>1 DEF Fresh, At, Serialised, Appending, Exporting
<1>12. RouterInv'  BY <1>1, <1>10, <1>11 DEF CatalogSafe, RouterInv
<1> QED  BY <1>6, <1>7, <1>8, <1>9, <1>12 DEF CatalogSafe

\* A new arcset has no relations, and no command is at work on it.
LEMMA CreateSafe ==
    ASSUME CatalogSafe, NEW c \in Clients, NEW a \in Arcsets, NEW groups \in Nat,
           NEW preset \in Presets, Create(c, a, groups, preset)
    PROVE  CatalogSafe'
<1> DEFINE new == [status |-> "defined", phase |-> "none", meta |-> preset, groups |-> groups]
<1>1. /\ CatalogTypes /\ ~Known(a) /\ FitsWidth(groups)
      /\ UNCHANGED <<router, config, rels, manifest, client>>
      /\ arcs' = [arcs EXCEPT ![a] = new]
  BY DEF Create, world, CatalogSafe
<1>2. new \in ArcsetRow /\ new.groups = groups  BY CatalogAssumption DEF ArcsetRow
<1> HIDE DEF new
<1>3. /\ arcs' \in [Arcsets -> ArcsetRow \cup {None}] /\ arcs'[a] = new
      /\ \A b \in Arcsets : b # a => arcs'[b] = arcs[b]
  BY <1>1, <1>2 DEF CatalogTypes
<1>4. \A b \in Arcsets : Known(b) => Known(b)' /\ arcs'[b] = arcs[b]
  BY <1>1, <1>2, <1>3, CatalogAssumption DEF Known
<1>5. CatalogTypes'  BY <1>1, <1>3, <1>4 DEF CatalogTypes
<1>6. WidthInv' /\ PartitionsNamed'
  BY <1>1, <1>2, <1>3 DEF CatalogSafe, WidthInv, FitsWidth, PartitionsNamed, Known
<1>7. LockInv' /\ InsertInv' /\ RelationsExact' /\ ManifestAttributed'
  BY <1>1 DEF CatalogSafe, LockInv, LocksArcset, LocksRef, InsertInv, RelationsExact, At, RelationsOf,
     Related, ManifestAttributed
<1>8. ConfigAgrees'  BY <1>1, <1>4, ConfigsKept DEF CatalogSafe, ConfigAgrees, CatalogTypes
<1>9. \A e \in Clients : client[e].pc \in Serialised /\ Fresh(e) => Fresh(e)'
  BY <1>1, <1>4, ConfigsKept DEF Fresh, At, Listed, Related, CatalogTypes
<1>10. \A e \in Clients : client[e].pc \notin Serialised => Fresh(e)'
  BY <1>1 DEF Fresh, At, Serialised, Appending, Exporting
<1>11. RouterInv'  BY <1>1, <1>9, <1>10 DEF CatalogSafe, RouterInv
<1> QED  BY <1>5, <1>6, <1>7, <1>8, <1>11 DEF CatalogSafe

\* UpdateMetadata writes keys and groups together.  With a router what is
\* written was read since the last write of anybody.
LEMMA MetadataSafe ==
    ASSUME CatalogSafe, NEW c \in Clients, ExpandWrite(c) \/ AppendInherit(c)
    PROVE  CatalogSafe'
<1> DEFINE a == client[c].a
           n == client[c].num
           meta == client[c].seen
<1>1. /\ CatalogTypes /\ UNCHANGED <<router, config, rels, manifest>>
      /\ client[c] \in ClientRow(client[c].seen) /\ client[c].pc \in {"expand", "inherit"}
  BY DEF ExpandWrite, AppendInherit, At, world, CatalogSafe, CatalogTypes
<1>2. /\ a \in Arcsets /\ Known(a) /\ n \in Nat /\ FitsWidth(n) /\ meta \in Configs
      /\ client[c].pc = "inherit" => client[c].d \in Datasets
      /\ router => Fresh(c)
      /\ router => \A e \in Clients \ {c} : client[e].pc \in Serialised => client[e].a # a
  <2>1. client[c].pc \in Serialised /\ (client[c].pc = "inherit" => client[c].pc \in Appending)
    BY <1>1 DEF Serialised, Appending
  <2> QED
    BY <1>1, <2>1 DEF CatalogTypes, CatalogSafe, RouterInv, WidthInv, ClientRow
<1>3. /\ arcs' = [arcs EXCEPT ![a] = [arcs[a] EXCEPT !.meta = meta, !.groups = n]]
      /\ Alone(c)
      /\ \/ client'[c].pc = "idle" /\ client[c].pc = "expand"
         \/ /\ client'[c].pc = "lock" /\ client'[c].a = a /\ client'[c].d = client[c].d
            /\ client[c].pc = "inherit"
  <2>1. CASE ExpandWrite(c)
    <3>1. /\ Quit(c) /\ client[c].pc = "expand"
          /\ arcs' = [arcs EXCEPT ![a] = [arcs[a] EXCEPT !.meta = meta, !.groups = n]]
      BY <2>1 DEF ExpandWrite, At, UpdateMetadata
    <3>2. Alone(c) /\ client'[c].pc = "idle"  BY <1>1, <3>1, Quits DEF Gone
    <3> QED  BY <3>1, <3>2
  <2>2. CASE AppendInherit(c)
    <3> DEFINE how == [client[c] EXCEPT !.pc = "lock", !.seen = None, !.num = 0]
    <3>1. /\ client' = [client EXCEPT ![c] = how] /\ client[c].pc = "inherit"
          /\ arcs' = [arcs EXCEPT ![a] = [arcs[a] EXCEPT !.meta = meta, !.groups = n]]
      BY <2>2 DEF AppendInherit, At, UpdateMetadata
    <3>2. "lock" \in Serialised  BY DEF Serialised, Appending
    <3>3. how.pc = "lock" /\ how.a = a /\ how.d = client[c].d /\ how.seen = None
      BY <1>1 DEF ClientRow
    <3>4. how \in ClientRow(how.seen)  BY <1>1, <3>2, <3>3 DEF ClientRow
    <3> HIDE DEF how
    <3>5. Alone(c) /\ client'[c] = how  BY <1>1, <3>1, <3>4, GoesWith
    <3> QED  BY <3>1, <3>3, <3>5
  <2> QED  BY <2>1, <2>2
<1>4. /\ arcs[a] \in ArcsetRow /\ arcs \in [Arcsets -> ArcsetRow \cup {None}]
      /\ [arcs[a] EXCEPT !.meta = meta, !.groups = n] \in ArcsetRow
  BY <1>1, <1>2 DEF CatalogTypes, Known, ArcsetRow
<1>5. /\ arcs' \in [Arcsets -> ArcsetRow \cup {None}]
      /\ arcs'[a].meta = meta /\ arcs'[a].groups = n
      /\ \A b \in Arcsets : b # a => arcs'[b] = arcs[b]
      /\ \A b \in Arcsets : Known(b)' <=> Known(b)
  BY <1>2, <1>3, <1>4, CatalogAssumption DEF Known, ArcsetRow
<1>6. client'[c].pc \in {"idle", "lock"}  BY <1>3
<1>7. CatalogTypes'
  <2>1. client'[c].pc \in Serialised => client'[c].a \in Arcsets /\ Known(client'[c].a)
    BY <1>2, <1>3 DEF Serialised, Appending, Exporting, InTransaction
  <2>2. client'[c].pc \in Appending => client'[c].d \in Datasets
    BY <1>2, <1>3 DEF Appending, InTransaction
  <2> QED  BY <1>1, <1>3, <1>5, <1>6, <2>1, <2>2 DEF CatalogTypes, Alone
<1>8. WidthInv' /\ PartitionsNamed'
  BY <1>1, <1>2, <1>3, <1>5, <1>6
     DEF CatalogSafe, WidthInv, FitsWidth, PartitionsNamed, Alone
<1>9. LockInv'
  BY <1>3, <1>6 DEF CatalogSafe, LockInv, LocksArcset, LocksRef, InTransaction, Alone
<1>10. InsertInv' /\ RelationsExact' /\ ManifestAttributed'
  <2>1. ASSUME NEW e \in Clients, At(e, "insert")' PROVE client'[e] = client[e] /\ At(e, "insert")
    BY <1>3, <1>6, <2>1 DEF At, Alone
  <2> QED
    BY <1>1, <2>1 DEF CatalogSafe, InsertInv, RelationsExact, RelationsOf, Related, ManifestAttributed
<1>11. ConfigAgrees'
  <2> SUFFICES ASSUME router, NEW r \in rels PROVE Shows(arcs'[r.arcset].meta, r.ds)
    BY <1>1, ConfigsKept DEF ConfigAgrees
  <2>1. /\ Shows(arcs[r.arcset].meta, r.ds) /\ r.ds \in Datasets /\ r.arcset \in Arcsets
        /\ config \in [Datasets -> Configs]
    BY <1>1 DEF CatalogSafe, ConfigAgrees, CatalogTypes
  <2>2. CASE r.arcset # a  BY <1>5, <2>1, <2>2
  <2>3. CASE r.arcset = a
    <3>1. CASE client[c].pc = "expand"
      BY <1>2, <1>3, <1>5, <2>1, <2>3, <3>1 DEF Fresh, At
    <3>2. CASE client[c].pc = "inherit"
      <4>1. meta = Merged(arcs[a].meta, client[c].d)  BY <1>2, <3>2 DEF Fresh, At
      <4>2. arcs[a].meta \in Configs  BY <1>4 DEF ArcsetRow
      <4> QED  BY <1>2, <1>5, <2>1, <2>3, <3>2, <4>1, <4>2, MergedShows
    <3> QED  BY <1>1, <3>1, <3>2
  <2> QED  BY <2>2, <2>3
<1>12. RouterInv'
  <2> SUFFICES ASSUME router
               PROVE  /\ \A e, f \in Clients :
                            (e # f /\ client'[e].pc \in Serialised /\ client'[f].pc \in Serialised)
                                => client'[e].a # client'[f].a
                      /\ \A e \in Clients : Fresh(e)'
    BY <1>1 DEF RouterInv
  <2>1. /\ \A e \in Clients \ {c} : client'[e] = client[e]
        /\ client'[c].pc \in Serialised => client'[c].a = a
    BY <1>3 DEF Alone, Serialised, Appending, Exporting, InTransaction
  <2>2. \A e \in Clients \ {c} : client[e].pc \in Serialised => client[e].a # a
    BY <1>2
  <2>3. \A e, f \in Clients :
            (e # f /\ client'[e].pc \in Serialised /\ client'[f].pc \in Serialised)
                => client'[e].a # client'[f].a
    BY <2>1, <2>2 DEF CatalogSafe, RouterInv
  <2>4. Fresh(c)'
    <3>1. CASE client'[c].pc = "idle"  BY <3>1 DEF Fresh, At, InTransaction
    <3>2. CASE client[c].pc = "inherit"
      <4>1. /\ meta = Merged(arcs[a].meta, client[c].d) /\ Agrees(arcs[a].meta, client[c].d)
            /\ arcs[a].meta \in Configs /\ config \in [Datasets -> Configs]
        BY <1>1, <1>2, <1>4, <3>2 DEF Fresh, At, CatalogTypes, ArcsetRow
      <4>2. Shows(meta, client[c].d)  BY <1>2, <3>2, <4>1, MergedShows
      <4>3. client'[c].pc = "lock" /\ client'[c].a = a /\ client'[c].d = client[c].d
        BY <1>3, <3>2
      <4> HIDE DEF meta
      <4> QED  BY <1>1, <1>5, <4>2, <4>3, ConfigsKept DEF Fresh, At, InTransaction
    <3> QED  BY <1>3, <3>1, <3>2
  <2>5. ASSUME NEW e \in Clients \ {c} PROVE Fresh(e)'
    <3>1. CASE client[e].pc \in Serialised
      <4>1. client[e].a \in Arcsets /\ client[e].a # a /\ client'[e] = client[e]
        BY <1>1, <2>1, <2>2, <3>1 DEF CatalogTypes
      <4>2. arcs'[client[e].a] = arcs[client[e].a]  BY <1>5, <4>1
      <4>3. Fresh(e)  BY DEF CatalogSafe, RouterInv
      <4> QED  BY <1>1, <4>1, <4>2, <4>3, ConfigsKept DEF Fresh, At, Listed, Related
    <3>2. CASE client[e].pc \notin Serialised
      BY <2>1, <3>2 DEF Fresh, At, Serialised, Appending, Exporting
    <3> QED  BY <3>1, <3>2
  <2> QED  BY <2>3, <2>4, <2>5
<1> QED  BY <1>7, <1>8, <1>9, <1>10, <1>11, <1>12 DEF CatalogSafe

\* The commit of append: the order that was looked up is still the next one, and
\* the dataset has no relation, because both rows are locked since.
LEMMA CommitSafe ==
    ASSUME CatalogSafe, NEW c \in Clients, AppendCommit(c)
    PROVE  CatalogSafe'
<1>0. PICK a \in Arcsets, d \in Datasets, n \in Nat :
        /\ client[c].a = a /\ client[c].d = d /\ client[c].num = n
        /\ Known(a) /\ RelationsOf(d) = {}
        /\ {r.order : r \in Related(a)} = 0 .. n - 1 /\ Cardinality(Related(a)) = n
        /\ router => Shows(arcs[a].meta, d)
        /\ router => \A e \in Clients \ {c} : client[e].pc \in Serialised => client[e].a # a
  <2>1. client[c].pc = "insert"  BY DEF AppendCommit, At
  <2>2. client[c].pc \in Serialised /\ client[c].pc \in Appending /\ client[c].pc \in InTransaction
    BY <2>1 DEF Serialised, Appending, InTransaction
  <2>3. client[c].a \in Arcsets /\ client[c].d \in Datasets /\ client[c].num \in Nat
    BY <2>2 DEF CatalogTypes, ClientRow, CatalogSafe
  <2> QED
    BY <2>1, <2>2, <2>3 DEF CatalogTypes, CatalogSafe, InsertInv, At, RouterInv, Fresh
<1> DEFINE new == [arcset |-> a, ds |-> d, order |-> n]
<1>1. /\ CatalogTypes /\ UNCHANGED <<router, config, manifest>> /\ client[c].pc = "insert"
      /\ rels' = rels \cup {new}
      /\ arcs' = [arcs EXCEPT ![a] = [arcs[a] EXCEPT !.status = "building", !.phase = "data"]]
      /\ Alone(c) /\ client'[c] = Gone
  BY <1>0, Quits DEF AppendCommit, At, world, CatalogSafe
<1>2. /\ Known(a) /\ RelationsOf(d) = {}
      /\ {r.order : r \in Related(a)} = 0 .. n - 1 /\ Cardinality(Related(a)) = n
      /\ router => Shows(arcs[a].meta, d)
      /\ router => \A e \in Clients \ {c} : client[e].pc \in Serialised => client[e].a # a
  BY <1>0
<1>3. new.arcset = a /\ new.ds = d /\ new.order = n  OBVIOUS
<1>4. new \in [arcset : Arcsets, ds : Datasets, order : Nat] /\ new \notin rels
  BY <1>2 DEF RelationsOf
<1>5. Gone.pc = "idle" /\ "idle" \notin Serialised \cup Appending \cup InTransaction
  BY DEF Gone, Serialised, Appending, Exporting, InTransaction
<1> HIDE DEF new
<1>6. /\ arcs' \in [Arcsets -> ArcsetRow \cup {None}]
      /\ \A b \in Arcsets : Known(b)' <=> Known(b)
      /\ \A b \in Arcsets : Known(b) => arcs'[b].meta = arcs[b].meta /\ arcs'[b].groups = arcs[b].groups
  <2>1. arcs[a] \in ArcsetRow /\ arcs \in [Arcsets -> ArcsetRow \cup {None}]
    BY <1>1, <1>2 DEF CatalogTypes, Known
  <2>2. [arcs[a] EXCEPT !.status = "building", !.phase = "data"] \in ArcsetRow  BY <2>1 DEF ArcsetRow
  <2> QED  BY <1>1, <1>2, <2>1, <2>2, CatalogAssumption DEF Known, ArcsetRow
<1>7. /\ Related(a)' = Related(a) \cup {new}
      /\ \A b : b # a => Related(b)' = Related(b)
      /\ \A e : e # d => RelationsOf(e)' = RelationsOf(e)
  <2>1. Related(a)' = Related(a) \cup {new}  BY <1>1, <1>3 DEF Related
  <2>2. ASSUME NEW b, b # a PROVE Related(b)' = Related(b)  BY <1>1, <1>3, <2>2 DEF Related
  <2>3. ASSUME NEW e, e # d PROVE RelationsOf(e)' = RelationsOf(e)  BY <1>1, <1>3, <2>3 DEF RelationsOf
  <2> QED  BY <2>1, <2>2, <2>3
<1>8. CatalogTypes'
  <2>1. rels' \subseteq [arcset : Arcsets, ds : Datasets, order : Nat] /\ IsFiniteSet(rels')
    BY <1>1, <1>4, FS_AddElement DEF CatalogTypes
  <2>2. \A r \in rels' : Known(r.arcset)'
    BY <1>1, <1>2, <1>3, <1>6 DEF CatalogTypes
  <2> QED  BY <1>1, <1>5, <1>6, <2>1, <2>2 DEF CatalogTypes, Alone
<1>9. WidthInv' /\ PartitionsNamed'
  BY <1>1, <1>5, <1>6
     DEF CatalogSafe, WidthInv, FitsWidth, PartitionsNamed, Alone, Serialised, Appending
<1>10. LockInv'
  BY <1>1, <1>5 DEF CatalogSafe, LockInv, LocksArcset, LocksRef, Alone
<1>11. RelationsExact'
  <2>1. \A r, q \in rels' : r.ds = q.ds => r = q
    BY <1>1, <1>2, <1>3 DEF CatalogSafe, RelationsExact, RelationsOf
  <2>2. {r.order : r \in Related(a)'} = 0 .. Cardinality(Related(a)') - 1
    <3>1. Cardinality(Related(a)') = n + 1
      <4>1. IsFiniteSet(Related(a)) /\ new \notin Related(a)  BY <1>1, <1>4, RelatedFinite DEF Related
      <4>2. Cardinality(Related(a) \cup {new}) = Cardinality(Related(a)) + 1  BY <4>1, FS_AddElement
      <4> QED  BY <1>2, <1>7, <4>2
    <3>2. {r.order : r \in Related(a)'} = (0 .. n - 1) \cup {n}
      <4>1. {r.order : r \in Related(a)'} = {r.order : r \in Related(a)} \cup {n}
        BY <1>3, <1>7
      <4> QED  BY <1>2, <4>1
    <3>3. (0 .. n - 1) \cup {n} = 0 .. (n + 1) - 1
      OBVIOUS
    <3> QED  BY <3>1, <3>2, <3>3
  <2>3. ASSUME NEW b \in Arcsets, b # a
        PROVE  {r.order : r \in Related(b)'} = 0 .. Cardinality(Related(b)') - 1
    <3>1. Related(b)' = Related(b)  BY <1>7, <2>3
    <3> QED  BY <3>1 DEF CatalogSafe, RelationsExact
  <2> QED  BY <2>1, <2>2, <2>3 DEF RelationsExact
<1>12. InsertInv'
  <2> SUFFICES ASSUME NEW e \in Clients, At(e, "insert")'
               PROVE  /\ (RelationsOf(client[e].d) = {})'
                      /\ ({r.order : r \in Related(client[e].a)} = 0 .. client[e].num - 1)'
                      /\ (Cardinality(Related(client[e].a)) = client[e].num)'
    BY DEF InsertInv
  <2>1. e # c  BY <1>1, <1>5 DEF At
  <2>2. client'[e] = client[e] /\ At(e, "insert")  BY <1>1, <2>1 DEF At, Alone
  <2>3. client[e].a # a /\ client[e].d # d
    BY <1>0, <1>1, <2>1, <2>2 DEF CatalogSafe, LockInv, LocksArcset, LocksRef, At, InTransaction
  <2>4. /\ RelationsOf(client[e].d)' = RelationsOf(client[e].d)
        /\ Related(client[e].a)' = Related(client[e].a)
    BY <1>7, <2>2, <2>3
  <2> QED  BY <2>2, <2>4 DEF CatalogSafe, InsertInv
<1>13. RouterInv'
  <2> SUFFICES ASSUME router
               PROVE  /\ \A e, f \in Clients :
                            (e # f /\ client'[e].pc \in Serialised /\ client'[f].pc \in Serialised)
                                => client'[e].a # client'[f].a
                      /\ \A e \in Clients : Fresh(e)'
    BY <1>1 DEF RouterInv
  <2>1. \A e, f \in Clients :
            (e # f /\ client'[e].pc \in Serialised /\ client'[f].pc \in Serialised)
                => client'[e].a # client'[f].a
    BY <1>1, <1>5 DEF CatalogSafe, RouterInv, Alone
  <2>2. Fresh(c)'  BY <1>1, <1>5 DEF Fresh, At, Serialised, Appending, Exporting
  <2>3. ASSUME NEW e \in Clients \ {c} PROVE Fresh(e)'
    <3>1. CASE client[e].pc \in Serialised
      <4>1. client[e].a \in Arcsets /\ Known(client[e].a) /\ client[e].a # a /\ client'[e] = client[e]
        BY <1>1, <1>2, <3>1 DEF CatalogTypes, Alone
      <4>2. /\ arcs'[client[e].a].meta = arcs[client[e].a].meta
            /\ arcs'[client[e].a].groups = arcs[client[e].a].groups
            /\ Listed(client[e].a)' = Listed(client[e].a)
        BY <1>6, <1>7, <4>1 DEF Listed
      <4>3. Fresh(e)  BY DEF CatalogSafe, RouterInv
      <4> QED  BY <1>1, <4>1, <4>2, <4>3, ConfigsKept DEF Fresh, At
    <3>2. CASE client[e].pc \notin Serialised
      BY <1>1, <3>2 DEF Fresh, At, Serialised, Appending, Exporting, Alone
    <3> QED  BY <3>1, <3>2
  <2> QED  BY <2>1, <2>2, <2>3
<1>14. ConfigAgrees'
  BY <1>1, <1>2, <1>3, <1>6, ConfigsKept DEF CatalogSafe, ConfigAgrees, CatalogTypes
<1>15. ManifestAttributed'  BY <1>1 DEF CatalogSafe, ManifestAttributed
<1> QED  BY <1>8, <1>9, <1>10, <1>11, <1>12, <1>13, <1>14, <1>15 DEF CatalogSafe

\* Whatever a command, a build or a crash does to the catalogue.
LEMMA CatalogNextSafe == CatalogSafe /\ CatalogNext => CatalogSafe'
<1> SUFFICES ASSUME CatalogSafe, CatalogNext PROVE CatalogSafe'  OBVIOUS
<1>1. DOMAIN client = Clients /\ \A e \in Clients : client[e] \in ClientRow(client[e].seen)
  BY DEF CatalogSafe, CatalogTypes
<1>2. ASSUME NEW c \in Clients, Command(c) PROVE CatalogSafe'
  <2>1. ASSUME NEW a \in Arcsets, NEW groups \in 0 .. MaxPartitions,
               NEW preset \in Presets, Create(c, a, groups, preset) \/ ApiCreate(c, a, groups, preset)
        PROVE  CatalogSafe'
    <3>1. groups \in Nat  BY CatalogAssumption
    <3> QED  BY <2>1, <3>1, CreateSafe DEF ApiCreate
  <2>2. ASSUME NEW a \in Arcsets, NEW d \in Datasets, AppendRead(c, a, d) PROVE CatalogSafe'
    BY <2>2, StartSafe
  <2>3. ASSUME NEW a \in Focus, NEW add \in 0 .. MaxPartitions, ExpandRead(c, a, add)
        PROVE  CatalogSafe'
    <3>1. add \in Nat /\ a \in Arcsets  BY CatalogAssumption
    <3> QED  BY <2>3, <3>1, StartSafe
  <2>4. ASSUME NEW a \in Focus, ExportFind(c, a) PROVE CatalogSafe'
    <3>1. a \in Arcsets  BY CatalogAssumption
    <3> QED  BY <2>4, <3>1, StartSafe
  <2> QED
    BY <1>2, <2>1, <2>2, <2>3, <2>4, MetadataSafe, TransactionSafe, CommitSafe, ExportSafe
       DEF Command
<1>3. ASSUME NEW c \in Clients, Die(c) PROVE CatalogSafe'
  <2>1. Alone(c) /\ client'[c] = Gone  BY <1>3, Quits DEF Die, CatalogSafe
  <2>2. Gone.pc \in Mounting  BY DEF Gone, Mounting
  <2> QED  BY <1>1, <1>3, <2>1, <2>2, QuietSafe DEF Die, Alone, world
<1>4. ASSUME NEW a \in Arcsets, BuildData(a) \/ MakeEC(a) \/ Validate(a) PROVE CatalogSafe'
  <2>1. CASE BuildData(a)  BY <1>1, <2>1, QuietSafe DEF BuildData, world
  <2> QED  BY <1>4, <2>1, StateSafe
<1> QED  BY <1>2, <1>3, <1>4 DEF CatalogNext

\* A mount or an unmount leaves the catalogue alone, and every other command.
LEMMA MountKeeps ==
    ASSUME CatalogTypes, MountNext
    PROVE  /\ CatalogKept
           /\ DOMAIN client' = Clients
           /\ \A e \in Clients : /\ client'[e] \in ClientRow(client'[e].seen)
                                 /\ client'[e] = client[e] \/ client'[e].pc \in Mounting
<1> DEFINE Good == /\ DOMAIN client' = Clients
                   /\ \A e \in Clients : /\ client'[e] \in ClientRow(client'[e].seen)
                                         /\ client'[e] = client[e] \/ client'[e].pc \in Mounting
<1>1. DOMAIN client = Clients /\ \A e \in Clients : client[e] \in ClientRow(client[e].seen)
  BY DEF CatalogTypes
<1>2. ASSUME NEW c \in Clients, Alone(c), client'[c].pc \in Mounting PROVE Good
  BY <1>1, <1>2 DEF Alone
<1>3. ASSUME NEW c \in Clients, Quit(c) PROVE Good
  <2>1. Alone(c) /\ client'[c].pc = "idle"  BY <1>3, Quits DEF Gone
  <2> QED  BY <1>2, <2>1 DEF Mounting
<1>4. ASSUME NEW c \in Clients, NEW p \in Points, NEW d \in Datasets, MountDataset(c, p, d) PROVE Good
  <2> DEFINE how == [Gone EXCEPT !.pc = "add", !.mp = p, !.d = d]
  <2>1. how \in ClientRow(how.seen) /\ how.pc = "add"  BY DEF Gone, ClientRow, Mounting
  <2>2. Begin(c, how)  BY <1>4 DEF MountDataset
  <2> HIDE DEF how
  <2>3. Alone(c) /\ client'[c].pc = "add"  BY <2>1, <2>2, Begins
  <2> QED  BY <1>2, <2>3 DEF Mounting
<1>5. ASSUME NEW c \in Clients, NEW p \in Points, NEW a \in Arcsets, MountArcset(c, p, a) PROVE Good
  <2> DEFINE seen == ShardsOf(a)
             how  == [Gone EXCEPT !.pc = "add", !.mp = p, !.a = a, !.seen = seen]
  <2>1. Begin(c, how)  BY <1>5 DEF MountArcset
  <2> HIDE DEF seen
  <2>2. how \in ClientRow(how.seen) /\ how.pc = "add"  BY DEF Gone, ClientRow, Mounting
  <2> HIDE DEF how
  <2>3. Alone(c) /\ client'[c].pc = "add"  BY <2>1, <2>2, Begins
  <2> QED  BY <1>2, <2>3 DEF Mounting
<1>6. ASSUME NEW c \in Clients, NEW pc \in Mounting, Go(c, pc) PROVE Good
  BY <1>2, <1>6, Goes
<1>7. ASSUME NEW p, NEW then, Pop(p, then), DOMAIN then = Clients,
             \A e \in Clients : /\ then[e] \in ClientRow(then[e].seen)
                                /\ then[e] = client[e] \/ then[e].pc \in Mounting
      PROVE  Good
  <2>1. client' = [c \in Clients |-> IF c = Top(p) THEN [client[c] EXCEPT !.pc = "clean"] ELSE then[c]]
    BY <1>7 DEF Pop
  <2>2. ASSUME NEW e \in Clients
        PROVE  /\ client'[e] \in ClientRow(client'[e].seen)
               /\ client'[e] = client[e] \/ client'[e].pc \in Mounting
    <3>1. CASE e = Top(p)
      <4>1. client'[e] = [client[e] EXCEPT !.pc = "clean"]  BY <2>1, <3>1
      <4>2. [client[e] EXCEPT !.pc = "clean"] \in ClientRow(client[e].seen)
        BY <1>1 DEF ClientRow, Mounting
      <4> QED  BY <1>1, <4>1, <4>2 DEF ClientRow, Mounting
    <3>2. CASE e # Top(p)  BY <1>7, <2>1, <3>2
    <3> QED  BY <3>1, <3>2
  <2> QED  BY <2>1, <2>2
<1>8. ASSUME NEW c \in Clients, Signal(c) PROVE Good
  BY <1>1, <1>7, <1>8 DEF Signal
<1>9. ASSUME NEW c \in Clients, NEW p \in Points, Umount(c, p) PROVE Good
  <2> DEFINE how  == [Gone EXCEPT !.pc = "forget", !.mp = p]
             then == [client EXCEPT ![c] = how]
  <2>1. Pop(p, then)  BY <1>9 DEF Umount
  <2>2. how \in ClientRow(how.seen) /\ how.pc \in Mounting  BY DEF Gone, ClientRow, Mounting
  <2> HIDE DEF how
  <2>3. /\ DOMAIN then = Clients
        /\ \A e \in Clients : /\ then[e] \in ClientRow(then[e].seen)
                              /\ then[e] = client[e] \/ then[e].pc \in Mounting
    BY <1>1, <2>2
  <2> HIDE DEF then
  <2> QED  BY <1>7, <2>1, <2>3
<1>10. ASSUME NEW c \in Clients, MountAdd(c) PROVE Good
  <2>1. Quit(c) \/ Go(c, "mount") \/ Go(c, "index")  BY <1>10 DEF MountAdd
  <2> QED  BY <1>3, <1>6, <2>1 DEF Mounting
<1>11. ASSUME NEW c \in Clients, MountIndex(c) PROVE Good
  <2> DEFINE how == [client[c] EXCEPT !.pc = "mount", !.list = Listed(client[c].a)]
  <2>1. client' = [client EXCEPT ![c] = how]  BY <1>11 DEF MountIndex
  <2>2. Listed(client[c].a) \in SUBSET Datasets  BY DEF Listed, Related, CatalogTypes
  <2>3. how.pc = "mount" /\ how.seen = client[c].seen  BY <1>1 DEF ClientRow
  <2>4. how \in ClientRow(how.seen)  BY <1>1, <2>2, <2>3 DEF ClientRow, Mounting
  <2> HIDE DEF how
  <2>5. Alone(c) /\ client'[c] = how  BY <2>1, <2>4, GoesWith
  <2> QED  BY <1>2, <2>3, <2>5 DEF Mounting
<1>12. ASSUME NEW c \in Clients, MountServe(c) PROVE Good
  BY <1>6, <1>12 DEF MountServe, Mounting
<1>13. ASSUME NEW c \in Clients, MountFails(c) \/ MountClean(c) \/ Forget(c) \/ MountDies(c) PROVE Good
  BY <1>3, <1>13 DEF MountFails, MountClean, Forget, MountDies
<1>14. ASSUME NEW p \in Points, DeleteMount(p) PROVE Good
  BY <1>1, <1>14 DEF DeleteMount
<1>15. Good
  BY <1>4, <1>5, <1>8, <1>9, <1>10, <1>11, <1>12, <1>13, <1>14 DEF MountNext
<1>16. CatalogKept
  BY DEF MountNext, MountDataset, MountArcset, MountAdd, MountIndex, MountServe, MountFails, Signal,
     MountClean, Umount, Forget, DeleteMount, MountDies
<1> QED  BY <1>15, <1>16

\* CatalogSafe is inductive.
LEMMA StepSafe == CatalogSafe /\ [Next]_mvars => CatalogSafe'
<1> SUFFICES ASSUME CatalogSafe, [Next]_mvars PROVE CatalogSafe'  OBVIOUS
<1>1. CASE CatalogNext  BY <1>1, CatalogNextSafe
<1>2. CASE MountNext
  BY <1>2, MountKeeps, QuietSafe DEF CatalogKept, world, CatalogSafe
<1>3. CASE UNCHANGED mvars
  BY <1>3, QuietSafe DEF mvars, cvars, CatalogSafe, CatalogTypes
<1> QED  BY <1>1, <1>2, <1>3 DEF Next

\* What the commands of the catalogue rely on is so in every state.
THEOREM CatalogStaysSafe == Spec => []CatalogSafe
<1>1. MountsInit => CatalogSafe  BY CatalogInitSafe DEF MountsInit
<1> QED  BY <1>1, StepSafe, PTL DEF Spec

\* RelationsExact: no insert of append runs into a unique index, and the orders of
\* an arcset have no gap, with a router or without.
THEOREM RelationsStayExact == Spec => []RelationsExact
<1>1. CatalogSafe => RelationsExact  BY DEF CatalogSafe
<1> QED  BY <1>1, CatalogStaysSafe, PTL

\* ConfigAgrees: behind a router an arcset shows every key that a dataset of it has.
THEOREM ConfigStaysAgreed == Spec => []ConfigAgrees
<1>1. CatalogSafe => ConfigAgrees  BY DEF CatalogSafe
<1> QED  BY <1>1, CatalogStaysSafe, PTL

\* PartitionsNamed: the width of the names is never exceeded, also by two expands
\* that overlap.
THEOREM PartitionsStayNamed == Spec => []PartitionsNamed
<1>1. CatalogSafe => PartitionsNamed  BY DEF CatalogSafe
<1> QED  BY <1>1, CatalogStaysSafe, PTL

\* ManifestAttributed: behind a router no manifest has a shard without its dataset.
THEOREM ManifestStaysAttributed == Spec => []ManifestAttributed
<1>1. CatalogSafe => ManifestAttributed  BY DEF CatalogSafe
<1> QED  BY <1>1, CatalogStaysSafe, PTL

\* GroupsKept: behind a router expand and append, each of which writes the whole
\* metadata of the arcset back, do not undo each other.
THEOREM GroupsStayKept == Spec => GroupsKept
<1>1. ASSUME CatalogSafe, [Next]_mvars, router, NEW a \in Arcsets, Known(a)
      PROVE  arcs'[a].groups >= arcs[a].groups
  <2>1. arcs \in [Arcsets -> ArcsetRow \cup {None}] /\ arcs[a].groups \in Nat
    BY <1>1 DEF CatalogSafe, CatalogTypes, Known, ArcsetRow
  <2>2. CASE arcs' = arcs  BY <2>1, <2>2
  <2>3. CASE CatalogNext
    <3>1. ASSUME NEW c \in Clients, NEW b \in Arcsets, NEW groups, NEW preset,
                 Create(c, b, groups, preset)
          PROVE  arcs'[a].groups >= arcs[a].groups
      <4>1. b # a  BY <1>1, <3>1 DEF Create
      <4>2. arcs'[a] = arcs[a]  BY <2>1, <3>1, <4>1 DEF Create
      <4> QED  BY <2>1, <4>2
    <3>2. ASSUME NEW c \in Clients, ExpandWrite(c) \/ AppendInherit(c)
          PROVE  arcs'[a].groups >= arcs[a].groups
      <4> DEFINE n == client[c].num
      <4>1. PICK b, meta : /\ b \in Arcsets /\ b = client[c].a
              /\ arcs' = [arcs EXCEPT ![b] = [arcs[b] EXCEPT !.meta = meta, !.groups = n]]
        <5>1. client[c].pc \in Serialised
          BY <3>2 DEF ExpandWrite, AppendInherit, At, Serialised, Appending
        <5>2. client[c].a \in Arcsets  BY <1>1, <5>1 DEF CatalogSafe, CatalogTypes
        <5>3. arcs' = [arcs EXCEPT ![client[c].a] =
                           [arcs[client[c].a] EXCEPT !.meta = client[c].seen, !.groups = n]]
          BY <3>2 DEF ExpandWrite, AppendInherit, UpdateMetadata
        <5> QED  BY <5>2, <5>3
      <4>2. CASE b # a  BY <2>1, <4>1, <4>2
      <4>3. CASE b = a
        <5>1. arcs'[a].groups = n  BY <1>1, <2>1, <4>1, <4>3 DEF Known, ArcsetRow
        <5>2. Fresh(c)  BY <1>1 DEF CatalogSafe, RouterInv
        <5>3. n >= arcs[a].groups
          BY <2>1, <3>2, <4>1, <4>3, <5>2 DEF Fresh, ExpandWrite, AppendInherit, At
        <5> QED  BY <5>1, <5>3
      <4> QED  BY <4>2, <4>3
    <3>3. ASSUME NEW b, NEW status, NEW phase,
                 arcs' = [arcs EXCEPT ![b] = [arcs[b] EXCEPT !.status = status, !.phase = phase]]
          PROVE  arcs'[a].groups >= arcs[a].groups
      <4>1. CASE b # a  BY <2>1, <3>3, <4>1
      <4>2. CASE b = a
        <5>1. arcs'[a].groups = arcs[a].groups  BY <1>1, <2>1, <3>3, <4>2 DEF Known, ArcsetRow
        <5> QED  BY <2>1, <5>1
      <4> QED  BY <4>1, <4>2
    <3>4. ASSUME NEW c \in Clients, AppendCommit(c) PROVE arcs'[a].groups >= arcs[a].groups
      BY <3>3, <3>4 DEF AppendCommit
    <3>5. ASSUME NEW b \in Arcsets, MakeEC(b) \/ Validate(b) PROVE arcs'[a].groups >= arcs[a].groups
      <4>1. PICK status \in {"building", "completed"}, phase \in {"none", "ec"} :
                arcs' = [arcs EXCEPT ![b] = [arcs[b] EXCEPT !.status = status, !.phase = phase]]
        BY <3>5 DEF MakeEC, Validate, SetState
      <4> QED  BY <3>3, <4>1
    <3>6. ASSUME NEW c \in Clients, Command(c) PROVE arcs'[a].groups >= arcs[a].groups
      BY <2>2, <3>1, <3>2, <3>4, <3>6
         DEF Command, ApiCreate, AppendRead, ExpandRead, ExportFind, AppendLock, AppendRef, AppendLookup,
             ExportRelations, ExportShards, ExportEncode
    <3> QED  BY <2>2, <2>3, <3>5, <3>6 DEF CatalogNext, Die, BuildData
  <2>4. CASE MountNext  BY <1>1, <2>2, <2>4, MountKeeps DEF CatalogKept, CatalogSafe
  <2> QED  BY <1>1, <2>2, <2>3, <2>4 DEF Next, mvars, cvars
<1> DEFINE Kept == router => \A a \in Arcsets : Known(a) => arcs'[a].groups >= arcs[a].groups
<1>2. CatalogSafe /\ [Next]_mvars => [Kept]_cvars
  BY <1>1
<1> QED  BY <1>2, CatalogStaysSafe, PTL DEF Spec, GroupsKept

\* Commands of the catalogue do not disturb a client that mounts or serves, and
\* take no relation and no shard away.
LEMMA CatalogMoves ==
    ASSUME CatalogTypes, CatalogNext
    PROVE  /\ rels \subseteq rels' /\ placed \subseteq placed'
           /\ \A e \in Clients : client'[e] = client[e]
                \/ {client[e].pc, client'[e].pc} \subseteq {"idle"} \cup Serialised
<1> DEFINE Busy == {"idle"} \cup Serialised
<1>1. ASSUME NEW c \in Clients, Command(c)
      PROVE  /\ \A e \in Clients \ {c} : client'[e] = client[e]
             /\ client'[c] = client[c] \/ (client[c].pc \in Busy /\ client'[c].pc \in Busy)
             /\ rels \subseteq rels' /\ placed = placed'
  <2>1. /\ DOMAIN client = Clients /\ client[c] \in ClientRow(client[c].seen)
        /\ {"expand", "inherit", "lock", "ref", "lookup", "insert", "relations", "shards", "encode", "idle"}
             \subseteq Busy
    BY DEF CatalogTypes, Serialised, Appending, Exporting, InTransaction
  <2> HIDE DEF Busy
  <2>2. CASE \E a \in Arcsets, groups \in 0 .. MaxPartitions, preset \in Presets :
              Create(c, a, groups, preset) \/ ApiCreate(c, a, groups, preset)
    BY <2>2 DEF Create, ApiCreate
  <2>3. CASE \E a \in Arcsets, d \in Datasets : AppendRead(c, a, d)
    BY <2>1, <2>3 DEF AppendRead, Begin, At, Gone
  <2>4. CASE \E a \in Focus, add \in 0 .. MaxPartitions : ExpandRead(c, a, add)
    BY <2>1, <2>4 DEF ExpandRead, Begin, At, Gone
  <2>5. CASE \E a \in Focus : ExportFind(c, a)
    BY <2>1, <2>5 DEF ExportFind, Begin, At, Gone
  <2>6. CASE AppendInherit(c)  BY <2>1, <2>6 DEF AppendInherit, At, ClientRow
  <2>7. CASE ExpandWrite(c) \/ AppendCommit(c) \/ ExportEncode(c)
    BY <2>1, <2>7 DEF ExpandWrite, AppendCommit, ExportEncode, At, Quit, Gone
  <2>8. CASE AppendLock(c) \/ AppendRef(c)
    BY <2>1, <2>8 DEF AppendLock, AppendRef, At, Go, Quit, Gone, ClientRow
  <2>9. CASE AppendLookup(c)  BY <2>1, <2>9 DEF AppendLookup, At, Quit, Gone, ClientRow
  <2>10. CASE ExportRelations(c)  BY <2>1, <2>10 DEF ExportRelations, At, ClientRow
  <2>11. CASE ExportShards(c)  BY <2>1, <2>11 DEF ExportShards, At, ClientRow
  <2> QED
    BY <1>1, <2>2, <2>3, <2>4, <2>5, <2>6, <2>7, <2>8, <2>9, <2>10, <2>11 DEF Command
<1>2. ASSUME NEW c \in Clients, Die(c)
      PROVE  /\ \A e \in Clients \ {c} : client'[e] = client[e]
             /\ client[c].pc \in Busy /\ client'[c].pc \in Busy
             /\ rels \subseteq rels' /\ placed = placed'
  BY <1>2 DEF Die, Quit, CatalogTypes, ClientRow, Gone
<1>3. ASSUME NEW a \in Arcsets, BuildData(a) \/ MakeEC(a) \/ Validate(a)
      PROVE  client' = client /\ rels \subseteq rels' /\ placed \subseteq placed'
  BY <1>3 DEF BuildData, MakeEC, Validate
<1> QED  BY <1>1, <1>2, <1>3 DEF CatalogNext

(***************************************************************************)
(* Mounts.  MountsSafe is inductive beside the catalogue: whatever order   *)
(* mounts, unmounts, signals, kills and commands come in, no record of     *)
(* t_fs_mount outlives a process that ends by itself, and an arcset mount  *)
(* has what was placed when it began.                                      *)
(***************************************************************************)

\* The two halves of a property that a step can change for one mount point or one
\* client.
Owned(p) ==
    row[p] \in Clients => /\ client[row[p]].mp = p
                          /\ client[row[p]].pc \in {"index", "mount", "serve", "clean"}
Held(c) ==
    index[c] # None /\ index[c].a # None =>
        /\ client[c].seen \subseteq index[c].readable
        /\ index[c].readable \subseteq ShardsOf(index[c].a)

\* While the catalogue is as it was, a client that is not changed keeps its claims,
\* and a record whose process is not changed keeps its owner.
LEMMA MountStep ==
    ASSUME MountsSafe, UNCHANGED <<rels, placed>>, DOMAIN index' = Clients,
           row' \in [Points -> Clients \cup {None, Stale}],
           \A e \in Clients : \/ client'[e] = client[e] /\ index'[e] = index[e]
                              \/ Prepared(e)' /\ Held(e)',
           \A p \in Points : \/ Owned(p)'
                             \/ row'[p] = row[p] /\ client'[row[p]] = client[row[p]]
    PROVE  MountsSafe'
<1>1. \A a : ShardsOf(a)' = ShardsOf(a)  BY DEF ShardsOf, Related
<1>2. \A e \in Clients : Prepared(e) /\ Held(e)
  BY DEF MountsSafe, MountInv, MountHoldsPlaced, Held
<1>3. \A e \in Clients : Prepared(e)' /\ Held(e)'
  BY <1>1, <1>2 DEF Prepared, Held
<1>4. \A p \in Points : Owned(p)  BY DEF MountsSafe, RecordsOwned, Owned
<1>5. \A p \in Points : Owned(p)'  BY <1>4 DEF Owned
<1> QED
  BY <1>3, <1>5 DEF MountsSafe, MountInv, MountHoldsPlaced, RecordsOwned, Held, Owned

\* A client that holds no index and prepares no arcset mount has nothing to hold.
LEMMA Nothing ==
    ASSUME NEW c \in Clients, client[c].pc \notin {"add", "index", "mount"}, index[c] = None
    PROVE  Prepared(c) /\ Held(c)
BY DEF Prepared, Held

\* Commands of the catalogue only add what an index can hold.
LEMMA CatalogMountsSafe ==
    ASSUME CatalogTypes, MountsSafe, CatalogNext, UNCHANGED <<row, index>>
    PROVE  MountsSafe'
<1>1. /\ rels \subseteq rels' /\ placed \subseteq placed'
      /\ \A e \in Clients : client'[e] = client[e]
            \/ {client[e].pc, client'[e].pc} \subseteq {"idle"} \cup Serialised
  BY CatalogMoves
<1>2. \A pc \in {"idle"} \cup Serialised : pc \notin {"add", "index", "mount", "serve", "clean"}
  BY DEF Serialised, Appending, Exporting, InTransaction
<1>3. \A a : ShardsOf(a) \subseteq ShardsOf(a)'
  BY <1>1 DEF ShardsOf, Related
<1>4. ASSUME NEW e \in Clients PROVE Prepared(e)' /\ Held(e)'
  <2>1. Prepared(e) /\ Held(e)  BY DEF MountsSafe, MountInv, MountHoldsPlaced, Held
  <2>2. CASE client'[e] = client[e]  BY <1>3, <2>1, <2>2 DEF Prepared, Held
  <2>3. CASE {client[e].pc, client'[e].pc} \subseteq {"idle"} \cup Serialised
    <3>1. index[e] = None  BY <1>2, <2>1, <2>3 DEF Prepared
    <3> QED  BY <1>2, <2>3, <3>1 DEF Prepared, Held
  <2> QED  BY <1>1, <2>2, <2>3
<1>5. ASSUME NEW p \in Points PROVE Owned(p)'
  <2>1. Owned(p)  BY DEF MountsSafe, RecordsOwned, Owned
  <2> QED  BY <1>1, <1>2, <2>1 DEF Owned
<1> QED
  BY <1>4, <1>5 DEF MountsSafe, MountInv, MountHoldsPlaced, RecordsOwned, Held, Owned

\* The command that mounts writes its record before it mounts, and reads its index
\* in between.
LEMMA MountingSafe ==
    ASSUME CatalogTypes, MountsSafe, NEW c \in Clients,
           \/ \E p \in Points, d \in Datasets : MountDataset(c, p, d)
           \/ \E p \in Points, a \in Arcsets : MountArcset(c, p, a)
           \/ MountAdd(c) \/ MountIndex(c) \/ MountServe(c)
    PROVE  MountsSafe'
<1>1. /\ UNCHANGED <<rels, placed>> /\ DOMAIN client = Clients
      /\ client[c] \in ClientRow(client[c].seen)
      /\ row \in [Points -> Clients \cup {None, Stale}] /\ DOMAIN index = Clients
      /\ Prepared(c) /\ \A p \in Points : Owned(p)
  BY DEF MountDataset, MountArcset, MountAdd, MountIndex, MountServe, CatalogKept, CatalogTypes,
     MountsSafe, MountInv, RecordsOwned, Owned
<1>2. \A a : ShardsOf(a)' = ShardsOf(a) /\ ShardsOf(a) \subseteq Listed(a)
  BY <1>1 DEF ShardsOf, Related, Listed
<1>3. ASSUME Alone(c), Prepared(c)', Held(c)', DOMAIN index' = Clients,
             \A e \in Clients \ {c} : index'[e] = index[e],
             row' \in [Points -> Clients \cup {None, Stale}],
             \A p \in Points : row'[p] = c => Owned(p)',
             \A p \in Points : row'[p] = row[p] \/ row'[p] = c
      PROVE  MountsSafe'
  <2>1. \A e \in Clients : \/ client'[e] = client[e] /\ index'[e] = index[e]
                           \/ Prepared(e)' /\ Held(e)'
    BY <1>3 DEF Alone
  <2>2. ASSUME NEW p \in Points
        PROVE  Owned(p)' \/ (row'[p] = row[p] /\ client'[row[p]] = client[row[p]])
    BY <1>3 DEF Alone, Owned
  <2> QED  BY <1>1, <1>3, <2>1, <2>2, MountStep
<1>4. CASE \E p \in Points, d \in Datasets : MountDataset(c, p, d)
  <2>1. PICK p \in Points, d \in Datasets : MountDataset(c, p, d)  BY <1>4
  <2> DEFINE how == [Gone EXCEPT !.pc = "add", !.mp = p, !.d = d]
  <2>2. Begin(c, how) /\ UNCHANGED <<row, index>>  BY <2>1 DEF MountDataset
  <2>3. how \in ClientRow(how.seen) /\ how.pc = "add" /\ how.a = None
    BY DEF Gone, ClientRow, Mounting
  <2> HIDE DEF how
  <2>4. Alone(c) /\ client'[c] = how /\ client[c].pc = "idle"  BY <2>2, <2>3, Begins
  <2>5. index[c] = None /\ \A q \in Points : row[q] # c  BY <1>1, <2>4 DEF Prepared, Owned
  <2>6. Prepared(c)' /\ Held(c)'  BY <2>2, <2>3, <2>4, <2>5 DEF Prepared, Held
  <2> QED  BY <1>1, <1>3, <2>2, <2>4, <2>5, <2>6
<1>5. CASE \E p \in Points, a \in Arcsets : MountArcset(c, p, a)
  <2>1. PICK p \in Points, a \in Arcsets : MountArcset(c, p, a)  BY <1>5
  <2>2. PICK seen : seen = ShardsOf(a)  OBVIOUS
  <2> DEFINE how == [Gone EXCEPT !.pc = "add", !.mp = p, !.a = a, !.seen = seen]
  <2>3. Begin(c, how) /\ UNCHANGED <<row, index>>  BY <2>1, <2>2 DEF MountArcset
  <2>4. how \in ClientRow(how.seen) /\ how.pc = "add" /\ how.a = a /\ how.seen = seen
    BY DEF Gone, ClientRow, Mounting
  <2> HIDE DEF how
  <2>5. Alone(c) /\ client'[c] = how /\ client[c].pc = "idle"  BY <2>3, <2>4, Begins
  <2>6. index[c] = None /\ \A q \in Points : row[q] # c  BY <1>1, <2>5 DEF Prepared, Owned
  <2>7. Prepared(c)' /\ Held(c)'
    BY <1>2, <2>2, <2>3, <2>4, <2>5, <2>6 DEF Prepared, Held
  <2> QED  BY <1>1, <1>3, <2>3, <2>5, <2>6, <2>7
<1>6. CASE MountAdd(c)
  <2>1. client[c].pc = "add" /\ UNCHANGED index  BY <1>6 DEF MountAdd, At
  <2>2. index[c] = None /\ \A q \in Points : row[q] # c  BY <1>1, <2>1 DEF Prepared, Owned
  <2>3. CASE Quit(c) /\ UNCHANGED row
    <3>1. Alone(c) /\ client'[c] = Gone  BY <2>3, Quits
    <3>2. Prepared(c)' /\ Held(c)'  BY <2>1, <2>2, <3>1 DEF Prepared, Held, Gone
    <3> QED  BY <1>1, <1>3, <2>1, <2>2, <2>3, <3>1, <3>2
  <2>4. CASE /\ row[client[c].mp] = None /\ Record(client[c].mp, c)
             /\ Go(c, IF client[c].a = None THEN "mount" ELSE "index")
    <3>1. PICK pc \in {"mount", "index"} :
             pc = (IF client[c].a = None THEN "mount" ELSE "index") /\ Go(c, pc)
      BY <2>4
    <3>2. pc \in Mounting  BY DEF Mounting
    <3>3. /\ Alone(c) /\ client'[c].pc = pc /\ client'[c].a = client[c].a
          /\ client'[c].mp = client[c].mp /\ client'[c].seen = client[c].seen
      BY <3>1, <3>2, Goes
    <3>4. Prepared(c)' /\ Held(c)'
      BY <1>1, <1>2, <2>1, <2>2, <3>1, <3>3 DEF Prepared, Held
    <3>5. /\ row' \in [Points -> Clients \cup {None, Stale}]
          /\ \A q \in Points : row'[q] = row[q] \/ (row'[q] = c /\ q = client[c].mp)
      BY <1>1, <2>4 DEF Record
    <3>6. \A q \in Points : row'[q] = c => Owned(q)'
      BY <2>2, <3>3, <3>5 DEF Owned
    <3> QED  BY <1>1, <1>3, <2>1, <3>3, <3>4, <3>5, <3>6
  <2> QED  BY <1>6, <2>3, <2>4 DEF MountAdd
<1>7. CASE MountIndex(c)
  <2>1. PICK list : list = Listed(client[c].a)  OBVIOUS
  <2> DEFINE how == [client[c] EXCEPT !.pc = "mount", !.list = list]
  <2>2. client[c].pc = "index" /\ client' = [client EXCEPT ![c] = how] /\ UNCHANGED <<row, index>>
    BY <1>7, <2>1 DEF MountIndex, At
  <2>3. list \in SUBSET Datasets  BY <2>1 DEF Listed, Related, CatalogTypes
  <2>4. /\ how.pc = "mount" /\ how.list = list /\ how.a = client[c].a /\ how.mp = client[c].mp
        /\ how.seen = client[c].seen
    BY <1>1 DEF ClientRow
  <2>5. how \in ClientRow(how.seen)  BY <1>1, <2>3, <2>4 DEF ClientRow, Mounting
  <2> HIDE DEF how
  <2>6. Alone(c) /\ client'[c] = how  BY <2>2, <2>5, GoesWith
  <2>7. index[c] = None  BY <1>1, <2>2 DEF Prepared
  <2>8. Prepared(c)' /\ Held(c)'
    BY <1>1, <1>2, <2>1, <2>2, <2>4, <2>6, <2>7 DEF Prepared, Held
  <2>9. \A q \in Points : row'[q] = c => Owned(q)'
    BY <1>1, <2>2, <2>4, <2>6 DEF Owned
  <2> QED  BY <1>1, <1>3, <2>2, <2>6, <2>8, <2>9
<1>8. CASE MountServe(c)
  <2>1. PICK x : x = ReadIndex(c)  OBVIOUS
  <2>2. /\ client[c].pc = "mount" /\ index' = [index EXCEPT ![c] = x] /\ UNCHANGED row
        /\ Go(c, "serve")
    BY <1>8, <2>1 DEF MountServe, At
  <2>3. "serve" \in Mounting  BY DEF Mounting
  <2>4. /\ Alone(c) /\ client'[c].pc = "serve" /\ client'[c].a = client[c].a
        /\ client'[c].mp = client[c].mp /\ client'[c].seen = client[c].seen
    BY <2>2, <2>3, Goes
  <2>5. Prepared(c)'  BY <2>4 DEF Prepared
  <2>6. index'[c] = x  BY <1>1, <2>2
  <2>7. CASE client[c].a = None
    <3>1. x.a = None  BY <2>1, <2>7 DEF ReadIndex
    <3> QED  BY <1>1, <1>3, <2>2, <2>4, <2>5, <2>6, <3>1 DEF Held, Owned
  <2>8. CASE client[c].a # None
    <3>1. x.a = client[c].a /\ x.readable = client[c].list \cap ShardsOf(client[c].a)
      BY <2>1, <2>8 DEF ReadIndex
    <3>2. client[c].seen \subseteq ShardsOf(client[c].a) /\ client[c].seen \subseteq client[c].list
      BY <1>1, <2>2, <2>8 DEF Prepared
    <3>3. Held(c)'  BY <1>2, <2>4, <2>6, <3>1, <3>2 DEF Held
    <3>4. \A q \in Points : row'[q] = c => Owned(q)'  BY <1>1, <2>2, <2>4 DEF Owned
    <3> QED  BY <1>1, <1>3, <2>2, <2>4, <2>5, <3>3, <3>4
  <2> QED  BY <2>7, <2>8
<1> QED  BY <1>4, <1>5, <1>6, <1>7, <1>8

\* A mount process that ends, also by a failure or a kill, takes its record along or
\* leaves it without a live owner.
LEMMA EndingSafe ==
    ASSUME CatalogTypes, MountsSafe, NEW c \in Clients,
           MountFails(c) \/ MountClean(c) \/ Forget(c) \/ MountDies(c)
    PROVE  MountsSafe'
<1>1. /\ UNCHANGED <<rels, placed>> /\ Quit(c)
      /\ row \in [Points -> Clients \cup {None, Stale}] /\ DOMAIN index = Clients
      /\ \A e \in Clients : Prepared(e)
      /\ \A p \in Points : Owned(p)
  BY DEF MountFails, MountClean, Forget, MountDies, CatalogKept, MountsSafe, MountInv, RecordsOwned, Owned
<1>2. Alone(c) /\ client'[c] = Gone  BY <1>1, Quits
<1>3. ASSUME index'[c] = None, DOMAIN index' = Clients, \A e \in Clients \ {c} : index'[e] = index[e],
             row' \in [Points -> Clients \cup {None, Stale}],
             \A p \in Points : row'[p] # c /\ (row'[p] = row[p] \/ row'[p] \in {None, Stale})
      PROVE  MountsSafe'
  <2>1. Prepared(c)' /\ Held(c)'  BY <1>2, <1>3 DEF Prepared, Held, Gone
  <2>2. \A e \in Clients : \/ client'[e] = client[e] /\ index'[e] = index[e]
                           \/ Prepared(e)' /\ Held(e)'
    BY <1>2, <1>3, <2>1 DEF Alone
  <2>3. ASSUME NEW p \in Points
        PROVE  Owned(p)' \/ (row'[p] = row[p] /\ client'[row[p]] = client[row[p]])
    BY <1>2, <1>3, MountsAssumption DEF Alone, Owned
  <2> QED  BY <1>1, <1>3, <2>2, <2>3, MountStep
<1>4. CASE MountFails(c) \/ MountClean(c) \/ Forget(c)
  <2>1. /\ client[c].pc \in {"index", "mount", "clean", "forget"}
        /\ row' = [row EXCEPT ![client[c].mp] = None] /\ UNCHANGED index
    BY <1>4 DEF MountFails, MountClean, Forget, OnFailure, Record, At
  <2>2. index[c] = None  BY <1>1, <2>1 DEF Prepared
  <2>3. \A p \in Points : row[p] = c => client[c].mp = p  BY <1>1 DEF Owned
  <2> QED  BY <1>1, <1>3, <2>1, <2>2, <2>3, MountsAssumption
<1>5. CASE MountDies(c)
  <2>1. /\ row' = [p \in Points |-> IF row[p] = c THEN Stale ELSE row[p]]
        /\ index' = [index EXCEPT ![c] = None]
    BY <1>5 DEF MountDies
  <2> QED  BY <1>1, <1>3, <2>1, MountsAssumption
<1> QED  BY <1>4, <1>5

\* An unmount, or a signal, sends the server on top to its clean-up.
LEMMA UnmountSafe ==
    ASSUME CatalogTypes, MountsSafe,
           \/ \E c \in Clients : Signal(c)
           \/ \E c \in Clients, p \in Points : Umount(c, p)
    PROVE  MountsSafe'
<1>1. /\ UNCHANGED <<rels, placed, row>>
      /\ DOMAIN client = Clients /\ \A e \in Clients : client[e] \in ClientRow(client[e].seen)
      /\ row \in [Points -> Clients \cup {None, Stale}] /\ DOMAIN index = Clients
      /\ \A e \in Clients : Prepared(e)
      /\ \A p \in Points : Owned(p)
  BY DEF Signal, Umount, CatalogKept, CatalogTypes, MountsSafe, MountInv, RecordsOwned, Owned
<1>2. ASSUME NEW p, NEW then, Pop(p, then),
             \A e \in Clients : \/ then[e] = client[e]
                                \/ client[e].pc = "idle" /\ then[e].pc = "forget"
      PROVE  MountsSafe'
  <2>1. /\ client' = [c \in Clients |-> IF c = Top(p) THEN [client[c] EXCEPT !.pc = "clean"] ELSE then[c]]
        /\ index' = [c \in Clients |-> IF c = Top(p) THEN None ELSE index[c]]
    BY <1>2 DEF Pop
  <2>2. ASSUME NEW e \in Clients
        PROVE  \/ client'[e] = client[e] /\ index'[e] = index[e]
               \/ Prepared(e)' /\ Held(e)' /\ \A q \in Points : row[q] = e => Owned(q)'
    <3>1. CASE e = Top(p)
      <4>1. client'[e] = [client[e] EXCEPT !.pc = "clean"] /\ index'[e] = None  BY <2>1, <3>1
      <4>2. client'[e].pc = "clean" /\ client'[e].mp = client[e].mp  BY <1>1, <4>1 DEF ClientRow
      <4> QED  BY <1>1, <4>1, <4>2 DEF Prepared, Held, Owned
    <3>2. CASE e # Top(p)
      <4>1. client'[e] = then[e] /\ index'[e] = index[e]  BY <2>1, <3>2
      <4>2. CASE client[e].pc = "idle" /\ then[e].pc = "forget"
        <5>1. index[e] = None /\ \A q \in Points : row[q] # e  BY <1>1, <4>2 DEF Prepared, Owned
        <5> QED  BY <4>1, <4>2, <5>1 DEF Prepared, Held
      <4> QED  BY <1>2, <4>1, <4>2
    <3> QED  BY <3>1, <3>2
  <2>3. ASSUME NEW q \in Points
        PROVE  Owned(q)' \/ (row'[q] = row[q] /\ client'[row[q]] = client[row[q]])
    <3>1. CASE row[q] \in Clients  BY <1>1, <2>2, <3>1
    <3>2. CASE row[q] \notin Clients  BY <1>1, <3>2 DEF Owned
    <3> QED  BY <3>1, <3>2
  <2>4. DOMAIN index' = Clients  BY <2>1
  <2> QED  BY <1>1, <2>2, <2>3, <2>4, MountStep
<1>3. ASSUME NEW c \in Clients, Signal(c) PROVE MountsSafe'
  BY <1>2, <1>3 DEF Signal
<1>4. ASSUME NEW c \in Clients, NEW p \in Points, Umount(c, p) PROVE MountsSafe'
  <2> DEFINE how  == [Gone EXCEPT !.pc = "forget", !.mp = p]
             then == [client EXCEPT ![c] = how]
  <2>1. Pop(p, then) /\ client[c].pc = "idle"  BY <1>4 DEF Umount, At
  <2>2. how.pc = "forget"  BY DEF Gone
  <2> HIDE DEF how
  <2>3. \A e \in Clients : then[e] = client[e] \/ (client[e].pc = "idle" /\ then[e].pc = "forget")
    BY <1>1, <2>1, <2>2
  <2> HIDE DEF then
  <2> QED  BY <1>2, <2>1, <2>3
<1> QED  BY <1>3, <1>4

\* MountsSafe is inductive, given that the catalogue is.
LEMMA MountsStepSafe == CatalogSafe /\ MountsSafe /\ [Next]_mvars => MountsSafe'
<1> SUFFICES ASSUME CatalogTypes, MountsSafe, [Next]_mvars PROVE MountsSafe'
  BY DEF CatalogSafe
<1>1. CASE CatalogNext /\ UNCHANGED <<row, stack, index>>
  BY <1>1, CatalogMountsSafe
<1>2. ASSUME NEW p \in Points, DeleteMount(p) PROVE MountsSafe'
  <2>1. /\ UNCHANGED <<rels, placed, client, index>> /\ row' = [row EXCEPT ![p] = None]
        /\ row \in [Points -> Clients \cup {None, Stale}] /\ DOMAIN index = Clients
    BY <1>2 DEF DeleteMount, CatalogKept, Record, MountsSafe
  <2>2. \A q \in Points : Owned(q)' \/ (row'[q] = row[q] /\ client'[row[q]] = client[row[q]])
    BY <2>1, MountsAssumption DEF Owned
  <2> QED  BY <2>1, <2>2, MountStep
<1>3. CASE MountNext
  BY <1>2, <1>3, MountingSafe, EndingSafe, UnmountSafe DEF MountNext
<1>4. CASE UNCHANGED mvars
  <2>1. UNCHANGED <<rels, placed, client, index, row>>  BY <1>4 DEF mvars, cvars
  <2> QED  BY <2>1, MountStep DEF MountsSafe
<1> QED  BY <1>1, <1>3, <1>4 DEF Next

\* What the mounts rely on is so in every state.
THEOREM MountsStaySafe == Spec => []MountsSafe
<1>1. MountsInit => MountsSafe
  BY MountsAssumption
     DEF MountsInit, CatalogInit, MountsSafe, MountInv, Prepared, RecordsOwned, MountHoldsPlaced, Gone
<1> QED  BY <1>1, MountsStepSafe, CatalogStaysSafe, PTL DEF Spec

\* RecordsOwned: a record belongs to a live mount process of that mount point, or
\* to one that was killed.
THEOREM RecordsStayOwned == Spec => []RecordsOwned
<1>1. MountsSafe => RecordsOwned  BY DEF MountsSafe
<1> QED  BY <1>1, MountsStaySafe, PTL

\* MountHoldsPlaced: an arcset mount has, with its paths, every dataset that was
\* placed when the command began, whatever is appended and built meanwhile.
THEOREM MountsHoldPlaced == Spec => []MountHoldsPlaced
<1>1. MountsSafe => MountHoldsPlaced  BY DEF MountsSafe
<1> QED  BY <1>1, MountsStaySafe, PTL
================================================================================

----------------------------- MODULE BootProofs ------------------------------
(***************************************************************************)
(* However many runtimes a process builds, from whatever files and under   *)
(* whatever environments: their nodes are wired to bundles of their own,   *)
(* and the app reads the bundle of its own nodes (IInv); a runtime has the *)
(* nodes of its file, each once and as real as it was asked to be, on a    *)
(* bus that brings each its events, so the page and the badge tell the     *)
(* truth (FileInv).                                                        *)
(***************************************************************************)
EXTENDS Boot, SequenceTheorems, FiniteSetTheorems, TLAPS

StoreSet(n) == [db : BOOLEAN, n : 1 .. n]
Bundles(n)  == [Roles -> StoreSet(n)]

IsSeq(s) == s \in Seq(Range(s))

\* Every node takes its stores from the bundle b.
Wired(nodes, b) ==
  \A k \in DOMAIN nodes :
    /\ DOMAIN nodes[k].at \subseteq Roles
    /\ \A r \in DOMAIN nodes[k].at : nodes[k].at[r] = b[r]

\* Nothing of b that is in memory belongs to a runtime.
Unshared(b) ==
  \A i \in DOMAIN runtimes : \A x \in StoresOf(runtimes[i]) :
    \A r \in Roles : x = b[r] => x.db

StoresInv  == made \in Nat /\ global \in Bundles(made)

BuildInv ==
  /\ building.pc = "reset" =>
       \A b \in building.over : b \in Bundles(made) /\ \A r \in Roles : b[r].db
  /\ building.pc = "nodes" =>
       /\ building = [pc |-> "nodes", who |-> building.who, file |-> building.file,
                      specs |-> building.specs, nodes |-> building.nodes,
                      bus |-> building.bus]
       /\ IsSeq(building.nodes)
       /\ Wired(building.nodes, global)
       /\ Unshared(global)

RuntimesInv ==
  /\ IsSeq(runtimes)
  /\ \A i \in DOMAIN runtimes : \E b \in Bundles(made) : Wired(runtimes[i].nodes, b)
  /\ \A i, j \in DOMAIN runtimes :
       i # j => \A x \in StoresOf(runtimes[i]) \cap StoresOf(runtimes[j]) : x.db

AppInv ==
  app.pc = "up" => /\ app.runtime \in DOMAIN runtimes
                   /\ Wired(runtimes[app.runtime].nodes, app.bundle)

IInv == StoresInv /\ BuildInv /\ RuntimesInv /\ AppInv
-----------------------------------------------------------------------------
\* Every store of a node is one of its runtime's.
LEMMA InStores ==
  ASSUME NEW r
  PROVE  \A x : x \in StoresOf(r) <=>
           \E k \in DOMAIN r.nodes : \E role \in DOMAIN r.nodes[k].at : x = r.nodes[k].at[role]
BY DEF StoresOf, Range

\* The stores a node is wired to are among those of the global bundle.
LEMMA WiredStores ==
  ASSUME NEW r, NEW b, Wired(r.nodes, b), NEW x \in StoresOf(r)
  PROVE  \E role \in Roles : x = b[role]
BY InStores DEF Wired

\* What a sequence holds after an append.
LEMMA Appending ==
  ASSUME NEW s, IsSeq(s), NEW e
  PROVE  /\ IsSeq(Append(s, e))
         /\ Len(s) \in Nat
         /\ DOMAIN s = 1 .. Len(s)
         /\ DOMAIN Append(s, e) = 1 .. Len(s) + 1
         /\ \A i \in DOMAIN s : Append(s, e)[i] = s[i]
         /\ Append(s, e)[Len(s) + 1] = e
<1>1. DEFINE S == Range(s) \cup {e}
<1>2. s \in Seq(S)
  BY SeqDef DEF IsSeq
<1>3. e \in S
  OBVIOUS
<1>4. /\ Append(s, e) \in Seq(S)
      /\ Len(s) \in Nat
      /\ DOMAIN s = 1 .. Len(s)
      /\ DOMAIN Append(s, e) = 1 .. Len(s) + 1
      /\ \A i \in DOMAIN s : Append(s, e)[i] = s[i]
      /\ Append(s, e)[Len(s) + 1] = e
  BY <1>2, <1>3
<1>5. PICK n \in Nat : Append(s, e) \in [1 .. n -> S]
  <2>1. Seq(S) = UNION {[1 .. n -> S] : n \in Nat}
    BY SeqDef
  <2> QED
    BY <1>4, <2>1
<1>6. Append(s, e) \in [1 .. n -> Range(Append(s, e))]
  BY <1>5 DEF Range
<1>7. IsSeq(Append(s, e))
  <2>1. Seq(Range(Append(s, e))) = UNION {[1 .. k -> Range(Append(s, e))] : k \in Nat}
    BY SeqDef
  <2> QED
    BY <1>6, <2>1 DEF IsSeq
<1> QED
  BY <1>4, <1>7

\* A factory takes only stores of the three roles.
LEMMA FactoryRoles == \A spec : Factory(spec).roles \subseteq Roles
<1> SUFFICES ASSUME NEW spec
             PROVE  Factory(spec).roles \subseteq Roles
  OBVIOUS
<1>1. \A how, roles : Made(how, roles).roles = roles
  BY DEF Made
<1>2. Raises.roles = {}
  BY DEF Raises
<1>3. \A c : Scripted(c).roles = {} /\ Drafter(c).roles = {} /\ LeadSourcer(c).roles = {}
  BY <1>1, <1>2 DEF Scripted, Drafter, LeadSourcer
<1>4. \A c, roles : Reasoner(c, roles).roles \subseteq roles
  BY <1>1, <1>2 DEF Reasoner
<1>5. \A c : SourceScraper(c).roles = {"source", "raw"}
  BY <1>1 DEF SourceScraper
<1>6. CASE spec.name \notin Known
  BY <1>6, <1>2 DEF Factory, Known, Plain, Demo
<1>7. CASE spec.name \in Plain
  BY <1>7, <1>1 DEF Factory, Plain, Demo, Known
<1>8. CASE spec.name \in Demo
  BY <1>8, <1>3 DEF Factory, Plain, Demo, Known
<1>9. CASE spec.name \in Known \ (Plain \cup Demo)
  BY <1>9, <1>1, <1>3, <1>4, <1>5 DEF Factory, Plain, Demo, Known, Roles
<1> QED
  BY <1>6, <1>7, <1>8, <1>9

\* The stores of a new bundle are newer than any made before, and in memory
\* unless the bundle is over the database.
LEMMA NewBundles ==
  ASSUME NEW n \in Nat, NEW db \in BOOLEAN
  PROVE  /\ NewBundle(db, n) \in Bundles(n + 3)
         /\ \A r \in Roles : NewBundle(db, n)[r].db = db /\ NewBundle(db, n)[r].n > n
<1>1. /\ NewBundle(db, n)["source"]    = Store(db, n + 1)
      /\ NewBundle(db, n)["raw"]       = Store(db, n + 2)
      /\ NewBundle(db, n)["knowledge"] = Store(db, n + 3)
  BY DEF NewBundle
<1>2. \A k \in 1 .. n + 3 : Store(db, k) \in StoreSet(n + 3) /\ Store(db, k).n = k
                             /\ Store(db, k).db = db
  BY DEF Store, StoreSet
<1>3. NewBundle(db, n) \in [Roles -> StoreSet(n + 3)]
  BY <1>2 DEF NewBundle, Roles
<1> QED
  BY <1>1, <1>2, <1>3 DEF Bundles, Roles

\* Stores known before are still known when more have been made.
LEMMA Growing ==
  ASSUME NEW n \in Nat
  PROVE  Bundles(n) \subseteq Bundles(n + 3)
<1>1. StoreSet(n) \subseteq StoreSet(n + 3)
  BY DEF StoreSet
<1> QED
  BY <1>1 DEF Bundles

\* What holds of older stores holds of them when more have been made.
LEMMA OldStores ==
  ASSUME StoresInv, RuntimesInv, NEW i \in DOMAIN runtimes, NEW x \in StoresOf(runtimes[i])
  PROVE  x \in StoreSet(made)
<1>1. PICK b \in Bundles(made) : Wired(runtimes[i].nodes, b)
  BY DEF RuntimesInv
<1>2. PICK role \in Roles : x = b[role]
  BY <1>1, WiredStores
<1> QED
  BY <1>2 DEF Bundles
-----------------------------------------------------------------------------
\* The invariant holds when the registry has just been imported.
LEMMA InitIInv == Init => IInv
<1> SUFFICES ASSUME Init
             PROVE  IInv
  OBVIOUS
<1>1. StoresInv
  <2>1. NewBundle(FALSE, 0) \in Bundles(0 + 3)
    BY NewBundles
  <2>2. 0 + 3 = 3
    OBVIOUS
  <2>3. made \in Nat /\ made = 0 + 3
    BY <2>2 DEF Init
  <2>4. global \in Bundles(made)
    BY <2>1, <2>3, Zenon DEF Init
  <2> QED
    BY <2>3, <2>4 DEF StoresInv
<1>2. BuildInv
  BY DEF Init, BuildInv, NoBuild
<1>3. RuntimesInv
  <2>1. <<>> \in Seq(Range(<<>>)) /\ DOMAIN <<>> = {}
    OBVIOUS
  <2> QED
    BY <2>1 DEF Init, RuntimesInv, IsSeq
<1>4. AppInv
  BY DEF Init, AppInv, NoApp
<1> QED
  BY <1>1, <1>2, <1>3, <1>4 DEF IInv

\* Steps that leave the runtimes alone keep what is said of them.
LEMMA SameRuntimes ==
  ASSUME IInv, UNCHANGED runtimes, made' \in Nat, Bundles(made) \subseteq Bundles(made')
  PROVE  RuntimesInv'
<1>1. \A i \in DOMAIN runtimes : \E b \in Bundles(made') : Wired(runtimes[i].nodes, b)
  BY DEF IInv, RuntimesInv
<1>2. /\ IsSeq(runtimes)
      /\ \A i, j \in DOMAIN runtimes :
           i # j => \A x \in StoresOf(runtimes[i]) \cap StoresOf(runtimes[j]) : x.db
  BY DEF IInv, RuntimesInv
<1> QED
  BY <1>1, <1>2 DEF RuntimesInv

\* A build that begins, the app's or another.
LEMMA BeginKeeps ==
  ASSUME IInv, NEW file, NEW who, Begin(file, who), app' = app \/ app' = [pc |-> "importing"]
  PROVE  IInv'
<1>1. StoresInv'
  BY DEF IInv, StoresInv, Begin
<1>2. BuildInv'
  BY DEF BuildInv, Begin
<1>3. RuntimesInv'
  BY <1>1, SameRuntimes DEF Begin, StoresInv
<1>4. AppInv'
  BY DEF IInv, AppInv, Begin
<1> QED
  BY <1>1, <1>2, <1>3, <1>4 DEF IInv

\* resolve_ingestion_stores.
LEMMA ResolveKeeps ==
  ASSUME IInv, ResolveStores
  PROVE  IInv'
<1>1. CASE "DB_URL" \in env.set
  <2>1. /\ global' = NewBundle(TRUE, made) /\ made' = made + 3
        /\ building' = Resolved({NewBundle(TRUE, made)})
    BY <1>1 DEF ResolveStores
  <2> made \in Nat
    BY DEF IInv, StoresInv
  <2>2. /\ NewBundle(TRUE, made) \in Bundles(made + 3)
        /\ \A r \in Roles : NewBundle(TRUE, made)[r].db
    <3>1. TRUE \in BOOLEAN
      OBVIOUS
    <3> QED
      BY <3>1, NewBundles, Zenon
  <2>3. global' \in Bundles(made') /\ Bundles(made) \subseteq Bundles(made')
    BY <2>1, <2>2, Growing, Zenon
  <2>4. made' \in Nat
    BY <2>1
  <2>5. StoresInv' /\ Bundles(made) \subseteq Bundles(made')
    BY <2>3, <2>4 DEF StoresInv
  <2>6. BuildInv'
    BY <2>1, <2>2 DEF BuildInv, Resolved
  <2>7. RuntimesInv'
    BY <2>5, SameRuntimes DEF StoresInv, ResolveStores
  <2> QED
    BY <2>5, <2>6, <2>7 DEF IInv, AppInv, ResolveStores
<1>2. CASE "DB_URL" \notin env.set
  <2>1. UNCHANGED <<global, made>> /\ building' = Resolved({})
    BY <1>2 DEF ResolveStores
  <2>2. StoresInv'
    BY <2>1 DEF IInv, StoresInv
  <2>3. BuildInv'
    BY <2>1 DEF BuildInv, Resolved
  <2>4. RuntimesInv'
    BY <2>1, <2>2, SameRuntimes DEF StoresInv, ResolveStores
  <2> QED
    BY <2>2, <2>3, <2>4 DEF IInv, AppInv, ResolveStores
<1> QED
  BY <1>1, <1>2

\* reset_ingestion_stores.
LEMMA ResetKeeps ==
  ASSUME IInv, ResetStores
  PROVE  IInv'
<1>1. made \in Nat /\ made' = made + 3
  BY DEF IInv, StoresInv, ResetStores
<1>2. Bundles(made) \subseteq Bundles(made')
  BY <1>1, Growing
<1>3. global' \in Bundles(made') /\ Unshared(global')
  <2>1. CASE building.over = {} /\ global' = NewBundle(FALSE, made)
    <3>1. global' \in Bundles(made') /\ \A r \in Roles : global'[r].n > made
      BY <2>1, <1>1, NewBundles
    <3>2. \A i \in DOMAIN runtimes : \A x \in StoresOf(runtimes[i]) : x.n \in 1 .. made
      BY OldStores DEF IInv, StoreSet
    <3> QED
      BY <3>1, <3>2, <1>1 DEF Unshared
  <2>2. CASE global' \in building.over
    <3>1. global' \in Bundles(made) /\ \A r \in Roles : global'[r].db
      BY <2>2 DEF IInv, BuildInv, ResetStores
    <3> QED
      BY <3>1, <1>2 DEF Unshared
  <2> QED
    BY <2>1, <2>2 DEF ResetStores
<1>4. StoresInv'
  BY <1>1, <1>3 DEF StoresInv
<1>5. BuildInv'
  <2>1. building' = Wiring(NodeSpecs[building.file], <<>>, <<>>) /\ UNCHANGED runtimes
    BY DEF ResetStores
  <2>2. <<>> \in Seq(Range(<<>>)) /\ DOMAIN <<>> = {}
    OBVIOUS
  <2>3. Unshared(global)'
    BY <1>3, <2>1 DEF Unshared
  <2>4. building'.pc = "nodes" /\ building'.nodes = <<>> /\ building' =
          [pc |-> "nodes", who |-> building'.who, file |-> building'.file,
           specs |-> building'.specs, nodes |-> building'.nodes, bus |-> building'.bus]
    BY <2>1 DEF Wiring
  <2>5. IsSeq(building.nodes)' /\ Wired(building.nodes, global)'
    BY <2>2, <2>4 DEF IsSeq, Wired
  <2> QED
    BY <2>3, <2>4, <2>5 DEF BuildInv
<1>6. RuntimesInv'
  BY <1>1, <1>2, SameRuntimes DEF ResetStores
<1> QED
  BY <1>4, <1>5, <1>6 DEF IInv, AppInv, ResetStores

\* A node that is built and registered.
LEMMA RegisterKeeps ==
  ASSUME IInv, Register
  PROVE  IInv'
<1> DEFINE spec == Head(building.specs)
           new  == [name |-> spec.name, config |-> spec.config, how |-> Factory(spec).how,
                    at |-> [r \in Factory(spec).roles |-> global[r]]]
<1>1. /\ building.pc = "nodes"
      /\ UNCHANGED <<global, made, runtimes, app>>
  BY DEF Register
<1>2. /\ building = [pc |-> "nodes", who |-> building.who, file |-> building.file,
                     specs |-> building.specs, nodes |-> building.nodes,
                     bus |-> building.bus]
      /\ IsSeq(building.nodes)
      /\ Wired(building.nodes, global)
      /\ Unshared(global)
  BY <1>1 DEF IInv, BuildInv
<1>3. PICK bus : building' = Wiring(Tail(building.specs), Append(building.nodes, new), bus)
  BY DEF Register
<1>4. building' = [pc |-> "nodes", who |-> building.who, file |-> building.file,
                   specs |-> Tail(building.specs), nodes |-> Append(building.nodes, new),
                   bus |-> bus]
  BY <1>3 DEF Wiring
<1>5. building'.pc = "nodes" /\ building'.nodes = Append(building.nodes, new)
  BY <1>4
<1>6. building' = [pc |-> "nodes", who |-> building'.who, file |-> building'.file,
                   specs |-> building'.specs, nodes |-> building'.nodes,
                   bus |-> building'.bus]
  BY <1>4
<1>7. IsSeq(Append(building.nodes, new))
  BY <1>2, Appending
<1>8. Wired(Append(building.nodes, new), global)
  <2>1. /\ Len(building.nodes) \in Nat
        /\ DOMAIN building.nodes = 1 .. Len(building.nodes)
        /\ DOMAIN Append(building.nodes, new) = 1 .. Len(building.nodes) + 1
        /\ \A k \in DOMAIN building.nodes : Append(building.nodes, new)[k] = building.nodes[k]
        /\ Append(building.nodes, new)[Len(building.nodes) + 1] = new
    BY <1>2, Appending
  <2>2. new.at = [r \in Factory(spec).roles |-> global[r]]
    OBVIOUS
  <2>3. DOMAIN new.at \subseteq Roles /\ \A r \in DOMAIN new.at : new.at[r] = global[r]
    BY <2>2, FactoryRoles
  <2> HIDE DEF new
  <2>4. SUFFICES ASSUME NEW k \in DOMAIN Append(building.nodes, new)
                 PROVE  /\ DOMAIN Append(building.nodes, new)[k].at \subseteq Roles
                        /\ \A r \in DOMAIN Append(building.nodes, new)[k].at :
                             Append(building.nodes, new)[k].at[r] = global[r]
    BY DEF Wired
  <2>5. CASE k \in DOMAIN building.nodes
    BY <2>5, <2>1, <1>2 DEF Wired
  <2>6. CASE k = Len(building.nodes) + 1
    BY <2>6, <2>1, <2>3
  <2> QED
    BY <2>1, <2>5, <2>6
<1> HIDE DEF new
<1>9. BuildInv'
  <2>1. IsSeq(building.nodes)' /\ Wired(building.nodes, global)'
    BY <1>1, <1>5, <1>7, <1>8 DEF IsSeq, Wired
  <2>2. Unshared(global)'
    BY <1>1, <1>2 DEF Unshared
  <2> QED
    BY <1>5, <1>6, <2>1, <2>2 DEF BuildInv
<1>10. StoresInv' /\ AppInv'
  BY <1>1 DEF IInv, StoresInv, AppInv
<1>11. RuntimesInv'
  BY <1>1, <1>10, SameRuntimes DEF StoresInv
<1> QED
  BY <1>9, <1>10, <1>11 DEF IInv

\* A factory that raises.
LEMMA RefuseKeeps ==
  ASSUME IInv, Refuse
  PROVE  IInv'
<1>1. StoresInv'
  BY DEF IInv, StoresInv, Refuse
<1>2. BuildInv'
  BY DEF BuildInv, Refuse, NoBuild
<1>3. RuntimesInv'
  BY <1>1, SameRuntimes DEF Refuse, StoresInv
<1>4. AppInv'
  BY DEF IInv, AppInv, Refuse
<1> QED
  BY <1>1, <1>2, <1>3, <1>4 DEF IInv

\* A build that is over.
LEMMA FinishKeeps ==
  ASSUME IInv, Finish
  PROVE  IInv'
<1> DEFINE new == [file |-> building.file, nodes |-> building.nodes, bus |-> building.bus]
           n   == Len(runtimes)
<1>1. /\ building.pc = "nodes" /\ building' = NoBuild
      /\ UNCHANGED <<global, made>>
      /\ runtimes' = Append(runtimes, new)
      /\ app' = IF building.who = "app"
                THEN [pc |-> "up", runtime |-> n + 1, bundle |-> global] ELSE app
  BY DEF Finish
<1>2. Wired(new.nodes, global) /\ Unshared(global)
  BY <1>1 DEF IInv, BuildInv
<1>3. /\ IsSeq(runtimes')
      /\ n \in Nat
      /\ DOMAIN runtimes = 1 .. n
      /\ DOMAIN runtimes' = 1 .. n + 1
      /\ \A i \in DOMAIN runtimes : runtimes'[i] = runtimes[i]
      /\ runtimes'[n + 1] = new
  BY <1>1, Appending DEF IInv, RuntimesInv
<1> HIDE DEF new, n
<1>4. StoresInv'
  BY <1>1 DEF IInv, StoresInv
<1>5. BuildInv'
  BY <1>1 DEF BuildInv, NoBuild
<1>6. \A i \in DOMAIN runtimes' : \E b \in Bundles(made') : Wired(runtimes'[i].nodes, b)
  <2>1. \A i \in DOMAIN runtimes : \E b \in Bundles(made) : Wired(runtimes[i].nodes, b)
    BY DEF IInv, RuntimesInv
  <2>2. global \in Bundles(made)
    BY DEF IInv, StoresInv
  <2>3. \A i \in DOMAIN runtimes' : i \in DOMAIN runtimes \/ i = n + 1
    BY <1>3
  <2> QED
    BY <1>1, <1>2, <1>3, <2>1, <2>2, <2>3
<1>7. \A i, j \in DOMAIN runtimes' :
        i # j => \A x \in StoresOf(runtimes'[i]) \cap StoresOf(runtimes'[j]) : x.db
  <2>1. \A i \in DOMAIN runtimes : \A x \in StoresOf(runtimes[i]) \cap StoresOf(new) : x.db
    BY <1>2, WiredStores DEF Unshared
  <2>2. \A i, j \in DOMAIN runtimes :
          i # j => \A x \in StoresOf(runtimes[i]) \cap StoresOf(runtimes[j]) : x.db
    BY DEF IInv, RuntimesInv
  <2>3. \A i \in DOMAIN runtimes' : i \in DOMAIN runtimes \/ i = n + 1
    BY <1>3
  <2> QED
    BY <1>3, <2>1, <2>2, <2>3
<1>8. AppInv'
  <2>1. CASE building.who = "app"
    <3>1. app'.pc = "up" /\ app'.runtime = n + 1 /\ app'.bundle = global
      BY <1>1, <2>1
    <3>2. n + 1 \in DOMAIN runtimes' /\ Wired(runtimes'[n + 1].nodes, global)
      BY <1>2, <1>3
    <3> QED
      BY <3>1, <3>2 DEF AppInv, Wired
  <2>2. CASE building.who # "app"
    BY <1>1, <1>3, <2>2 DEF IInv, AppInv
  <2> QED
    BY <2>1, <2>2
<1>9. RuntimesInv'
  BY <1>3, <1>6, <1>7 DEF RuntimesInv, IsSeq
<1> QED
  BY <1>4, <1>5, <1>8, <1>9 DEF IInv

\* The inductive invariant: a build under way and the stores it takes from the
\* global bundle, the runtimes finished and theirs, the app and its own.
THEOREM Inductive == IInv /\ [Next]_vars => IInv'
<1> SUFFICES ASSUME IInv, [Next]_vars
             PROVE  IInv'
  OBVIOUS
<1>1. CASE SetEnv
  <2>1. UNCHANGED <<global, made, building, runtimes, app>> /\ building = NoBuild
    BY <1>1 DEF SetEnv
  <2>2. StoresInv' /\ BuildInv' /\ AppInv'
    BY <2>1 DEF IInv, StoresInv, BuildInv, AppInv, NoBuild
  <2>3. RuntimesInv'
    BY <2>1, <2>2, SameRuntimes DEF StoresInv
  <2> QED
    BY <2>2, <2>3 DEF IInv
<1>2. CASE ImportApp
  BY <1>2, BeginKeeps DEF ImportApp
<1>3. CASE BuildAnother
  BY <1>3, BeginKeeps DEF BuildAnother
<1>4. CASE ResolveStores
  BY <1>4, ResolveKeeps
<1>5. CASE ResetStores
  BY <1>5, ResetKeeps
<1>6. CASE Register
  BY <1>6, RegisterKeeps
<1>7. CASE Refuse
  BY <1>7, RefuseKeeps
<1>8. CASE Finish
  BY <1>8, FinishKeeps
<1>9. CASE UNCHANGED vars
  <2>1. UNCHANGED <<global, made, building, runtimes, app>>
    BY <1>9 DEF vars
  <2>2. StoresInv' /\ AppInv'
    BY <2>1 DEF IInv, StoresInv, AppInv
  <2>3. BuildInv'
    BY <2>1 DEF IInv, BuildInv, Unshared
  <2>4. RuntimesInv'
    BY <2>1, <2>2, SameRuntimes DEF StoresInv
  <2> QED
    BY <2>2, <2>3, <2>4 DEF IInv
<1> QED
  BY <1>1, <1>2, <1>3, <1>4, <1>5, <1>6, <1>7, <1>8, <1>9 DEF Next

\* The nodes of a runtime share their stores, and no two runtimes share one that
\* is in memory.
THEOREM SafeOneBundle == Spec => []OneBundle
<1>1. IInv => OneBundle
  <2> SUFFICES ASSUME IInv
               PROVE  OneBundle
    OBVIOUS
  <2>1. ASSUME NEW i \in DOMAIN runtimes, NEW k \in DOMAIN runtimes[i].nodes,
               NEW l \in DOMAIN runtimes[i].nodes,
               NEW r \in DOMAIN runtimes[i].nodes[k].at \cap DOMAIN runtimes[i].nodes[l].at
        PROVE  runtimes[i].nodes[k].at[r] = runtimes[i].nodes[l].at[r]
    <3>1. PICK b \in Bundles(made) : Wired(runtimes[i].nodes, b)
      BY DEF IInv, RuntimesInv
    <3> QED
      BY <3>1 DEF Wired
  <2>2. \A i, j \in DOMAIN runtimes :
          i # j => \A x \in StoresOf(runtimes[i]) \cap StoresOf(runtimes[j]) : x.db
    BY DEF IInv, RuntimesInv
  <2> QED
    BY <2>1, <2>2 DEF OneBundle
<1> QED
  BY <1>1, InitIInv, Inductive, PTL DEF Spec

\* The app's endpoints read the stores of the app's own nodes.
THEOREM SafeAppReadsItsNodes == Spec => []AppReadsItsNodes
<1>1. IInv => AppReadsItsNodes
  BY DEF IInv, AppInv, Wired, AppReadsItsNodes, AppStores
<1> QED
  BY <1>1, InitIInv, Inductive, PTL DEF Spec
-----------------------------------------------------------------------------
\* A set of numbers with a member has a least one.
LEMMA Least ==
  ASSUME NEW T \in SUBSET Nat, T # {}
  PROVE  \E m \in T : \A k \in T : m <= k
<1>1. IsWellFoundedOn({ss \in Nat \X Nat : ss[1] < ss[2]}, Nat)
  BY NatLessThanWellFounded DEF OpToRel
<1>2. PICK m \in T : \A k \in T : ~ (<<k, m>> \in {ss \in Nat \X Nat : ss[1] < ss[2]})
  BY <1>1, WFMin
<1>3. \A k \in T : ~ (k < m)
  BY <1>2
<1> QED
  BY <1>3

\* Before orders pairs of numbers.
LEMMA Order ==
  /\ \A p, q \in Nat \X Nat : Before(p, q) \/ Before(q, p) \/ p = q
  /\ \A p, q, r \in Nat \X Nat : Before(p, q) /\ Before(q, r) => Before(p, r)
  /\ \A p \in Nat \X Nat : ~Before(p, p)
<1>1. \A p \in Nat \X Nat : p[1] \in Nat /\ p[2] \in Nat /\ p = <<p[1], p[2]>>
  OBVIOUS
<1> QED
  BY <1>1 DEF Before

\* The places of a file are pairs of numbers, and finitely many.
LEMMA PlacesFacts ==
  ASSUME NEW file \in Files
  PROVE  Places(file) \subseteq Nat \X Nat /\ IsFiniteSet(Places(file))
<1> USE FilesAssumption
<1> DEFINE F == FunctionsOf[file]
           Part == [k \in DOMAIN F |-> {k} \X DOMAIN F[k]]
<1>1. Len(F) \in Nat /\ DOMAIN F = 1 .. Len(F)
  BY DEF Listed
<1>2. \A k \in DOMAIN F : Len(F[k]) \in Nat /\ DOMAIN F[k] = 1 .. Len(F[k])
  BY DEF Listed
<1>3. Places(file) = UNION {Part[k] : k \in DOMAIN F}
  BY DEF Places
<1>4. \A k \in DOMAIN F : Part[k] \subseteq Nat \X Nat
  BY <1>1, <1>2
<1>5. ASSUME NEW k \in DOMAIN F
      PROVE  IsFiniteSet(Part[k])
  <2>1. IsFiniteSet({k})
    BY FS_Singleton
  <2>2. IsFiniteSet(1 .. Len(F[k]))
    BY <1>2, FS_Interval
  <2>3. IsFiniteSet(DOMAIN F[k])
    BY <2>2, <1>2
  <2>4. IsFiniteSet({k} \X DOMAIN F[k])
    BY <2>1, <2>3, FS_Product
  <2> QED
    BY <2>4
<1>6. IsFiniteSet({Part[k] : k \in DOMAIN F})
  <2>1. Part \in Surjection(DOMAIN F, {Part[k] : k \in DOMAIN F})
    <3> HIDE DEF F
    <3> QED
      BY DEF Surjection
  <2>2. IsFiniteSet(DOMAIN F)
    <3>1. IsFiniteSet(1 .. Len(F))
      BY <1>1, FS_Interval
    <3> QED
      BY <1>1, <3>1
  <2> HIDE DEF Part, F
  <2> QED
    BY <2>1, <2>2, FS_Surjection
<1>7. IsFiniteSet(UNION {Part[k] : k \in DOMAIN F})
  <2> HIDE DEF Part, F
  <2> QED
    BY <1>5, <1>6, FS_UNION
<1> QED
  BY <1>3, <1>4, <1>7

\* Every spec has one of its name that is the first, and a first is the only one.
LEMMA FirstsFacts ==
  ASSUME NEW file \in Files
  PROVE  /\ Firsts[file] \subseteq Places(file)
         /\ IsFiniteSet(Firsts[file])
         /\ \A p \in Places(file) : \E f \in Firsts[file] :
              SpecAt(file, f).name = SpecAt(file, p).name
         /\ \A f, g \in Firsts[file] :
              SpecAt(file, f).name = SpecAt(file, g).name => f = g
<1>1. Firsts[file] = {p \in Places(file) : \A q \in Places(file) :
        Before(q, p) => SpecAt(file, q).name # SpecAt(file, p).name}
  BY DEF Firsts
<1>2. Firsts[file] \subseteq Places(file)
  BY <1>1
<1>3. IsFiniteSet(Firsts[file])
  BY <1>2, PlacesFacts, FS_Subset
<1>4. ASSUME NEW p \in Places(file)
      PROVE  \E f \in Firsts[file] : SpecAt(file, f).name = SpecAt(file, p).name
  <2> DEFINE T == {q \in Places(file) : SpecAt(file, q).name = SpecAt(file, p).name}
             A == {q[1] : q \in T}
  <2>1. T \subseteq Nat \X Nat /\ p \in T
    BY PlacesFacts
  <2>2. PICK a \in A : \A k \in A : a <= k
    <3>1. A \in SUBSET Nat /\ A # {}
      BY <2>1
    <3> HIDE DEF A
    <3> QED
      BY <3>1, Least
  <2> DEFINE B == {q[2] : q \in {r \in T : r[1] = a}}
  <2>3. PICK b \in B : \A k \in B : b <= k
    <3>1. B \in SUBSET Nat /\ B # {}
      BY <2>1
    <3> HIDE DEF B
    <3> QED
      BY <3>1, Least
  <2>4. PICK f \in T : f[1] = a /\ f[2] = b
    OBVIOUS
  <2>5. ASSUME NEW q \in T, Before(q, f)
        PROVE  FALSE
    <3>1. q[1] \in A /\ q[1] \in Nat /\ q[2] \in Nat /\ a \in Nat /\ b \in Nat
      BY <2>1, <2>4
    <3>2. a <= q[1]
      BY <2>2, <3>1
    <3>3. CASE q[1] = a
      <4>1. q[2] \in B
        BY <3>3
      <4>2. b <= q[2]
        BY <2>3, <4>1
      <4> QED
        BY <2>5, <2>4, <3>1, <3>3, <4>2 DEF Before
    <3>4. CASE q[1] # a
      BY <2>5, <2>4, <3>1, <3>2, <3>4 DEF Before
    <3> QED
      BY <3>3, <3>4
  <2>6. f \in Firsts[file]
    BY <1>1, <2>5
  <2> QED
    BY <2>6
<1>5. \A f, g \in Firsts[file] : SpecAt(file, f).name = SpecAt(file, g).name => f = g
  BY <1>1, PlacesFacts, Order
<1> QED
  BY <1>2, <1>3, <1>4, <1>5

\* The n nodes of a file: the first of its specs in some order, each once.
Lists(all, n, file) ==
  /\ n \in Nat
  /\ all = [k \in 1 .. n |-> all[k]]
  /\ \A k \in 1 .. n : \E f \in Firsts[file] : all[k] = SpecAt(file, f)
  /\ \A f \in Firsts[file] : \E k \in 1 .. n : all[k] = SpecAt(file, f)
  /\ \A k, l \in 1 .. n : all[k].name = all[l].name => k = l

\* NodeSpecs lists the first specs, each once, so no name twice.
LEMMA NodeSpecsFacts ==
  ASSUME NEW file \in Files
  PROVE  Lists(NodeSpecs[file], Cardinality(Firsts[file]), file)
<1> DEFINE S == Firsts[file]
           N == Cardinality(S)
           below == [p \in S |-> {q \in S : Before(q, p)}]
           rank  == [p \in S |-> Cardinality(below[p]) + 1]
           all   == NodeSpecs[file]
<1>1. S \subseteq Nat \X Nat /\ IsFiniteSet(S) /\ N \in Nat
  <2>1. IsFiniteSet(S)
    BY FirstsFacts
  <2> QED
    BY <2>1, FirstsFacts, PlacesFacts, FS_CardinalityType
<1> HIDE DEF S
<1>2. ASSUME NEW p \in S
      PROVE  rank[p] \in 1 .. N
  <2>1. below[p] \in SUBSET S /\ p \notin below[p]
    BY <1>1, Order
  <2>2. IsFiniteSet(below[p]) /\ Cardinality(below[p]) <= N
        /\ (N = Cardinality(below[p]) => S = below[p])
    <3> HIDE DEF below
    <3> QED
      BY <1>1, <2>1, FS_Subset
  <2>3. Cardinality(below[p]) \in Nat /\ Cardinality(below[p]) # N
    <3>1. Cardinality(below[p]) \in Nat
      BY <2>2, FS_CardinalityType
    <3> QED
      BY <3>1, <2>1, <2>2
  <2> HIDE DEF below, N
  <2> QED
    BY <2>2, <2>3, <1>1
<1>3. ASSUME NEW p \in S, NEW q \in S, Before(p, q)
      PROVE  rank[p] # rank[q]
  <2>1. below[p] \in SUBSET below[q] /\ p \in below[q] /\ p \notin below[p]
    BY <1>1, <1>3, Order
  <2>2. IsFiniteSet(below[q]) /\ IsFiniteSet(below[p])
    <3>1. below[p] \in SUBSET S /\ below[q] \in SUBSET S
      OBVIOUS
    <3> HIDE DEF below
    <3> QED
      BY <1>1, <3>1, FS_Subset
  <2>3. Cardinality(below[p]) # Cardinality(below[q])
    <3> HIDE DEF below
    <3> QED
      BY <2>1, <2>2, FS_Subset
  <2>4. Cardinality(below[p]) \in Nat /\ Cardinality(below[q]) \in Nat
    BY <2>2, FS_CardinalityType
  <2> HIDE DEF below
  <2> QED
    BY <2>3, <2>4
<1>4. rank \in Injection(S, 1 .. N)
  <2>1. rank \in [S -> 1 .. N]
    <3> HIDE DEF below, N
    <3> QED
      BY <1>2
  <2>2. \A p, q \in S : rank[p] = rank[q] => p = q
    <3> HIDE DEF rank
    <3> QED
      BY <1>1, <1>3, Order
  <2> HIDE DEF rank
  <2> QED
    BY <2>1, <2>2 DEF Injection, IsInjective
<1>5. rank \in Surjection(S, 1 .. N)
  <2>1. IsFiniteSet(1 .. N) /\ Cardinality(1 .. N) = N
    <3>1. Cardinality(1 .. N) = IF 1 > N THEN 0 ELSE N - 1 + 1 
      BY <1>1, FS_Interval
    <3>2. IsFiniteSet(1 .. N)
      BY <1>1, FS_Interval
    <3> HIDE DEF N
    <3> QED
      BY <1>1, <3>1, <3>2
  <2> HIDE DEF rank
  <2> QED
    BY <1>4, <2>1, FS_Injection
<1>6. all = [k \in 1 .. N |-> SpecAt(file, CHOOSE p \in S : Cardinality({q \in S : Before(q, p)}) = k - 1)]
  BY DEF NodeSpecs, S
<1>7. ASSUME NEW f \in S
      PROVE  rank[f] \in 1 .. N /\ all[rank[f]] = SpecAt(file, f)
  <2> DEFINE c == CHOOSE p \in S : Cardinality({q \in S : Before(q, p)}) = rank[f] - 1
  <2>1. Cardinality(below[f]) = rank[f] - 1 /\ below[f] = {q \in S : Before(q, f)}
    <3>1. IsFiniteSet(below[f])
      <4>1. below[f] \in SUBSET S
        OBVIOUS
      <4> HIDE DEF below
      <4> QED
        BY <1>1, <4>1, FS_Subset
    <3>2. Cardinality(below[f]) \in Nat
      BY <3>1, FS_CardinalityType
    <3> QED
      BY <3>2
  <2>2. c \in S /\ Cardinality({q \in S : Before(q, c)}) = rank[f] - 1
    BY <2>1
  <2>3. rank[c] = rank[f]
    BY <2>2, <1>2
  <2>4. c = f
    BY <2>2, <2>3, <1>4 DEF Injection, IsInjective
  <2>5. all[rank[f]] = SpecAt(file, c)
    BY <1>2, <1>6
  <2> QED
    BY <2>4, <2>5, <1>2
<1>8. ASSUME NEW k \in 1 .. N
      PROVE  \E f \in S : rank[f] = k /\ all[k] = SpecAt(file, f)
  <2>1. PICK f \in S : rank[f] = k
    <3> HIDE DEF rank
    <3> QED
      BY <1>5 DEF Surjection
  <2> QED
    BY <1>7, <2>1
<1>9. \A k, l \in 1 .. N : all[k].name = all[l].name => k = l
  <2> SUFFICES ASSUME NEW k \in 1 .. N, NEW l \in 1 .. N, all[k].name = all[l].name
               PROVE  k = l
    OBVIOUS
  <2>1. PICK f \in S : rank[f] = k /\ all[k] = SpecAt(file, f)
    BY <1>8
  <2>2. PICK g \in S : rank[g] = l /\ all[l] = SpecAt(file, g)
    BY <1>8
  <2>3. f = g
    BY <2>1, <2>2, FirstsFacts DEF S
  <2> QED
    BY <2>1, <2>2, <2>3
<1>10. all = [k \in 1 .. N |-> all[k]]
  BY <1>6
<1> HIDE DEF rank, all, N
<1>11. Lists(all, N, file)
  BY <1>1, <1>7, <1>8, <1>9, <1>10 DEF Lists, S
<1> QED
  BY <1>11 DEF all, N, S
-----------------------------------------------------------------------------
ThreeReasoners == {"company-needs-analyzer", "pitch-generator", "insight-inferrer"}

\* A node that some factory has made: known, and real where it was asked to be.
Real(node) ==
  /\ node.name \in Known
  /\ node.name \in ThreeReasoners /\ Live(node.config) => node.how = "llm"
  /\ node.name = "lead-sourcer" =>
       (node.how \in {"ats+httpx", "ats+firecrawl"}
          <=> Live(node.config) /\ Canned(node.config))

\* The first k nodes of a list of specs.
Built(nodes, all, k) ==
  /\ k \in Nat
  /\ nodes = [i \in 1 .. k |-> nodes[i]]
  /\ \A i \in 1 .. k : /\ nodes[i].name = all[i].name
                       /\ nodes[i].config = all[i].config
                       /\ Real(nodes[i])

\* A bus that brings each node its events, once, and nothing else.
Brought(bus, nodes) ==
  /\ IsSeq(bus)
  /\ \A b \in DOMAIN bus : \E i \in DOMAIN nodes : \E e \in DOMAIN Reacts[nodes[i].name] :
       bus[b] = [on |-> Reacts[nodes[i].name][e], node |-> nodes[i].name]
  /\ \A i \in DOMAIN nodes : \A e \in DOMAIN Reacts[nodes[i].name] : \E b \in DOMAIN bus :
       bus[b] = [on |-> Reacts[nodes[i].name][e], node |-> nodes[i].name]
  /\ \A b, c \in DOMAIN bus : bus[b] = bus[c] => b = c

\* A runtime of a file: every node the file names, and its bus.
Complete(r) ==
  /\ r.file \in Files
  /\ Built(r.nodes, NodeSpecs[r.file], Cardinality(Firsts[r.file]))
  /\ Brought(r.bus, r.nodes)

\* A build with k of its nodes made, the specs of the others still to come.
Halfway(b, k) ==
  LET n == Cardinality(Firsts[b.file])
  IN /\ k \in 0 .. n
     /\ Built(b.nodes, NodeSpecs[b.file], k)
     /\ b.specs = [i \in 1 .. n - k |-> NodeSpecs[b.file][k + i]]
     /\ Brought(b.bus, b.nodes)

FileInv ==
  /\ env \in Envs
  /\ building.pc \in {"stores", "reset", "nodes"} => building.file \in Files
  /\ building.pc = "nodes" => \E k \in Nat : Halfway(building, k)
  /\ IsSeq(runtimes)
  /\ \A i \in DOMAIN runtimes : Complete(runtimes[i])

\* The registry's rules: a node asked for live is the model's or there is none.
LEMMA FactoryReal ==
  ASSUME NEW spec, NEW at, Factory(spec).ok
  PROVE  Real([name |-> spec.name, config |-> spec.config, how |-> Factory(spec).how,
               at |-> at])
<1> DEFINE node == [name |-> spec.name, config |-> spec.config, how |-> Factory(spec).how,
                    at |-> at]
<1>1. \A how, roles : Made(how, roles).how = how
  BY DEF Made
<1>2. ~Raises.ok
  BY DEF Raises
<1>3. node.name = spec.name /\ node.config = spec.config /\ node.how = Factory(spec).how
  OBVIOUS
<1> HIDE DEF node
<1>4. spec.name \in Known
  BY <1>2 DEF Factory, Known, Plain, Demo
<1>5. CASE spec.name \in ThreeReasoners
  <2>1. \E roles : Factory(spec) = Reasoner(spec.config, roles)
    BY <1>5 DEF ThreeReasoners, Factory, Plain, Demo, Known
  <2>2. PICK roles : Factory(spec) = Reasoner(spec.config, roles)
    BY <2>1
  <2>3. Live(spec.config) => Factory(spec).how = "llm"
    BY <2>2, <1>1, <1>2 DEF Reasoner
  <2> QED
    BY <1>3, <1>4, <1>5, <2>3 DEF Real, ThreeReasoners
<1>6. CASE spec.name = "lead-sourcer"
  <2>1. Factory(spec) = LeadSourcer(spec.config)
    BY <1>6 DEF Factory, Plain, Demo, Known
  <2>2. Factory(spec).how \in {"ats+httpx", "ats+firecrawl"}
          <=> Live(spec.config) /\ Canned(spec.config)
    BY <2>1, <1>1 DEF LeadSourcer
  <2> QED
    BY <1>3, <1>4, <1>6, <2>2 DEF Real, ThreeReasoners
<1>7. CASE spec.name \notin ThreeReasoners \cup {"lead-sourcer"}
  BY <1>3, <1>4, <1>7 DEF Real
<1> QED
  BY <1>5, <1>6, <1>7

\* The specs left shrink by the first of them.
LEMMA NextSpec ==
  ASSUME NEW all, NEW n \in Nat, NEW k \in 0 .. n, NEW specs,
         specs = [i \in 1 .. n - k |-> all[k + i]], specs # <<>>
  PROVE  /\ k + 1 \in 0 .. n
         /\ Head(specs) = all[k + 1]
         /\ Tail(specs) = [i \in 1 .. n - (k + 1) |-> all[(k + 1) + i]]
<1>1. n - k \in Nat
  OBVIOUS
<1> DEFINE S == {all[k + i] : i \in 1 .. n - k}
<1>2. specs \in [1 .. n - k -> S]
  OBVIOUS
<1>3. specs \in Seq(S)
  BY <1>1, <1>2, SeqDef
<1>4. Len(specs) = n - k
  BY <1>1, <1>2, <1>3, LenProperties
<1>5. n - k # 0
  BY <1>3, <1>4, EmptySeq
<1>6. Head(specs) = specs[1]
  BY <1>3, HeadTailProperties
<1>7. /\ Tail(specs) \in Seq(S)
      /\ Len(Tail(specs)) = Len(specs) - 1
      /\ \A i \in 1 .. Len(Tail(specs)) : Tail(specs)[i] = specs[i + 1]
  BY <1>3, HeadTailProperties
<1>8. Tail(specs) \in [1 .. n - (k + 1) -> S]
  <2>1. (n - k) - 1 = n - (k + 1)
    OBVIOUS
  <2>2. Len(Tail(specs)) = n - (k + 1)
    BY <1>4, <1>7, <2>1
  <2> HIDE DEF S
  <2>3. Tail(specs) \in [1 .. Len(Tail(specs)) -> S]
    BY <1>7, LenProperties
  <2> QED
    BY <2>2, <2>3
<1> HIDE DEF S
<1>9. \A i \in 1 .. n - (k + 1) : Tail(specs)[i] = all[(k + 1) + i]
  BY <1>4, <1>5, <1>7, <1>1
<1>10. Tail(specs) = [i \in 1 .. n - (k + 1) |-> all[(k + 1) + i]]
  BY <1>8, <1>9
<1>11. specs[1] = all[k + 1]
  BY <1>1, <1>5
<1> QED
  BY <1>1, <1>5, <1>6, <1>10, <1>11

\* A node more, and the bus brings it its events as well.
LEMMA OneMore ==
  ASSUME NEW nodes, NEW all, NEW n, NEW file \in Files, Lists(all, n, file),
         NEW k \in 0 .. n, k + 1 \in 0 .. n, Built(nodes, all, k), NEW bus, Brought(bus, nodes),
         NEW new, new.name = all[k + 1].name, new.config = all[k + 1].config, Real(new),
         NEW heard, heard = [e \in DOMAIN Reacts[new.name] |->
                              [on |-> Reacts[new.name][e], node |-> new.name]]
  PROVE  Built(Append(nodes, new), all, k + 1) /\ Brought(bus \o heard, Append(nodes, new))
<1> USE ReactsAssumption
<1> DEFINE more == Append(nodes, new)
           m    == Len(Reacts[new.name])
           l    == Len(bus)
<1>1. n \in Nat /\ k \in Nat
  BY DEF Lists
<1>2. nodes \in [1 .. k -> Range(nodes)] /\ DOMAIN nodes = 1 .. k
  BY DEF Built, Range
<1>3. IsSeq(nodes)
  BY <1>1, <1>2, SeqDef DEF IsSeq
<1>4. Len(nodes) = k
  BY <1>1, <1>2, <1>3, LenProperties DEF IsSeq
<1>5. /\ DOMAIN more = 1 .. k + 1
      /\ \A i \in 1 .. k : more[i] = nodes[i]
      /\ more[k + 1] = new
      /\ more \in Seq(Range(more))
  BY <1>2, <1>3, <1>4, Appending DEF IsSeq
<1>6. more = [i \in 1 .. k + 1 |-> more[i]]
  <2>1. more \in [1 .. Len(more) -> Range(more)]
    BY <1>5, LenProperties
  <2> HIDE DEF more
  <2> QED
    BY <1>5, <2>1
<1> HIDE DEF more
<1>7. Built(more, all, k + 1)
  <2>1. \A i \in 1 .. k + 1 : i \in 1 .. k \/ i = k + 1
    BY <1>1
  <2>2. \A i \in 1 .. k + 1 : /\ more[i].name = all[i].name
                              /\ more[i].config = all[i].config
                              /\ Real(more[i])
    BY <1>5, <2>1 DEF Built
  <2> QED
    BY <1>1, <1>6, <2>2 DEF Built
<1>8. new.name \in Known
  BY DEF Real
<1>9. /\ m \in Nat /\ DOMAIN Reacts[new.name] = 1 .. m
      /\ \A e, f \in 1 .. m : Reacts[new.name][e] = Reacts[new.name][f] => e = f
  BY <1>8 DEF Listed
<1>10. heard \in [1 .. m -> Range(heard)] /\ DOMAIN heard = 1 .. m
  BY <1>9 DEF Range
<1>11. heard \in Seq(Range(heard)) /\ bus \in Seq(Range(bus))
  BY <1>9, <1>10, SeqDef DEF Brought, IsSeq
<1> HIDE DEF m, l
<1>12. Len(heard) = m /\ l \in Nat /\ DOMAIN bus = 1 .. l
  BY <1>9, <1>10, <1>11, LenProperties DEF l
<1> DEFINE both == bus \o heard
<1>13. /\ both \in Seq(Range(bus) \cup Range(heard))
       /\ Len(both) = l + m
       /\ \A i \in 1 .. l + m : both[i] = IF i <= l THEN bus[i] ELSE heard[i - l]
  <2>1. heard \in Seq(Range(bus) \cup Range(heard)) /\ bus \in Seq(Range(bus) \cup Range(heard))
    BY <1>11, SeqMonotonic
  <2> QED
    BY <2>1, <1>12, ConcatProperties DEF l
<1> HIDE DEF both
<1>14. DOMAIN both = 1 .. l + m
  BY <1>13, LenProperties
<1>15. IsSeq(both)
  <2>1. both \in [1 .. l + m -> Range(both)] /\ l + m \in Nat
    <3>1. both \in [1 .. l + m -> Range(bus) \cup Range(heard)]
      BY <1>13, LenProperties
    <3> QED
      BY <3>1, <1>9, <1>12 DEF Range
  <2> QED
    BY <2>1, SeqDef DEF IsSeq
<1>16. \A b \in 1 .. l : b \in DOMAIN both /\ both[b] = bus[b]
  <2> TAKE b \in 1 .. l
  <2>1. b \in 1 .. l + m /\ b <= l
    BY <1>9, <1>12
  <2> QED
    BY <1>13, <1>14, <2>1
<1>17. \A e \in 1 .. m : /\ l + e \in DOMAIN both
                         /\ both[l + e] = [on |-> Reacts[new.name][e], node |-> new.name]
  <2> TAKE e \in 1 .. m
  <2>1. l + e \in 1 .. l + m /\ ~(l + e <= l) /\ (l + e) - l = e
    BY <1>9, <1>12
  <2>2. both[l + e] = heard[e]
    BY <2>1, <1>13
  <2> QED
    BY <1>9, <1>14, <2>1, <2>2
<1>18. \A b \in DOMAIN both : b \in 1 .. l \/ \E e \in 1 .. m : b = l + e
  <2> TAKE b \in DOMAIN both
  <2>1. b \in 1 .. l \/ (b - l \in 1 .. m /\ b = l + (b - l))
    BY <1>9, <1>12, <1>14
  <2> QED
    BY <2>1
<1>19. \A i \in DOMAIN nodes : nodes[i].name # new.name
  <2>1. \A i \in 1 .. k : i \in 1 .. n /\ k + 1 \in 1 .. n /\ i # k + 1
    BY <1>1
  <2> QED
    BY <1>2, <2>1 DEF Lists, Built
<1>20. \A b \in 1 .. l : both[b].node # new.name
  <2> TAKE b \in 1 .. l
  <2>1. PICK i \in DOMAIN nodes : \E e \in DOMAIN Reacts[nodes[i].name] :
          bus[b] = [on |-> Reacts[nodes[i].name][e], node |-> nodes[i].name]
    BY <1>12 DEF Brought
  <2> QED
    BY <1>16, <1>19, <2>1
<1>21. ASSUME NEW b \in DOMAIN both
       PROVE  \E i \in DOMAIN more : \E e \in DOMAIN Reacts[more[i].name] :
                both[b] = [on |-> Reacts[more[i].name][e], node |-> more[i].name]
  <2>1. CASE b \in 1 .. l
    <3>1. PICK i \in DOMAIN nodes : \E e \in DOMAIN Reacts[nodes[i].name] :
            bus[b] = [on |-> Reacts[nodes[i].name][e], node |-> nodes[i].name]
      BY <2>1, <1>12 DEF Brought
    <3>2. i \in DOMAIN more /\ more[i] = nodes[i]
      BY <1>1, <1>2, <1>5
    <3> QED
      BY <2>1, <1>16, <3>1, <3>2
  <2>2. CASE \E e \in 1 .. m : b = l + e
    <3>1. k + 1 \in DOMAIN more
      BY <1>1, <1>5
    <3>2. PICK e \in 1 .. m : b = l + e
      BY <2>2
    <3>3. both[b] = [on |-> Reacts[new.name][e], node |-> new.name]
      BY <1>17, <3>2
    <3>4. more[k + 1] = new /\ e \in DOMAIN Reacts[more[k + 1].name]
      BY <1>5, <1>9, <3>2
    <3> QED
      BY <3>1, <3>3, <3>4
  <2> QED
    BY <1>18, <2>1, <2>2
<1>22. ASSUME NEW i \in DOMAIN more, NEW e \in DOMAIN Reacts[more[i].name]
       PROVE  \E b \in DOMAIN both :
                both[b] = [on |-> Reacts[more[i].name][e], node |-> more[i].name]
  <2>1. CASE i \in 1 .. k
    <3>1. i \in DOMAIN nodes /\ more[i] = nodes[i]
      BY <2>1, <1>2, <1>5
    <3>2. PICK b \in DOMAIN bus :
            bus[b] = [on |-> Reacts[nodes[i].name][e], node |-> nodes[i].name]
      BY <3>1 DEF Brought
    <3> QED
      BY <1>12, <1>16, <3>1, <3>2
  <2>2. CASE i = k + 1
    BY <2>2, <1>5, <1>9, <1>17
  <2> QED
    BY <1>1, <1>5, <2>1, <2>2
<1>23. ASSUME NEW b \in DOMAIN both, NEW c \in DOMAIN both, both[b] = both[c]
       PROVE  b = c
  <2>1. CASE b \in 1 .. l /\ c \in 1 .. l
    BY <1>12, <1>16, <1>23, <2>1 DEF Brought
  <2>2. CASE b \notin 1 .. l /\ c \notin 1 .. l
    <3>1. PICK e \in 1 .. m : b = l + e
      BY <1>18, <2>2
    <3>2. PICK f \in 1 .. m : c = l + f
      BY <1>18, <2>2
    <3>3. Reacts[new.name][e] = Reacts[new.name][f]
      <4>1. both[b] = [on |-> Reacts[new.name][e], node |-> new.name]
        BY <1>17, <3>1
      <4>2. both[c] = [on |-> Reacts[new.name][f], node |-> new.name]
        BY <1>17, <3>2
      <4>3. both[b].on = both[c].on
        BY <1>23
      <4> QED
        BY <4>1, <4>2, <4>3
    <3> QED
      BY <1>9, <3>1, <3>2, <3>3
  <2> DEFINE late(x) == x \notin 1 .. l
  <2>0. \A x \in DOMAIN both : late(x) => both[x].node = new.name
    <3> TAKE x \in DOMAIN both
    <3> HAVE late(x)
    <3>1. PICK e \in 1 .. m : x = l + e
      BY <1>18
    <3>2. both[x] = [on |-> Reacts[new.name][e], node |-> new.name]
      BY <1>17, <3>1
    <3> QED
      BY <3>2
  <2>3. CASE b \in 1 .. l /\ c \notin 1 .. l
    BY <1>20, <1>23, <2>0, <2>3
  <2>4. CASE b \notin 1 .. l /\ c \in 1 .. l
    BY <1>20, <1>23, <2>0, <2>4
  <2> QED
    BY <2>1, <2>2, <2>3, <2>4
<1>24. Brought(both, more)
  BY <1>15, <1>21, <1>22, <1>23 DEF Brought
<1> QED
  BY <1>7, <1>24 DEF both, more

\* Nothing is built before the first build.
LEMMA InitFile == Init => FileInv
<1> SUFFICES ASSUME Init
             PROVE  FileInv
  OBVIOUS
<1>1. <<>> \in Seq(Range(<<>>)) /\ DOMAIN <<>> = {}
  OBVIOUS
<1> QED
  BY <1>1 DEF Init, FileInv, NoBuild, IsSeq

\* A build works through the specs of its file.
LEMMA ResetFile ==
  ASSUME FileInv, ResetStores
  PROVE  FileInv'
<1> DEFINE file == building.file
           n    == Cardinality(Firsts[file])
<1>1. file \in Files /\ building' = Wiring(NodeSpecs[file], <<>>, <<>>)
      /\ UNCHANGED <<env, runtimes>>
  BY DEF FileInv, ResetStores
<1>2. Lists(NodeSpecs[file], n, file)
  BY <1>1, NodeSpecsFacts
<1>3. /\ building'.pc = "nodes" /\ building'.file = file
      /\ building'.specs = NodeSpecs[file] /\ building'.nodes = <<>>
      /\ building'.bus = <<>>
  BY <1>1 DEF Wiring
<1>4. Built(<<>>, NodeSpecs[file], 0)
  BY DEF Built
<1>5. Brought(<<>>, <<>>)
  <2>1. <<>> \in Seq(Range(<<>>)) /\ DOMAIN <<>> = {}
    OBVIOUS
  <2> QED
    BY <2>1 DEF Brought, IsSeq
<1>6. n \in Nat /\ NodeSpecs[file] = [i \in 1 .. n |-> NodeSpecs[file][i]]
  BY <1>2 DEF Lists
<1> HIDE DEF n
<1>7. 0 \in 0 .. n /\ n - 0 = n /\ \A i \in 1 .. n : 0 + i = i
  BY <1>6
<1>8. NodeSpecs[file] = [i \in 1 .. n - 0 |-> NodeSpecs[file][0 + i]]
  BY <1>6, <1>7
<1>9. Halfway(building', 0)
  BY <1>3, <1>4, <1>5, <1>7, <1>8 DEF Halfway, n
<1> QED
  BY <1>1, <1>3, <1>9 DEF FileInv, IsSeq

\* A node more of the file.
LEMMA RegisterFile ==
  ASSUME FileInv, Register
  PROVE  FileInv'
<1> DEFINE file == building.file
           n    == Cardinality(Firsts[file])
           all  == NodeSpecs[file]
           spec == Head(building.specs)
           new  == [name |-> spec.name, config |-> spec.config, how |-> Factory(spec).how,
                    at |-> [r \in Factory(spec).roles |-> global[r]]]
           heard == [e \in DOMAIN Reacts[spec.name] |->
                      [on |-> Reacts[spec.name][e], node |-> spec.name]]
<1>1. /\ building.pc = "nodes" /\ building.specs # <<>> /\ file \in Files
      /\ Factory(spec).ok /\ UNCHANGED <<env, runtimes>>
      /\ building' = Wiring(Tail(building.specs), Append(building.nodes, new),
                            building.bus \o heard)
  BY DEF FileInv, Register
<1>2. PICK k \in Nat : Halfway(building, k)
  BY <1>1 DEF FileInv
<1>3. /\ k \in 0 .. n
      /\ Built(building.nodes, all, k)
      /\ building.specs = [i \in 1 .. n - k |-> all[k + i]]
      /\ Brought(building.bus, building.nodes)
  BY <1>2 DEF Halfway
<1>4. Lists(all, n, file)
  BY <1>1, NodeSpecsFacts
<1>5. Real(new) /\ new.name = spec.name /\ new.config = spec.config
  BY <1>1, FactoryReal
<1>6. /\ building'.pc = "nodes" /\ building'.file = file
      /\ building'.specs = Tail(building.specs)
      /\ building'.nodes = Append(building.nodes, new)
      /\ building'.bus = building.bus \o heard
  BY <1>1 DEF Wiring
<1>7. heard = [e \in DOMAIN Reacts[new.name] |->
                [on |-> Reacts[new.name][e], node |-> new.name]]
  BY <1>5
<1> HIDE DEF n, all, new, heard
<1>8. n \in Nat
  BY <1>4 DEF Lists
<1>9. /\ k + 1 \in 0 .. n
      /\ spec = all[k + 1]
      /\ Tail(building.specs) = [i \in 1 .. n - (k + 1) |-> all[(k + 1) + i]]
  <2>1. PICK specs : specs = building.specs
    OBVIOUS
  <2>2. specs = [i \in 1 .. n - k |-> all[k + i]] /\ specs # <<>>
    BY <1>1, <1>3, <2>1
  <2>3. k \in 0 .. n
    BY <1>3
  <2>4. /\ k + 1 \in 0 .. n
        /\ Head(specs) = all[k + 1]
        /\ Tail(specs) = [i \in 1 .. n - (k + 1) |-> all[(k + 1) + i]]
    BY <1>8, <2>2, <2>3, NextSpec
  <2> QED
    BY <2>1, <2>4
<1>10. new.name = all[k + 1].name /\ new.config = all[k + 1].config
  BY <1>5, <1>9
<1> HIDE DEF spec
<1>11. /\ Built(Append(building.nodes, new), all, k + 1)
       /\ Brought(building.bus \o heard, Append(building.nodes, new))
  BY <1>1, <1>3, <1>4, <1>5, <1>7, <1>9, <1>10, OneMore
<1>12. Halfway(building', k + 1)
  BY <1>6, <1>9, <1>11 DEF Halfway, n, all
<1>13. k + 1 \in Nat
  OBVIOUS
<1> QED
  BY <1>1, <1>6, <1>12, <1>13 DEF FileInv, IsSeq

\* The last spec is built: the runtime is complete.
LEMMA FinishFile ==
  ASSUME FileInv, Finish
  PROVE  FileInv'
<1> DEFINE file == building.file
           n    == Cardinality(Firsts[file])
           new  == [file |-> file, nodes |-> building.nodes, bus |-> building.bus]
<1>1. /\ building.pc = "nodes" /\ building.specs = <<>> /\ file \in Files
      /\ building' = NoBuild /\ UNCHANGED env /\ runtimes' = Append(runtimes, new)
  BY DEF FileInv, Finish
<1>2. PICK k \in Nat : Halfway(building, k)
  BY <1>1 DEF FileInv
<1>3. /\ k \in 0 .. n
      /\ Built(building.nodes, NodeSpecs[file], k)
      /\ building.specs = [i \in 1 .. n - k |-> NodeSpecs[file][k + i]]
      /\ Brought(building.bus, building.nodes)
  BY <1>2 DEF Halfway
<1>4. n \in Nat
  BY <1>1, NodeSpecsFacts DEF Lists
<1> HIDE DEF n
<1>5. k = n
  <2>1. DOMAIN building.specs = 1 .. n - k /\ DOMAIN <<>> = {}
    BY <1>3
  <2>2. 1 \notin 1 .. n - k
    BY <1>1, <2>1
  <2> QED
    BY <1>3, <1>4, <2>2
<1>6. Complete(new)
  BY <1>1, <1>3, <1>5 DEF Complete, n
<1> HIDE DEF new
<1>7. /\ IsSeq(runtimes')
      /\ DOMAIN runtimes = 1 .. Len(runtimes) /\ Len(runtimes) \in Nat
      /\ DOMAIN runtimes' = 1 .. Len(runtimes) + 1
      /\ \A i \in DOMAIN runtimes : runtimes'[i] = runtimes[i]
      /\ runtimes'[Len(runtimes) + 1] = new
  BY <1>1, Appending DEF FileInv
<1>8. \A i \in DOMAIN runtimes' : Complete(runtimes'[i])
  <2>1. \A i \in DOMAIN runtimes' : i \in DOMAIN runtimes \/ i = Len(runtimes) + 1
    BY <1>7
  <2> QED
    BY <1>6, <1>7, <2>1 DEF FileInv
<1>9. building'.pc = "none"
  BY <1>1 DEF NoBuild
<1> QED
  BY <1>1, <1>7, <1>8, <1>9 DEF FileInv, IsSeq

\* Every step keeps the nodes and the bus of each runtime those of its file.
THEOREM FileStep == FileInv /\ [Next]_vars => FileInv'
<1> SUFFICES ASSUME FileInv, [Next]_vars
             PROVE  FileInv'
  OBVIOUS
<1> USE EnvsAssumption
<1>1. CASE SetEnv
  BY <1>1 DEF SetEnv, FileInv, NoBuild, IsSeq
<1>2. ASSUME NEW file \in Files, NEW who, Begin(file, who)
      PROVE  FileInv'
  BY <1>2 DEF Begin, FileInv, IsSeq
<1>3. CASE ImportApp
  BY <1>2, <1>3 DEF ImportApp, FileInv
<1>4. CASE BuildAnother
  BY <1>2, <1>4 DEF BuildAnother
<1>5. CASE ResolveStores
  <2>1. PICK over : building' = Resolved(over)
    <3>1. CASE "DB_URL" \in env.set
      BY <1>5, <3>1 DEF ResolveStores
    <3>2. CASE "DB_URL" \notin env.set
      BY <1>5, <3>2 DEF ResolveStores
    <3> QED
      BY <3>1, <3>2
  <2>2. building'.pc = "reset" /\ building'.file = building.file
    BY <2>1 DEF Resolved
  <2>3. UNCHANGED <<env, runtimes>> /\ building.pc = "stores"
    BY <1>5 DEF ResolveStores
  <2> QED
    BY <2>2, <2>3 DEF FileInv, IsSeq
<1>6. CASE ResetStores
  BY <1>6, ResetFile
<1>7. CASE Register
  BY <1>7, RegisterFile
<1>8. CASE Refuse
  BY <1>8 DEF Refuse, FileInv, NoBuild, IsSeq
<1>9. CASE Finish
  BY <1>9, FinishFile
<1>10. CASE UNCHANGED vars
  BY <1>10 DEF vars, FileInv, IsSeq, Halfway
<1> QED
  BY <1>1, <1>3, <1>4, <1>5, <1>6, <1>7, <1>8, <1>9, <1>10 DEF Next

\* Whatever the files, the environments and the builds that fail: a reasoner asked
\* for live is the model's.
THEOREM SafeLiveIsReal == Spec => []LiveIsReal
<1>1. FileInv => LiveIsReal
  <2> SUFFICES ASSUME FileInv, NEW i \in DOMAIN runtimes, NEW k \in DOMAIN runtimes[i].nodes,
                      Live(runtimes[i].nodes[k].config),
                      runtimes[i].nodes[k].name \in ThreeReasoners
               PROVE  runtimes[i].nodes[k].how = "llm"
    BY DEF LiveIsReal, ThreeReasoners
  <2>1. Built(runtimes[i].nodes, NodeSpecs[runtimes[i].file],
              Cardinality(Firsts[runtimes[i].file]))
    BY DEF FileInv, Complete
  <2>2. k \in 1 .. Cardinality(Firsts[runtimes[i].file]) /\ Real(runtimes[i].nodes[k])
    BY <2>1 DEF Built
  <2> QED
    BY <2>2 DEF Real
<1> QED
  BY <1>1, InitFile, FileStep, PTL DEF Spec

\* Whatever the files, the environments and the builds that fail: no runtime looks at
\* real job boards under a badge that says fake.
THEOREM SafeBadgeTells == Spec => []BadgeTells
<1>1. FileInv => BadgeTells
  <2> SUFFICES ASSUME FileInv, NEW i \in DOMAIN runtimes, Discovers(runtimes[i])
               PROVE  Mode(runtimes[i].file) = "live"
    BY DEF BadgeTells
  <2> DEFINE r   == runtimes[i]
             all == NodeSpecs[r.file]
             n   == Cardinality(Firsts[r.file])
  <2>1. Built(r.nodes, all, n) /\ Lists(all, n, r.file)
    BY NodeSpecsFacts DEF FileInv, Complete
  <2>2. DOMAIN all = 1 .. n
    BY <2>1 DEF Lists
  <2>3. /\ DOMAIN r.nodes = 1 .. n
        /\ \A k \in 1 .. n : /\ r.nodes[k].name = all[k].name
                             /\ r.nodes[k].config = all[k].config
                             /\ Real(r.nodes[k])
    BY <2>1 DEF Built
  <2>4. PICK k \in 1 .. n : /\ r.nodes[k].name = "lead-sourcer"
                           /\ r.nodes[k].how \in {"ats+httpx", "ats+firecrawl"}
    BY <2>3 DEF Discovers
  <2>5. all[k].name = "lead-sourcer" /\ Live(all[k].config)
    BY <2>3, <2>4 DEF Real
  <2> QED
    BY <2>2, <2>5 DEF Mode
<1> QED
  BY <1>1, InitFile, FileStep, PTL DEF Spec

\* What the venture page says of a runtime is so, whatever the files and the
\* configs they repeat: no node is missing, the conflicts reported are those
\* there are, and a function's events are those the bus brings, once.
THEOREM SafeViewTrue == Spec => []ViewTrue
<1>1. FileInv => ViewTrue
  <2> SUFFICES ASSUME FileInv, NEW i \in DOMAIN runtimes
               PROVE  LET r    == runtimes[i]
                          lint == Lint(r.file, Describe(r))
                          view == FunctionView(r.file, Describe(r))
                          Asked(k)  == Range(FunctionsOf[r.file][k])
                          Brings(k) == {b \in DOMAIN r.bus :
                                          \E s \in Asked(k) : s.name = r.bus[b].node}
                      IN /\ lint.unknown = {} /\ lint.inactive = {}
                         /\ lint.conflicts = {r.nodes[n].name : n \in {m \in DOMAIN r.nodes :
                              \E k \in DOMAIN view : \E s \in Asked(k) :
                                s.name = r.nodes[m].name /\ s.config # r.nodes[m].config}}
                         /\ \A k \in DOMAIN view : view[k].in = {r.bus[b].on : b \in Brings(k)}
                         /\ \A b, c \in DOMAIN r.bus : r.bus[b] = r.bus[c] => b = c
    BY DEF ViewTrue
  <2>1. PICK r : r = runtimes[i]
    OBVIOUS
  <2>2. PICK file : file = r.file
    OBVIOUS
  <2> DEFINE all  == NodeSpecs[file]
             n    == Cardinality(Firsts[file])
             F    == FunctionsOf[file]
             lint == Lint(file, Describe(r))
             view == FunctionView(file, Describe(r))
             named == {SpecAt(file, p).name : p \in Places(file)}
             there == {r.nodes[k].name : k \in DOMAIN r.nodes}
  <2>3. /\ file \in Files /\ Built(r.nodes, all, n) /\ Brought(r.bus, r.nodes)
        /\ Lists(all, n, file)
    BY <2>1, <2>2, NodeSpecsFacts DEF FileInv, Complete
  <2>4. /\ DOMAIN r.nodes = 1 .. n
        /\ \A k \in 1 .. n : /\ r.nodes[k].name = all[k].name
                             /\ r.nodes[k].config = all[k].config
                             /\ Real(r.nodes[k])
    BY <2>3 DEF Built
  <2>5. \A f \in Firsts[file] : \E k \in DOMAIN r.nodes :
          /\ r.nodes[k].name = SpecAt(file, f).name
          /\ r.nodes[k].config = SpecAt(file, f).config
    BY <2>3, <2>4 DEF Lists
  <2>6. \A k \in DOMAIN r.nodes : \E f \in Firsts[file] :
          /\ r.nodes[k].name = SpecAt(file, f).name
          /\ r.nodes[k].config = SpecAt(file, f).config
    BY <2>3, <2>4 DEF Lists
  <2> HIDE DEF all, n
  <2>7. \A k, j : k \in DOMAIN F /\ j \in DOMAIN F[k] =>
          <<k, j>> \in Places(file) /\ SpecAt(file, <<k, j>>) = F[k][j]
    BY DEF Places, SpecAt
  <2>8. \A p \in Places(file) : \E k \in DOMAIN F : \E j \in DOMAIN F[k] :
          p = <<k, j>> /\ SpecAt(file, p) = F[k][j]
    BY DEF Places, SpecAt
  <2> HIDE DEF F
  <2>9. DOMAIN Describe(r) = there
    BY DEF Describe
  <2>10. \A m \in there : Describe(r)[m].reacts = Range(Reacts[m])
    BY DEF Describe
  <2>11. lint.unknown = {} /\ lint.inactive = {}
    <3>1. \A p \in Places(file) : SpecAt(file, p).name \in there /\ SpecAt(file, p).name \in Known
      BY <2>3, <2>4, <2>5, FirstsFacts DEF Real
    <3>2. lint.unknown = named \ Known /\ lint.inactive = (named \cap Known) \ DOMAIN Describe(r)
      BY DEF Lint
    <3> QED
      BY <2>9, <3>1, <3>2
  <2> DEFINE Asked(k)  == Range(F[k])
             Brings(k) == {b \in DOMAIN r.bus : \E s \in Asked(k) : s.name = r.bus[b].node}
             Torn == {r.nodes[m].name : m \in {m \in DOMAIN r.nodes :
                       \E k \in DOMAIN view : \E s \in Asked(k) :
                         s.name = r.nodes[m].name /\ s.config # r.nodes[m].config}}
  <2>12. DOMAIN view = DOMAIN F
    BY DEF FunctionView, F
  <2>13. lint.conflicts = Torn
    <3>1. lint.conflicts = {SpecAt(file, p).name : p \in
            {q \in Places(file) : \E f \in Firsts[file] :
               /\ SpecAt(file, f).name = SpecAt(file, q).name
               /\ SpecAt(file, f).config # SpecAt(file, q).config}}
      BY <2>3 DEF Lint, Conflicts
    <3> HIDE DEF lint, view
    <3>2. ASSUME NEW x \in lint.conflicts
          PROVE  x \in Torn
      <4>1. PICK q \in Places(file), f \in Firsts[file] :
              /\ x = SpecAt(file, q).name
              /\ SpecAt(file, f).name = SpecAt(file, q).name
              /\ SpecAt(file, f).config # SpecAt(file, q).config
        BY <3>1
      <4>2. PICK m \in DOMAIN r.nodes : /\ r.nodes[m].name = SpecAt(file, f).name
                                        /\ r.nodes[m].config = SpecAt(file, f).config
        BY <2>5
      <4>3. PICK k \in DOMAIN F : \E j \in DOMAIN F[k] : SpecAt(file, q) = F[k][j]
        BY <2>8
      <4>4. PICK j \in DOMAIN F[k] : SpecAt(file, q) = F[k][j]
        BY <4>3
      <4>5. F[k][j] \in Asked(k)
        BY DEF Range
      <4>6. /\ m \in DOMAIN r.nodes /\ k \in DOMAIN view /\ F[k][j] \in Asked(k)
            /\ F[k][j].name = r.nodes[m].name /\ F[k][j].config # r.nodes[m].config
            /\ x = r.nodes[m].name
        BY <2>12, <4>1, <4>2, <4>4, <4>5
      <4> HIDE DEF Asked
      <4> QED
        BY <4>6
    <3>3. ASSUME NEW x \in Torn
          PROVE  x \in lint.conflicts
      <4>1. PICK m \in DOMAIN r.nodes, k \in DOMAIN view :
              /\ x = r.nodes[m].name
              /\ \E s \in Asked(k) :
                   s.name = r.nodes[m].name /\ s.config # r.nodes[m].config
        OBVIOUS
      <4>2. PICK s \in Asked(k) :
              /\ x = r.nodes[m].name
              /\ s.name = r.nodes[m].name /\ s.config # r.nodes[m].config
        BY <4>1
      <4>3. PICK j \in DOMAIN F[k] : s = F[k][j]
        BY <4>2 DEF Range
      <4>4. <<k, j>> \in Places(file) /\ SpecAt(file, <<k, j>>) = s
        BY <2>7, <2>12, <4>2, <4>3
      <4>5. PICK f \in Firsts[file] : /\ r.nodes[m].name = SpecAt(file, f).name
                                      /\ r.nodes[m].config = SpecAt(file, f).config
        BY <2>6, <4>2
      <4> QED
        BY <3>1, <4>2, <4>4, <4>5
    <3> QED
      BY <3>2, <3>3
  <2>14. ASSUME NEW k \in DOMAIN view
         PROVE  view[k].in = {r.bus[b].on : b \in Brings(k)}
    <3> DEFINE members == {F[k][j].name : j \in DOMAIN F[k]}
    <3>1. view[k].in = UNION {Describe(r)[m].reacts : m \in members \cap DOMAIN Describe(r)}
      BY <2>12 DEF FunctionView, F
    <3> HIDE DEF view
    <3>2. \A m : m \in members <=> \E s \in Asked(k) : s.name = m
      BY DEF Range
    <3>3. view[k].in = UNION {Range(Reacts[m]) : m \in members \cap there}
      BY <2>9, <2>10, <3>1
    <3> HIDE DEF members, Asked
    <3>4. ASSUME NEW e \in view[k].in
          PROVE  e \in {r.bus[b].on : b \in Brings(k)}
      <4>1. PICK m \in members \cap there : e \in Range(Reacts[m])
        BY <3>3
      <4>2. PICK x \in DOMAIN Reacts[m] : e = Reacts[m][x]
        BY <4>1 DEF Range
      <4>3. PICK l \in DOMAIN r.nodes : m = r.nodes[l].name
        BY <4>1
      <4>4. PICK b \in DOMAIN r.bus :
              r.bus[b] = [on |-> Reacts[r.nodes[l].name][x], node |-> r.nodes[l].name]
        BY <2>3, <4>2, <4>3 DEF Brought
      <4>5. r.bus[b].on = e /\ r.bus[b].node = m
        BY <4>2, <4>3, <4>4
      <4>6. b \in Brings(k)
        BY <3>2, <4>1, <4>5
      <4> QED
        BY <4>5, <4>6
    <3>5. ASSUME NEW b \in Brings(k)
          PROVE  r.bus[b].on \in view[k].in
      <4>1. PICK l \in DOMAIN r.nodes : \E x \in DOMAIN Reacts[r.nodes[l].name] :
              r.bus[b] = [on |-> Reacts[r.nodes[l].name][x], node |-> r.nodes[l].name]
        BY <2>3 DEF Brought
      <4>2. PICK x \in DOMAIN Reacts[r.nodes[l].name] :
              r.bus[b] = [on |-> Reacts[r.nodes[l].name][x], node |-> r.nodes[l].name]
        BY <4>1
      <4>3. r.bus[b].node \in members \cap there
        BY <3>2, <4>2
      <4>4. r.bus[b].on \in Range(Reacts[r.bus[b].node])
        BY <4>2 DEF Range
      <4> QED
        BY <3>3, <4>3, <4>4
    <3> QED
      BY <3>4, <3>5
  <2>15. \A b, c \in DOMAIN r.bus : r.bus[b] = r.bus[c] => b = c
    BY <2>3 DEF Brought
  <2> HIDE DEF lint, view
  <2>16. /\ lint.unknown = {} /\ lint.inactive = {}
         /\ lint.conflicts = Torn
         /\ \A k \in DOMAIN view : view[k].in = {r.bus[b].on : b \in Brings(k)}
         /\ \A b, c \in DOMAIN r.bus : r.bus[b] = r.bus[c] => b = c
    BY <2>11, <2>13, <2>14, <2>15
  <2> QED
    BY <2>1, <2>2, <2>16 DEF lint, view, F
<1> QED
  BY <1>1, InitFile, FileStep, PTL DEF Spec
=============================================================================

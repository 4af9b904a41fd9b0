------------------------ MODULE DataTemplate_proofs ------------------------
(***************************************************************************)
(* What the data template of an operation works with: the parameter        *)
(* package of the application, for packages of every size up to MaxBit,    *)
(* both strategies and any values; and the code blocks of its              *)
(* configuration, for any number of blocks, parameters and calls.          *)
(***************************************************************************)
EXTENDS ParameterPackage, Collection, FiniteSetTheorems, TLAPS

(***************************************************************************)
(* The parameter package.  The two properties are not inductive: that a    *)
(* parameter fetched is one that was put rests on put_tracer counting the  *)
(* puts, and on a package with positions accepting nothing, so that it is  *)
(* never full either.                                                      *)
(***************************************************************************)
PackagesOf(size) ==
  [ num : {size}, strategy : Strategies, put : 0 .. size, fetch : 0 .. size,
    paras : [0 .. size - 1 -> Params \cup {Garbage}] ]

PackageInv ==
  /\ \E size \in Sizes : pkg \in PackagesOf(size)
  /\ accepted \in Seq(Params)
  /\ fetched \in Seq(Params)
  /\ Len(accepted) = pkg.put
  /\ pkg.strategy = PutWithPos => pkg.put = 0
  /\ HoldsAccepted
  /\ FetchesPresentRound

-----------------------------------------------------------------------------
(* A tracer of 0 has no bit set.                                           *)
LEMMA ZeroHasNoBit == Bits(0) = {}
<1>1. ASSUME NEW k \in 0 .. MaxBit
      PROVE  PowerOf2[k + 1] \in {1, 2, 4, 8, 16, 32, 64, 128}
  BY <1>1 DEF MaxBit, PowerOf2
<1>2. ASSUME NEW w \in {1, 2, 4, 8, 16, 32, 64, 128}
      PROVE  (0 \div w) % 2 # 1
  BY <1>2
<1> QED BY <1>1, <1>2 DEF Bits

(* Every capacity has a bit set.                                           *)
LEMMA SizeHasBit ==
  ASSUME NEW size \in 1 .. MaxBit
  PROVE  Bits(size) # {}
<1>1. CASE size \in {1, 3, 5, 7}
  <2>1. 0 \in Bits(size) BY <1>1 DEF Bits, MaxBit, PowerOf2
  <2> QED BY <2>1
<1>2. CASE size \in {2, 6}
  <2>1. 1 \in Bits(size) BY <1>2 DEF Bits, MaxBit, PowerOf2
  <2> QED BY <2>1
<1>3. CASE size = 4
  <2>1. 2 \in Bits(size) BY <1>3 DEF Bits, MaxBit, PowerOf2
  <2> QED BY <2>1
<1> QED BY <1>1, <1>2, <1>3 DEF MaxBit

(* A put is accepted by packages without positions only, and only while    *)
(* there is room.                                                          *)
LEMMA AcceptsOnlyWithRoom ==
  ASSUME PackageInv, NEW function \in PutFunctions, NEW pos \in Positions,
         Accepts(pkg, pos, StrategyOf(function))
  PROVE  /\ pkg.strategy = PutWithoutPos
         /\ StrategyOf(function) = PutWithoutPos
         /\ pkg.put < pkg.num
<1>1. PICK size \in Sizes : pkg \in PackagesOf(size)
  BY DEF PackageInv
<1>2. pkg.strategy # PutWithPos
  BY ZeroHasNoBit DEF PackageInv, Accepts, CanNotPut
<1>3. pkg.strategy = PutWithoutPos
  BY <1>1, <1>2, ParameterPackageAssumption DEF PackagesOf
<1>4. pkg.put # pkg.num
  BY <1>3 DEF Accepts, CanNotPut, IsAllParameterSet
<1> QED
  BY <1>1, <1>3, <1>4, ParameterPackageAssumption DEF PackagesOf, Accepts, MaxBit

(* A package that counts as full holds as many parameters as it has room   *)
(* for.                                                                    *)
LEMMA FullHoldsAll ==
  ASSUME PackageInv, IsAllParameterSet(pkg)
  PROVE  Len(accepted) = pkg.num
<1>1. PICK size \in Sizes : pkg \in PackagesOf(size)
  BY DEF PackageInv
<1>2. CASE pkg.strategy = PutWithoutPos
  BY <1>2 DEF PackageInv, IsAllParameterSet
<1>3. CASE pkg.strategy = PutWithPos
  <2>1. pkg.num \in 1 .. MaxBit
    BY <1>1, ParameterPackageAssumption DEF PackagesOf
  <2>2. Bits(pkg.num) \subseteq {}
    BY <1>3, ZeroHasNoBit DEF PackageInv, IsAllParameterSet, PutWithPos, PutWithoutPos
  <2> QED BY <2>1, <2>2, SizeHasBit
<1> QED BY <1>1, <1>2, <1>3, ParameterPackageAssumption DEF PackagesOf

-----------------------------------------------------------------------------
(* A new package holds nothing.                                            *)
LEMMA PackageInvInit == Init => PackageInv
<1> SUFFICES ASSUME Init PROVE PackageInv OBVIOUS
<1>1. PICK size \in Sizes, s \in Strategies : pkg = NewPackage(size, s, Garbage)
  BY DEF Init
<1>2. size \in 1 .. MaxBit BY ParameterPackageAssumption
<1>3. pkg \in PackagesOf(size)
  BY <1>1, <1>2 DEF PackagesOf, NewPackage, MaxBit
<1>4. accepted = << >> /\ fetched = << >> BY DEF Init
<1>5. pkg.put = 0 /\ pkg.fetch = 0 /\ pkg.num \in Nat
  BY <1>1, <1>2 DEF NewPackage, MaxBit
<1>6. HoldsAccepted /\ FetchesPresentRound
  BY <1>4, <1>5 DEF HoldsAccepted, FetchesPresentRound
<1> QED BY <1>3, <1>4, <1>5, <1>6 DEF PackageInv

(* Every operation keeps the invariant.                                    *)
LEMMA PackageInvNext == PackageInv /\ [Next]_vars => PackageInv'
<1> SUFFICES ASSUME PackageInv, [Next]_vars PROVE PackageInv' OBVIOUS
<1>1. PICK size \in Sizes : pkg \in PackagesOf(size)
  BY DEF PackageInv
<1>2. size \in 1 .. 7 BY ParameterPackageAssumption DEF MaxBit
<1>3. /\ pkg.num = size /\ pkg.put \in 0 .. size /\ pkg.fetch \in 0 .. size
      /\ pkg.paras \in [0 .. size - 1 -> Params \cup {Garbage}]
      /\ pkg.strategy \in Strategies
      /\ pkg = [num |-> size, strategy |-> pkg.strategy, put |-> pkg.put,
                fetch |-> pkg.fetch, paras |-> pkg.paras]
  BY <1>1 DEF PackagesOf
<1>4. /\ accepted \in Seq(Params) /\ fetched \in Seq(Params)
      /\ Len(accepted) = pkg.put
      /\ Len(fetched) = pkg.fetch
  BY DEF PackageInv, FetchesPresentRound
<1>5. ASSUME NEW function \in PutFunctions, NEW value \in PutValues, NEW pos \in Positions,
             Put(function, value, pos)
      PROVE  PackageInv'
  <2> DEFINE para == Parameter(value, IsPointer(function))
  <2>1. /\ pkg.strategy = PutWithoutPos
        /\ StrategyOf(function) = PutWithoutPos
        /\ pkg.put < size
    BY <1>3, <1>5, AcceptsOnlyWithRoom DEF Put
  <2>2. para \in Params
    BY DEF Params, Parameter, IsPointer
  <2>3. /\ pkg' = [pkg EXCEPT !.paras[pkg.put] = para, !.put = pkg.put + 1]
        /\ accepted' = Append(accepted, para)
        /\ fetched' = fetched
    BY <1>5, <2>1 DEF Put, FillParameterPackage, UpdatePutTracer
  <2>4. /\ pkg'.num = size /\ pkg'.put = pkg.put + 1 /\ pkg'.fetch = pkg.fetch
        /\ pkg'.strategy = pkg.strategy
        /\ pkg'.paras = [pkg.paras EXCEPT ![pkg.put] = para]
    BY <1>3, <2>3
  <2>5. pkg' \in PackagesOf(size)
    <3>1. pkg.put \in 0 .. size - 1 /\ pkg.put + 1 \in 0 .. size
      BY <1>2, <1>3, <2>1
    <3>2. pkg'.paras \in [0 .. size - 1 -> Params \cup {Garbage}]
      BY <1>3, <2>2, <2>4, <3>1
    <3>3. pkg' = [num |-> size, strategy |-> pkg.strategy, put |-> pkg.put + 1,
                  fetch |-> pkg.fetch, paras |-> pkg'.paras]
      BY <1>3, <2>3
    <3> HIDE DEF para
    <3> QED BY <1>3, <3>1, <3>2, <3>3 DEF PackagesOf
  <2>6. /\ accepted' \in Seq(Params) /\ Len(accepted') = pkg'.put
        /\ \A k \in 1 .. Len(accepted) : accepted'[k] = accepted[k]
        /\ accepted'[pkg.put + 1] = para
    BY <1>3, <1>4, <2>2, <2>3, <2>4
  <2>7. HoldsAccepted'
    BY <1>2, <1>3, <1>4, <2>1, <2>4, <2>6 DEF HoldsAccepted, PackageInv
  <2>8. FetchesPresentRound'
    BY <1>3, <1>4, <2>3, <2>4, <2>6 DEF FetchesPresentRound, PackageInv
  <2> QED
    BY <1>1, <1>4, <2>1, <2>3, <2>4, <2>5, <2>6, <2>7, <2>8
    DEF PackageInv, PutWithPos, PutWithoutPos
<1>6. ASSUME Fetch PROVE PackageInv'
  <2>1. Len(accepted) = size
    BY <1>3, <1>6, FullHoldsAll DEF Fetch
  <2>2. /\ pkg' = [pkg EXCEPT !.fetch = pkg.fetch + 1]
        /\ fetched' = Append(fetched, pkg.paras[pkg.fetch])
        /\ accepted' = accepted
        /\ pkg.fetch < size
    BY <1>3, <1>6 DEF Fetch, NextPara, FetchPara
  <2>3. pkg.paras[pkg.fetch] = accepted[pkg.fetch + 1]
    <3>1. pkg.fetch + 1 \in 1 .. Len(accepted) BY <1>3, <2>1, <2>2
    <3> QED BY <1>3, <3>1 DEF PackageInv, HoldsAccepted
  <2>4. pkg.paras[pkg.fetch] \in Params
    BY <1>3, <1>4, <2>1, <2>2, <2>3
  <2>5. pkg' \in PackagesOf(size)
    BY <1>2, <1>3, <2>2 DEF PackagesOf
  <2>6. /\ pkg'.num = size /\ pkg'.put = pkg.put /\ pkg'.fetch = pkg.fetch + 1
        /\ pkg'.strategy = pkg.strategy /\ pkg'.paras = pkg.paras
    BY <1>3, <2>2
  <2>7. /\ fetched' \in Seq(Params) /\ Len(fetched') = pkg'.fetch
        /\ \A k \in 1 .. Len(fetched) : fetched'[k] = fetched[k]
        /\ fetched'[pkg.fetch + 1] = accepted[pkg.fetch + 1]
    BY <1>3, <1>4, <2>2, <2>3, <2>4, <2>6
  <2>8. HoldsAccepted'
    BY <1>3, <2>2, <2>6 DEF HoldsAccepted, PackageInv
  <2>9. FetchesPresentRound'
    BY <1>3, <1>4, <2>1, <2>2, <2>6, <2>7 DEF FetchesPresentRound, PackageInv
  <2> QED
    BY <1>4, <2>2, <2>5, <2>6, <2>7, <2>8, <2>9 DEF PackageInv
<1>7. ASSUME Reset PROVE PackageInv'
  <2>1. /\ pkg' = [pkg EXCEPT !.put = 0, !.fetch = 0]
        /\ accepted' = << >> /\ fetched' = << >>
    BY <1>7 DEF Reset, ResetParameterPackage
  <2>2. pkg' \in PackagesOf(size) /\ pkg'.put = 0 /\ pkg'.fetch = 0 /\ pkg'.num = size
    BY <1>2, <1>3, <2>1 DEF PackagesOf
  <2>3. HoldsAccepted' /\ FetchesPresentRound'
    BY <1>2, <2>1, <2>2 DEF HoldsAccepted, FetchesPresentRound
  <2> QED BY <2>1, <2>2, <2>3 DEF PackageInv
<1>8. ASSUME Reuse PROVE PackageInv'
  <2>1. /\ pkg' = [pkg EXCEPT !.fetch = 0]
        /\ accepted' = accepted /\ fetched' = << >>
    BY <1>8 DEF Reuse, ReuseParameterPackage
  <2>2. /\ pkg' \in PackagesOf(size) /\ pkg'.put = pkg.put /\ pkg'.fetch = 0
        /\ pkg'.num = size /\ pkg'.paras = pkg.paras /\ pkg'.strategy = pkg.strategy
    BY <1>2, <1>3, <2>1 DEF PackagesOf
  <2>3. HoldsAccepted' /\ FetchesPresentRound'
    BY <1>3, <2>1, <2>2 DEF HoldsAccepted, FetchesPresentRound, PackageInv
  <2> QED BY <1>4, <2>1, <2>2, <2>3 DEF PackageInv
<1>9. ASSUME UNCHANGED vars PROVE PackageInv'
  BY <1>9 DEF vars, PackageInv, HoldsAccepted, FetchesPresentRound
<1>10. ASSUME NEW function \in PutFunctions, NEW pos \in Positions,
              PutRefused(function, pos)
       PROVE  PackageInv'
  BY <1>9, <1>10 DEF PutRefused
<1> QED BY <1>5, <1>6, <1>7, <1>8, <1>9, <1>10 DEF Next

(* The strengthening of the two properties is an invariant.                *)
THEOREM PackageInvariant == Spec => []PackageInv
  BY PackageInvInit, PackageInvNext, PTL DEF Spec

(* parameter_package.c:18-30: what was accepted stays at its place, and a  *)
(* package never takes more than its capacity.                             *)
THEOREM PackageHoldsAccepted == Spec => []HoldsAccepted
<1>1. PackageInv => HoldsAccepted BY DEF PackageInv
<1> QED BY <1>1, PackageInvariant, PTL

(* parameter_package.c:194-200, 323-334: the driver gets the parameters of *)
(* the present round, in the order of the puts and each once.              *)
THEOREM PackageFetchesPresentRound == Spec => []FetchesPresentRound
<1>1. PackageInv => FetchesPresentRound BY DEF PackageInv
<1> QED BY <1>1, PackageInvariant, PTL

(***************************************************************************)
(* The collection of the code blocks.  That every valid id has a source is *)
(* a matter of counting: each round of the loop adds one, no id twice, all *)
(* of them below the length of the list, and there are as many rounds.     *)
(***************************************************************************)
(* What the steps of the collection keep: one source per round, the ids    *)
(* of the list only, and once they are checked one source per id.          *)
CollectInv ==
  /\ config \in Configs
  /\ cursor \in Nat \ {0}
  /\ \A id \in DOMAIN sources : Child(sources[id]).id = id
  /\ phase = "collect" =>
       /\ IsFiniteSet(DOMAIN sources) /\ Cardinality(DOMAIN sources) = cursor - 1
       /\ \A id \in DOMAIN sources : id \in 0 .. Length - 1
  /\ phase = "check" => Length \in Nat /\ DOMAIN sources = 0 .. Length - 1
  /\ phase \in {"serve", "run"} =>
       \A i \in 1 .. Len(config.uses) : config.uses[i] >= 0 => config.uses[i] \in DOMAIN sources

(* As many ids as the list is long are all ids of the list.                *)
LEMMA AllIds ==
  ASSUME NEW n \in Nat, NEW S, S \subseteq 0 .. n - 1, IsFiniteSet(S), Cardinality(S) >= n
  PROVE  S = 0 .. n - 1
<1>1. IsFiniteSet(0 .. n - 1) /\ Cardinality(0 .. n - 1) = n
  <2>1. CASE n = 0
    BY <2>1, FS_EmptySet
  <2>2. CASE n > 0
    BY <2>2, FS_Interval
  <2> QED BY <2>1, <2>2
<1>2. Cardinality(S) <= n /\ (Cardinality(S) = n => S = 0 .. n - 1)
  BY <1>1, FS_Subset
<1>3. Cardinality(S) \in Nat
  BY FS_CardinalityType
<1> QED BY <1>2, <1>3

(* The collection starts with no source.                                   *)
LEMMA CollectInvInit == CollectInit => CollectInv
<1> SUFFICES ASSUME CollectInit PROVE CollectInv
  OBVIOUS
<1>1. DOMAIN sources = {}
  BY DEF CollectInit
<1> QED BY <1>1, FS_EmptySet DEF CollectInit, CollectInv

(* A round of the loop adds a source for an id that had none.              *)
LEMMA InstallKeepsInv == CollectInv /\ Install => CollectInv'
<1> SUFFICES ASSUME CollectInv, Install PROVE CollectInv'
  OBVIOUS
<1>1. CASE MayInstall(cursor)
  <2>1. PICK id : id = Child(cursor).id
    OBVIOUS
  <2>2. /\ id \notin DOMAIN sources /\ id \in 0 .. Length - 1
        /\ sources' = Added(sources, id, cursor)
        /\ cursor' = cursor + 1 /\ config' = config /\ phase' = phase /\ phase = "collect"
    BY <1>1, <2>1 DEF Install, MayInstall, Collecting
  <2>3. /\ DOMAIN sources' = DOMAIN sources \cup {id}
        /\ sources'[id] = cursor
        /\ \A k \in DOMAIN sources : sources'[k] = sources[k]
    BY <2>2 DEF Added
  <2>4. IsFiniteSet(DOMAIN sources') /\ Cardinality(DOMAIN sources') = cursor
    <3>1. IsFiniteSet(DOMAIN sources) /\ Cardinality(DOMAIN sources) = cursor - 1
      BY <2>2 DEF CollectInv
    <3>2. /\ IsFiniteSet(DOMAIN sources \cup {id})
          /\ Cardinality(DOMAIN sources \cup {id}) = Cardinality(DOMAIN sources) + 1
      BY <2>2, <3>1, FS_AddElement
    <3>3. cursor - 1 + 1 = cursor
      BY DEF CollectInv
    <3> QED BY <2>3, <3>1, <3>2, <3>3
  <2>5. \A k \in DOMAIN sources' : config.children[sources'[k]].id = k
    BY <2>1, <2>3 DEF CollectInv, Child
  <2> QED BY <2>2, <2>3, <2>4, <2>5 DEF CollectInv, Length, Child
<1>2. CASE ~MayInstall(cursor)
  BY <1>2 DEF Install, Terminate, CollectInv, Child, Length, Collecting
<1> QED BY <1>1, <1>2

(* When the loop is over, as many ids have a source as the list is long.   *)
LEMMA InstalledKeepsInv == CollectInv /\ Installed => CollectInv'
<1> SUFFICES ASSUME CollectInv, Installed PROVE CollectInv'
  OBVIOUS
<1>1. Length \in Nat
  BY CollectionAssumption DEF CollectInv, Installed, Length
<1>2. Cardinality(DOMAIN sources) >= Length
  BY <1>1 DEF CollectInv, Installed, Collecting
<1>3. DOMAIN sources = 0 .. Length - 1
  BY <1>1, <1>2, AllIds DEF CollectInv, Installed, Collecting
<1> QED BY <1>1, <1>3 DEF CollectInv, Installed, collection, Child, Length

(* An id that check_code_block_ids_validity lets pass is one of these.     *)
LEMMA CheckIdsKeepsInv == CollectInv /\ CheckIds => CollectInv'
<1> SUFFICES ASSUME CollectInv, CheckIds PROVE CollectInv'
  OBVIOUS
<1>1. UNCHANGED <<config, sources, cursor>> /\ phase = "check"
  BY DEF CheckIds, collection
<1>2. CASE \A i \in 1 .. Len(config.uses) : ValidId(config.uses[i])
  <2>1. config.uses \in Seq(Int)
    BY CollectionAssumption DEF CollectInv
  <2>2. ASSUME NEW i \in 1 .. Len(config.uses), config.uses[i] >= 0
        PROVE  config.uses[i] \in DOMAIN sources
    <3>1. config.uses[i] \in Int
      BY <2>1
    <3> QED BY <1>1, <1>2, <2>2, <3>1 DEF CollectInv, ValidId
  <2> QED BY <1>1, <1>2, <2>2 DEF CheckIds, CollectInv, Child, Length
<1>3. CASE ~\A i \in 1 .. Len(config.uses) : ValidId(config.uses[i])
  BY <1>1, <1>3 DEF CheckIds, Terminate, CollectInv, Child, Length
<1> QED BY <1>2, <1>3

(* The place of a request within its call.                                 *)
LEMMA RemainderInRange ==
  ASSUME NEW a \in Nat, NEW b \in Nat, b > 0
  PROVE  a % b \in 0 .. b - 1
BY Z3

(* A request designates one of the parameters.                             *)
LEMMA RequestsAreUses ==
  ASSUME CollectInv, Requested > 1
  PROVE  \E i \in 1 .. Len(config.uses) : config.uses[i] >= 0 /\ Requested - 2 = config.uses[i]
<1> DEFINE i == (cursor - 1) % PerCall
<1>1. config.uses \in Seq(Int)
  BY CollectionAssumption DEF CollectInv
<1>2. i \in 0 .. Len(config.uses)
  <2>1. Len(config.uses) \in Nat
    BY <1>1
  <2>2. PerCall \in Nat /\ PerCall > 0 /\ PerCall = Len(config.uses) + 1 /\ cursor - 1 \in Nat
    BY <2>1 DEF PerCall, CollectInv
  <2>3. i \in 0 .. PerCall - 1
    BY <2>2, RemainderInRange
  <2> QED BY <2>1, <2>2, <2>3
<1> HIDE DEF i
<1>3. Requested = IF i = 0 THEN IF config.single = Missing THEN 0 ELSE 1
                  ELSE IF config.uses[i] > -1 THEN config.uses[i] + 2 ELSE 0
  BY DEF Requested, i, SlotOf, NO_NEED_CODE_BLOCK
<1>4. i \in 1 .. Len(config.uses)
  BY <1>2, <1>3
<1>5. config.uses[i] \in Int
  BY <1>1, <1>4
<1>6. config.uses[i] >= 0 /\ Requested - 2 = config.uses[i]
  BY <1>3, <1>4, <1>5
<1> QED BY <1>4, <1>6

(* So a request for a block finds its source.                              *)
LEMMA InvGivesOwnSource == CollectInv => OwnSource
<1> SUFFICES ASSUME CollectInv, phase = "serve", Requested > 1
             PROVE  /\ Requested - 2 \in DOMAIN sources
                    /\ Child(sources[Requested - 2]).id = Requested - 2
  BY DEF OwnSource
<1> QED BY RequestsAreUses DEF CollectInv

(* However often an operation is called, and for any number of code blocks *)
(* and parameters, every block a call asks for was collected, from the     *)
(* child that carries its id: do_computation never compiles a NULL source  *)
(* (collect_code_block.c).                                                 *)
THEOREM BlocksAreCollected == CollectSpec => []OwnSource
<1>1. CollectInv /\ [CollectNext]_collectVars => CollectInv'
  <2> SUFFICES ASSUME CollectInv, [CollectNext]_collectVars PROVE CollectInv'
    OBVIOUS
  <2>1. CASE Skip
    <3>1. config.uses \in Seq(Int)
      BY CollectionAssumption DEF CollectInv
    <3> QED BY <2>1, <3>1 DEF Skip, NeedToCollect, collection, CollectInv, Child, Length
  <2>2. CASE InstallNothing
    BY <2>2 DEF InstallNothing, Terminate, collection, CollectInv, Child, Length
  <2>3. CASE AskForNone
    BY <2>3 DEF AskForNone, Serving, collection, CollectInv, Child, Length
  <2>4. CASE Ask
    BY <2>4 DEF Ask, Serving, collection, CollectInv, Child, Length
  <2>5. CASE Answered
    BY <2>5 DEF Answered, collection, CollectInv, Child, Length
  <2>6. CASE Died
    BY <2>6 DEF Died, Terminate, collection, CollectInv, Child, Length
  <2>7. CASE Finished
    BY <2>7 DEF Finished, collection, CollectInv, Child, Length
  <2>8. CASE UNCHANGED collectVars
    BY <2>8 DEF collectVars, CollectInv, Child, Length
  <2> QED BY <2>1, <2>2, <2>3, <2>4, <2>5, <2>6, <2>7, <2>8,
             InstallKeepsInv, InstalledKeepsInv, CheckIdsKeepsInv DEF CollectNext, Collect
<1> QED BY <1>1, CollectInvInit, InvGivesOwnSource, PTL DEF CollectSpec
=============================================================================

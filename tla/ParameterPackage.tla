-------------------------- MODULE ParameterPackage --------------------------
(***************************************************************************)
(* An application and the driver below it use one parameter package: the   *)
(* application puts parameters through any of the six put functions and    *)
(* may reset the package; the driver fetches the parameters of a package   *)
(* that is full, one after the other, and rewinds it.                      *)
(***************************************************************************)
EXTENDS Parameters, Sequences

CONSTANTS
  Sizes,       \* the capacities a package may be created with
  Strategies,  \* the strategies it may be created with
  PutValues,   \* the values the application puts
  Garbage      \* what malloc left in a parameter

ASSUME ParameterPackageAssumption ==
  /\ Sizes \subseteq 1 .. MaxBit
  /\ Strategies \subseteq {PutWithoutPos, PutWithPos}
  /\ Garbage \notin [value : PutValues, pointer : BOOLEAN]

VARIABLES
  pkg,        \* the package
  accepted,   \* the parameters it accepted since it was created or reset
  fetched     \* the parameters fetched since it was last rewound

vars == << pkg, accepted, fetched >>

Init ==
  /\ \E n \in Sizes, s \in Strategies : pkg = NewPackage(n, s, Garbage)
  /\ accepted = << >>
  /\ fetched = << >>

(* A put that is taken; one that is not answers 1 and does nothing.        *)
Put(function, value, pos) ==
  LET strategy == StrategyOf(function)
      para == Parameter(value, IsPointer(function))
  IN /\ Accepts(pkg, pos, strategy)
     /\ pkg' = FillParameterPackage(pkg, para, pos, strategy)
     /\ accepted' = Append(accepted, para)
     /\ UNCHANGED fetched

PutRefused(function, pos) ==
  /\ ~Accepts(pkg, pos, StrategyOf(function))
  /\ UNCHANGED vars

(* The driver has no check of its own: that the package is full and not    *)
(* fetched to its end is what it expects of its caller and its template.   *)
Fetch ==
  /\ IsAllParameterSet(pkg)
  /\ pkg.fetch < pkg.num
  /\ fetched' = Append(fetched, NextPara(pkg))
  /\ pkg' = FetchPara(pkg)
  /\ UNCHANGED accepted

Reset ==
  /\ pkg' = ResetParameterPackage(pkg)
  /\ accepted' = << >>
  /\ fetched' = << >>

Reuse ==
  /\ pkg' = ReuseParameterPackage(pkg)
  /\ fetched' = << >>
  /\ UNCHANGED accepted

Positions == 0 .. MaxBit

Next ==
  \/ \E function \in PutFunctions, value \in PutValues, pos \in Positions :
       Put(function, value, pos)
  \/ \E function \in PutFunctions, pos \in Positions : PutRefused(function, pos)
  \/ Fetch
  \/ Reset
  \/ Reuse

Spec == Init /\ [][Next]_vars

-----------------------------------------------------------------------------
Params == [value : PutValues, pointer : BOOLEAN]

(* The package's fields are of their kinds and its tracers in its bounds.  *)
TypeOK ==
  /\ pkg.put \in 0 .. pkg.num /\ pkg.fetch \in 0 .. pkg.num
  /\ pkg.paras \in [0 .. pkg.num - 1 -> Params \cup {Garbage}]

(* Every accepted parameter stays where the driver will look for it, in    *)
(* the order of the puts, whatever was refused in between, and a package   *)
(* takes no more than its capacity (parameter_package.c:18-30).            *)
HoldsAccepted ==
  /\ Len(accepted) <= pkg.num
  /\ \A k \in 1 .. Len(accepted) : pkg.paras[k - 1] = accepted[k]

(* The driver gets the parameters of the present round from the first on:  *)
(* never one of before the last reset, never one a second time before the  *)
(* package is rewound (parameter_package.c:194-200, 323-334).              *)
FetchesPresentRound ==
  /\ Len(fetched) = pkg.fetch
  /\ \A k \in 1 .. Len(fetched) : k <= Len(accepted) /\ fetched[k] = accepted[k]

=============================================================================

----------------------------- MODULE Parameters -----------------------------
(***************************************************************************)
(* The parameter package of utility/parameter_package.c: the operations on *)
(* one struct parameter_package.                                           *)
(*                                                                         *)
(* A package is filled through one of two strategies.  Without positions   *)
(* put_tracer counts the puts; with positions it is meant to be a bitmap   *)
(* of the positions filled.  A parameter is [value, pointer]; a pointer    *)
(* parameter stands for the application's variable at that address.        *)
(***************************************************************************)
EXTENDS Integers

PutWithoutPos == 0
PutWithPos == 1
MeaninglessPutPos == 32

Parameter(value, pointer) == [value |-> value, pointer |-> pointer]

(* init_parameter_package: the paras are what malloc left there.           *)
NewPackage(num, strategy, garbage) ==
  [num |-> num, strategy |-> strategy, put |-> 0, fetch |-> 0,
   paras |-> [k \in 0 .. num - 1 |-> garbage]]

(* IS_BIT_SET and & on the numbers that occur: positions up to MaxBit      *)
MaxBit == 7
PowerOf2 == << 1, 2, 4, 8, 16, 32, 64, 128 >>
Bits(n) == { k \in 0 .. MaxBit : (n \div PowerOf2[k + 1]) % 2 = 1 }

(* The strategy each put function hands to fill_parameter_package: only    *)
(* put_literal_with_pos asks for a position.                               *)
StrategyOf(function) ==
  IF function = "put_literal_with_pos" THEN PutWithPos ELSE PutWithoutPos

PutFunctions == { "put_value", "put_literal", "put_address", "put_value_with_pos",
                  "put_literal_with_pos", "put_address_with_pos" }

IsPointer(function) == function \in { "put_address", "put_address_with_pos" }

IsAllParameterSet(p) ==
  IF p.strategy = PutWithoutPos THEN p.put = p.num ELSE Bits(p.num) \subseteq Bits(p.put)

(* Mutant: a full package takes another parameter.                         *)
CanNotPutPosOnly(p, pos, strategy) ==
  strategy = PutWithPos /\ pos \notin Bits(p.put)

CanNotPut(p, pos, strategy) ==
  \/ IsAllParameterSet(p)
  \/ strategy = PutWithPos /\ pos \notin Bits(p.put)

Accepts(p, pos, strategy) ==
  p.strategy = strategy /\ ~CanNotPut(p, pos, strategy)

UpdatePutTracer(p, pos, strategy) ==
  IF strategy = PutWithoutPos THEN p.put + 1
  ELSE IF pos \in Bits(p.put) THEN p.put ELSE p.put + PowerOf2[pos + 1]

(* Mutant: the tracer is advanced before the parameter is written.         *)
FillAfterAdvance(p, para, pos, strategy) ==
  [p EXCEPT !.paras[UpdatePutTracer(p, pos, strategy)] = para,
            !.put = UpdatePutTracer(p, pos, strategy)]

(* fill_parameter_package, when it accepts the parameter                   *)
FillParameterPackage(p, para, pos, strategy) ==
  [p EXCEPT !.paras[p.put] = para, !.put = UpdatePutTracer(p, pos, strategy)]

(* fetch_para: the next parameter, and the package behind it               *)
NextPara(p) == p.paras[p.fetch]
FetchPara(p) == [p EXCEPT !.fetch = @ + 1]

(* Mutant: only the puts are forgotten.                                    *)
ResetPutsOnly(p) == [p EXCEPT !.put = 0]

ResetParameterPackage(p) == [p EXCEPT !.put = 0, !.fetch = 0]

(* Mutant: the fetches go on behind the last one.                          *)
ReuseNothing(p) == p

ReuseParameterPackage(p) == [p EXCEPT !.fetch = 0]

=============================================================================

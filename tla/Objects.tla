------------------------------ MODULE Objects ------------------------------
(***************************************************************************)
(* struct object of object.h, and what the interpreter computes with       *)
(* objects.  A variant of the union carries the field of its C member, so  *)
(* that reading a member of another variant is an error of the model.      *)
(*                                                                         *)
(* A double is an integer up to MaxNumber in magnitude, one of the two     *)
(* infinities beyond it, or NaN, and negative zero is zero; a string is    *)
(* the sequence of its pieces.                                             *)
(***************************************************************************)
EXTENDS Integers, Sequences

CONSTANT MaxNumber  \* bound: the largest finite double

ASSUME MaxNumberAssumption == MaxNumber \in Nat \ {0}

Infinity == MaxNumber + 1
NaN == MaxNumber + 2
Numbers == -Infinity .. NaN

OBJECT_STRING(s) == [type |-> "string", s |-> s]
OBJECT_NUMBER(d) == [type |-> "number", d |-> d]
OBJECT_BOOL(b) == [type |-> "bool", b |-> b]
OBJECT_NULL == [type |-> "null"]
OBJECT_NATIVE_FUNCTION(arity, func) ==
  [type |-> "native_function", nf |-> [arity |-> arity, func |-> func]]
OBJECT_FUNCTION(declaration, closure) ==
  [type |-> "function", f |-> [declaration |-> declaration, closure |-> closure]]

IsNumber(obj) == obj.type = "number"
IsCallable(obj) == obj.type \in {"native_function", "function"}

object_arity(obj) ==
  IF obj.type = "native_function" THEN obj.nf.arity ELSE Len(obj.f.declaration.params)

-----------------------------------------------------------------------------
(* The arithmetic of the machine, on this range of doubles.                *)
IsFinite(x) == x \in -MaxNumber .. MaxNumber
Rounded(n) == IF n > MaxNumber THEN Infinity ELSE IF n < -MaxNumber THEN -Infinity ELSE n

Negate(x) == IF x = NaN THEN NaN ELSE -x

Add(x, y) ==
  CASE NaN \in {x, y} \/ {x, y} = {Infinity, -Infinity} -> NaN
    [] IsFinite(x) /\ IsFinite(y) -> Rounded(x + y)
    [] OTHER -> IF IsFinite(x) THEN y ELSE x

Multiply(x, y) ==
  CASE NaN \in {x, y} \/ (0 \in {x, y} /\ ~(IsFinite(x) /\ IsFinite(y))) -> NaN
    [] OTHER -> Rounded(x * y)

(* Quotients are exact in the programs that are checked, or have a zero or *)
(* an infinity in them.                                                    *)
Divide(x, y) ==
  LET undefined == NaN \in {x, y} \/ (x = 0 /\ y = 0) \/ ~(IsFinite(x) \/ IsFinite(y))
      unbounded == y = 0 \/ ~IsFinite(x)
  IN  CASE undefined -> NaN
        [] ~undefined /\ unbounded -> IF (x < 0) = (y < 0) THEN Infinity ELSE -Infinity
        [] ~undefined /\ ~unbounded /\ ~IsFinite(y) -> 0
        [] OTHER -> IF y < 0 THEN (-x) \div (-y) ELSE x \div y

Arithmetic(op, x, y) ==
  CASE op = "+" -> Add(x, y)
    [] op = "-" -> Add(x, Negate(y))
    [] op = "*" -> Multiply(x, y)
    [] op = "/" -> Divide(x, y)

Compare(op, x, y) ==
  /\ NaN \notin {x, y}
  /\ CASE op = "<" -> x < y
       [] op = "<=" -> x <= y
       [] op = ">" -> x > y
       [] op = ">=" -> x >= y

-----------------------------------------------------------------------------
is_truthy(obj) ==
  CASE obj.type = "null" -> FALSE
    [] obj.type = "bool" -> obj.b
    [] OTHER -> TRUE

(* fabs(left - right) < NUMBER_DELTA: integers that close are equal, and   *)
(* the difference of two equal infinities is NaN, which is not below it.   *)
WithinDelta(x, y) == IsFinite(x) /\ IsFinite(y) /\ x = y

is_equal(left, right) ==
  /\ left.type = right.type
  /\ CASE left.type = "null" -> TRUE
       [] left.type = "bool" -> left.b = right.b
       [] left.type = "string" -> left.s = right.s
       [] left.type = "number" -> WithinDelta(left.d, right.d)
       [] left.type = "native_function" -> left.nf.func = right.nf.func
       [] left.type = "function" -> left.f.declaration.at = right.f.declaration.at

(* stringify has no case for a function.                                   *)
CanStringify(obj) == obj.type # "function"

(* The result of an operator: an object, an error, or a failed assertion.  *)
Success(obj) == [tag |-> "ok", value |-> obj]
Failure(message) == [tag |-> "error", error |-> message]
Abort(assertion) == [tag |-> "abort", assertion |-> assertion]
Unreachable == Abort("entered unreachable code")

check_number_operand(operand) == IsNumber(operand)
check_number_operands(left, right) == IsNumber(left) /\ IsNumber(right)

BinaryResult(op, left, right) ==
  CASE op = "!=" -> Success(OBJECT_BOOL(~is_equal(left, right)))
    [] op = "==" -> Success(OBJECT_BOOL(is_equal(left, right)))
    [] op \in {"<", "<=", ">", ">="} ->
         IF check_number_operands(left, right)
         THEN Success(OBJECT_BOOL(Compare(op, left.d, right.d)))
         ELSE Failure("operands must be numbers")
    [] op \in {"+", "-", "*", "/"} ->
         IF check_number_operands(left, right)
         THEN Success(OBJECT_NUMBER(Arithmetic(op, left.d, right.d)))
         ELSE IF op # "+" THEN Failure("operands must be numbers")
         ELSE IF left.type = "string" /\ right.type = "string"
         THEN Success(OBJECT_STRING(left.s \o right.s))
         ELSE Failure("operands must be two numbers or two strings")
    [] OTHER -> Unreachable

UnaryResult(op, right) ==
  CASE op = "!" -> Success(OBJECT_BOOL(~is_truthy(right)))
    [] op = "-" -> IF check_number_operand(right)
                   THEN Success(OBJECT_NUMBER(Negate(right.d)))
                   ELSE Failure("operand must be a number")
    [] OTHER -> Unreachable
=============================================================================

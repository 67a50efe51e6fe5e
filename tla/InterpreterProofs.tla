------------------------- MODULE InterpreterProofs -------------------------
(***************************************************************************)
(* TLAPS proofs about module Interpreter, for every set of programs, every *)
(* depth of recursion and every session.  Nothing is assumed of the syntax *)
(* trees: the arguments are about the order in which visitors wait for one *)
(* another and what they leave behind.                                     *)
(***************************************************************************)
EXTENDS Interpreter, TLAPS

-----------------------------------------------------------------------------
(* The stack, as a sequence of frames.                                     *)

(* A call that begins to wait in the environment it found, or to run a     *)
(* block in a new one after saving the old.                                *)
LEMMA PushRestored ==
  ASSUME NEW S, NEW frames \in Seq(S), NEW e, NEW f,
         Restored(frames, e), Leaves(f) = e
  PROVE  Restored(<<f>> \o frames, f.environment)
<1> DEFINE pushed == <<f>> \o frames
<1>1. /\ Len(pushed) = Len(frames) + 1
      /\ pushed # <<>>
      /\ Head(pushed) = f
      /\ pushed[1] = f
      /\ \A n \in 1 .. Len(frames) : pushed[n + 1] = frames[n]
  OBVIOUS
<1>2. frames # <<>> => Head(frames) = frames[1]
  OBVIOUS
<1>3. frames = <<>> <=> Len(frames) = 0
  OBVIOUS
<1>4. ASSUME NEW n \in 1 .. Len(pushed)
      PROVE  Leaves(pushed[n]) = IF n = Len(pushed) THEN Globals ELSE pushed[n + 1].environment
  <2>1. CASE n = 1
    <3>1. CASE frames = <<>>
      BY <1>1, <1>3, <2>1, <3>1 DEF Restored
    <3>2. CASE frames # <<>>
      <4>1. pushed[2] = frames[1]
        BY <1>1, <1>3, <3>2
      <4>2. e = frames[1].environment
        BY <1>2, <3>2 DEF Restored
      <4>. QED
        BY <1>1, <1>3, <2>1, <3>2, <4>1, <4>2
    <3>. QED
      BY <3>1, <3>2
  <2>2. CASE n # 1
    <3>1. n - 1 \in 1 .. Len(frames) /\ (n - 1) + 1 = n
      BY <1>1, <2>2
    <3>2. pushed[n] = frames[n - 1]
      BY <1>1, <3>1
    <3>3. n # Len(pushed) => pushed[n + 1] = frames[n]
      BY <1>1, <3>1
    <3>4. Leaves(frames[n - 1]) =
            IF n - 1 = Len(frames) THEN Globals ELSE frames[(n - 1) + 1].environment
      BY <3>1 DEF Restored
    <3>. QED
      BY <1>1, <3>1, <3>2, <3>3, <3>4
  <2>. QED
    BY <2>1, <2>2
<1>. QED
  BY <1>1, <1>4 DEF Restored

(* A call that returns. *)
LEMMA PopRestored ==
  ASSUME NEW S, NEW frames \in Seq(S), frames # <<>>, NEW e, Restored(frames, e)
  PROVE  Restored(Tail(frames), Leaves(Head(frames)))
<1> DEFINE rest == Tail(frames)
<1>1. /\ rest \in Seq(S)
      /\ Len(rest) = Len(frames) - 1
      /\ Len(frames) \in Nat
      /\ Len(frames) >= 1
      /\ Head(frames) = frames[1]
      /\ \A n \in 1 .. Len(rest) : rest[n] = frames[n + 1]
  OBVIOUS
<1>. HIDE DEF rest
<1>2. rest # <<>> => Head(rest) = rest[1] /\ Len(rest) >= 1
  BY <1>1
<1>3. rest = <<>> <=> Len(rest) = 0
  BY <1>1
<1>4. Leaves(frames[1]) = IF rest = <<>> THEN Globals ELSE Head(rest).environment
  <2>1. Leaves(frames[1]) = IF 1 = Len(frames) THEN Globals ELSE frames[1 + 1].environment
    BY <1>1 DEF Restored
  <2>2. rest # <<>> => Head(rest) = frames[1 + 1]
    BY <1>1, <1>2
  <2>. QED
    BY <1>1, <1>3, <2>1, <2>2
<1>5. ASSUME NEW n \in 1 .. Len(rest)
      PROVE  Leaves(rest[n]) = IF n = Len(rest) THEN Globals ELSE rest[n + 1].environment
  <2>1. n + 1 \in 1 .. Len(frames) /\ (n = Len(rest) <=> n + 1 = Len(frames))
    BY <1>1
  <2>2. Leaves(frames[n + 1]) =
          IF n + 1 = Len(frames) THEN Globals ELSE frames[(n + 1) + 1].environment
    BY <2>1 DEF Restored
  <2>3. rest[n] = frames[n + 1]
    BY <1>1
  <2>4. n # Len(rest) => rest[n + 1] = frames[(n + 1) + 1]
    BY <1>1
  <2>. QED
    BY <2>1, <2>2, <2>3, <2>4
<1>6. Restored(rest, Leaves(Head(frames)))
  BY <1>1, <1>4, <1>5 DEF Restored
<1>. QED
  BY <1>6 DEF rest

(* The call of interpret is the outermost one. *)
Grounded(frames) == \A n \in 1 .. Len(frames) : frames[n].fn = "interpret" => n = Len(frames)

LEMMA PushGrounded ==
  ASSUME NEW S, NEW frames \in Seq(S), NEW f, Grounded(frames),
         f.fn = "interpret" => frames = <<>>
  PROVE  Grounded(<<f>> \o frames)
<1> DEFINE pushed == <<f>> \o frames
<1>1. /\ Len(pushed) = Len(frames) + 1
      /\ pushed[1] = f
      /\ \A n \in 1 .. Len(frames) : pushed[n + 1] = frames[n]
      /\ frames = <<>> => Len(frames) = 0
  OBVIOUS
<1>. HIDE DEF pushed
<1>2. ASSUME NEW n \in 1 .. Len(pushed), pushed[n].fn = "interpret"
      PROVE  n = Len(pushed)
  <2>1. CASE n = 1
    BY <1>1, <1>2, <2>1
  <2>2. CASE n # 1
    <3>1. n - 1 \in 1 .. Len(frames) /\ (n - 1) + 1 = n
      BY <1>1, <2>2
    <3>. QED
      BY <1>1, <1>2, <3>1 DEF Grounded
  <2>. QED
    BY <2>1, <2>2
<1>3. Grounded(pushed)
  BY <1>2 DEF Grounded
<1>. QED
  BY <1>3 DEF pushed

LEMMA PopGrounded ==
  ASSUME NEW S, NEW frames \in Seq(S), frames # <<>>, Grounded(frames)
  PROVE  /\ Tail(frames) \in Seq(S)
         /\ Grounded(Tail(frames))
         /\ Head(frames).fn = "interpret" => Tail(frames) = <<>>
<1> DEFINE rest == Tail(frames)
<1>1. /\ rest \in Seq(S)
      /\ Len(rest) = Len(frames) - 1
      /\ Len(frames) \in Nat
      /\ Len(frames) >= 1
      /\ Head(frames) = frames[1]
      /\ \A n \in 1 .. Len(rest) : rest[n] = frames[n + 1]
  OBVIOUS
<1>. HIDE DEF rest
<1>2. Grounded(rest)
  BY <1>1 DEF Grounded
<1>3. Head(frames).fn = "interpret" => Len(rest) = 0
  BY <1>1 DEF Grounded
<1>4. Len(rest) = 0 => rest = <<>>
  BY <1>1
<1>. QED
  BY <1>1, <1>2, <1>3, <1>4 DEF rest

-----------------------------------------------------------------------------
(* What a step does to the stack: a call begins to wait, a call goes on    *)
(* waiting for something else, a call returns, or nothing.                 *)

Pushes(f) ==
  /\ stack' = <<f>> \o stack
  /\ Leaves(f) = environment
  /\ environment' = f.environment
  /\ f.fn = "interpret" => ctl.tag = "idle"
  /\ ctl'.tag # "idle"

PushesTwo(f, g) ==
  /\ stack' = <<g>> \o (<<f>> \o stack)
  /\ Leaves(f) = environment
  /\ f.environment = environment
  /\ Leaves(g) = environment
  /\ environment' = g.environment
  /\ "interpret" \notin {f.fn, g.fn}
  /\ ctl'.tag # "idle"

Swaps(f) ==
  /\ stack # <<>>
  /\ stack' = <<f>> \o Tail(stack)
  /\ Leaves(f) = Leaves(Top)
  /\ environment' = f.environment
  /\ f.fn = "interpret" => Top.fn = "interpret"
  /\ ctl'.tag # "idle"

Pops ==
  /\ stack # <<>>
  /\ stack' = Tail(stack)
  /\ environment' = Leaves(Top)
  /\ ctl'.tag = "idle" => Top.fn = "interpret"

Stays ==
  /\ UNCHANGED <<stack, environment>>
  /\ ctl'.tag = "idle" => ctl.tag = "idle"

StackInv ==
  /\ \E S : stack \in Seq(S)
  /\ Restored(stack, environment)
  /\ Grounded(stack)
  /\ ctl.tag = "idle" => stack = <<>>

LEMMA ShapesKeepStackInv ==
  ASSUME StackInv,
         \/ \E f : Pushes(f)
         \/ \E f, g : PushesTwo(f, g)
         \/ \E f : Swaps(f)
         \/ Pops
         \/ Stays
  PROVE  StackInv'
<1>1. PICK S : stack \in Seq(S)
  BY DEF StackInv
<1>2. ASSUME NEW f, Pushes(f)
      PROVE  StackInv'
  <2>1. <<f>> \o stack \in Seq(S \cup {f})
    BY <1>1
  <2>2. Restored(<<f>> \o stack, f.environment)
    BY <1>1, <1>2, PushRestored DEF StackInv, Pushes
  <2>3. Grounded(<<f>> \o stack)
    BY <1>1, <1>2, PushGrounded DEF StackInv, Pushes
  <2>. QED
    BY <1>2, <2>1, <2>2, <2>3 DEF StackInv, Pushes
<1>3. ASSUME NEW f, NEW g, PushesTwo(f, g)
      PROVE  StackInv'
  <2> DEFINE below == <<f>> \o stack
  <2>1. below \in Seq(S \cup {f})
    BY <1>1
  <2>2. Restored(below, f.environment)
    BY <1>1, <1>3, PushRestored DEF StackInv, PushesTwo
  <2>3. Grounded(below)
    BY <1>1, <1>3, PushGrounded DEF StackInv, PushesTwo
  <2>4. stack' = <<g>> \o below
    BY <1>3 DEF PushesTwo
  <2>. HIDE DEF below
  <2>5. <<g>> \o below \in Seq((S \cup {f}) \cup {g})
    BY <2>1
  <2>6. Restored(<<g>> \o below, g.environment)
    BY <1>3, <2>1, <2>2, PushRestored DEF PushesTwo
  <2>7. Grounded(<<g>> \o below)
    BY <1>3, <2>1, <2>3, PushGrounded DEF PushesTwo
  <2>. QED
    BY <1>3, <2>4, <2>5, <2>6, <2>7 DEF StackInv, PushesTwo
<1>4. ASSUME stack # <<>>
      PROVE  /\ Tail(stack) \in Seq(S)
             /\ Restored(Tail(stack), Leaves(Top))
             /\ Grounded(Tail(stack))
             /\ Top.fn = "interpret" => Tail(stack) = <<>>
  BY <1>1, <1>4, PopRestored, PopGrounded DEF StackInv, Top
<1>5. ASSUME NEW f, Swaps(f)
      PROVE  StackInv'
  <2> DEFINE rest == Tail(stack)
  <2>1. rest \in Seq(S) /\ Restored(rest, Leaves(Top)) /\ Grounded(rest)
    BY <1>4, <1>5 DEF Swaps
  <2>2. Top.fn = "interpret" => rest = <<>>
    BY <1>4, <1>5 DEF Swaps
  <2>3. stack' = <<f>> \o rest
    BY <1>5 DEF Swaps
  <2>. HIDE DEF rest
  <2>4. <<f>> \o rest \in Seq(S \cup {f})
    BY <2>1
  <2>5. Restored(<<f>> \o rest, f.environment)
    BY <1>5, <2>1, PushRestored DEF Swaps
  <2>6. Grounded(<<f>> \o rest)
    BY <1>5, <2>1, <2>2, PushGrounded DEF Swaps
  <2>. QED
    BY <1>5, <2>3, <2>4, <2>5, <2>6 DEF StackInv, Swaps
<1>6. CASE Pops
  BY <1>4, <1>6 DEF StackInv, Pops
<1>7. CASE Stays
  BY <1>7 DEF StackInv, Stays
<1>. QED
  BY <1>2, <1>3, <1>5, <1>6, <1>7

-----------------------------------------------------------------------------
(* What the steps do to ctl.                                               *)

LEMMA BinaryResultTag ==
  ASSUME NEW op, NEW left, NEW right
  PROVE  BinaryResult(op, left, right).tag \in {"ok", "error", "abort"}
BY DEF BinaryResult, Success, Failure, Unreachable, Abort

LEMMA UnaryResultTag ==
  ASSUME NEW op, NEW right
  PROVE  UnaryResult(op, right).tag \in {"ok", "error", "abort"}
BY DEF UnaryResult, Success, Failure, Unreachable, Abort

(* The kind of a result does not depend on the message it carries.         *)
LEMMA MessageTags ==
  ASSUME NEW message
  PROVE  /\ Failure(message).tag = "error"
         /\ INTERPRET_ERROR(message).tag = "error"
         /\ Abort(message).tag = "abort"
BY DEF Failure, Abort, INTERPRET_ERROR

Shapes ==
  \/ \E f : Pushes(f)
  \/ \E f, g : PushesTwo(f, g)
  \/ \E f : Swaps(f)
  \/ Pops
  \/ Stays

(* A visitor that calls evaluate pushes its own frame. *)
LEMMA AwaitPushes ==
  ASSUME NEW fn, NEW node, NEW child, Await(Frame(fn, node, <<>>), child),
         fn \notin {"interpret", "execute_block"}
  PROVE  Shapes
<1> DEFINE f == Frame(fn, node, <<>>)
<1>1. f.fn = fn /\ f.environment = environment /\ Leaves(f) = environment
  BY DEF Frame, Leaves
<1>2. Pushes(f)
  BY <1>1 DEF Await, Pushes, Evaluate, scopeVars
<1>. QED
  BY <1>2 DEF Shapes

(* A visitor other than interpreter_execute_block that returns, without    *)
(* touching interpreter->environment, leaves what it found.                *)
LEMMA ReturnPops ==
  ASSUME StackInv, stack # <<>>, Top.fn # "execute_block", Pop, UNCHANGED environment,
         ctl'.tag = "idle" => Top.fn = "interpret"
  PROVE  Shapes
BY DEF StackInv, Restored, Leaves, Top, Pop, Pops, Shapes

(* A visitor that goes on to wait for something else. *)
LEMMA ContinueSwaps ==
  ASSUME StackInv, stack # <<>>, Top.fn # "execute_block", UNCHANGED environment,
         NEW fn, NEW node, NEW objects, stack' = <<Frame(fn, node, objects)>> \o Tail(stack),
         fn \notin {"interpret", "execute_block"}, ctl'.tag # "idle"
  PROVE  Shapes
<1> DEFINE f == Frame(fn, node, objects)
<1>1. f.fn = fn /\ f.environment = environment /\ Leaves(f) = environment
  BY DEF Frame, Leaves
<1>2. Leaves(Top) = environment
  BY DEF StackInv, Restored, Leaves, Top
<1>3. Swaps(f)
  BY <1>1, <1>2 DEF Swaps
<1>. QED
  BY <1>3 DEF Shapes

(* A loop over a list of statements that goes on to the next one. *)
LEMMA AdvanceSwaps ==
  ASSUME StackInv, stack # <<>>, stack' = <<Advanced(Top)>> \o Tail(stack),
         UNCHANGED environment, ctl'.tag # "idle"
  PROVE  Shapes
<1> DEFINE f == Advanced(Top)
<1>1. f.fn = Top.fn /\ f.environment = Top.environment /\ Leaves(f) = Leaves(Top)
  BY DEF Advanced, Leaves
<1>2. Top.environment = environment
  BY DEF StackInv, Restored, Top
<1>3. Swaps(f)
  BY <1>1, <1>2 DEF Swaps
<1>. QED
  BY <1>3 DEF Shapes

(* A step of the interpreter that is handed any statements at any time.    *)
Step == Run \/ (\E statements : Interpret(statements)) \/ UNCHANGED vars

LEMMA NextSteps == [Next]_vars => Step
BY DEF Next, Step

LEMMA StepShapes ==
  ASSUME StackInv, Step
  PROVE  Shapes
<1>. USE DEF Waiting, Resuming
<1>1. ASSUME NEW statements, Interpret(statements)
      PROVE  Shapes
  <2> DEFINE f == Frame("interpret", statements, <<>>)
  <2>1. f.fn = "interpret" /\ f.environment = environment /\ Leaves(f) = environment
    BY DEF Frame, Leaves
  <2>2. Pushes(f)
    BY <1>1, <2>1 DEF Interpret, Pushes, EXECUTION_RESULT_NONE, scopeVars
  <2>. QED
    BY <2>2 DEF Shapes
<1>2. CASE InterpretLoop
  <2>1. CASE Top.i < Len(Top.node)
    BY <1>2, <2>1, AdvanceSwaps DEF InterpretLoop, Execute, scopeVars
  <2>2. CASE ~(Top.i < Len(Top.node))
    BY <1>2, <2>2, ReturnPops DEF InterpretLoop, scopeVars
  <2>. QED
    BY <2>1, <2>2
<1>3. CASE InterpretError
  BY <1>3, ReturnPops DEF InterpretError, scopeVars
<1>4. CASE InterpretReturn \/ VisitLiteral \/ VisitGrouping \/ lox_clock \/ StackOverflow
  <2>1. UNCHANGED <<stack, environment>>
    BY <1>4 DEF InterpretReturn, VisitLiteral, VisitGrouping, lox_clock, StackOverflow, scopeVars
  <2>2. CASE InterpretReturn \/ StackOverflow
    <3>1. ctl'.tag = "abort"
      BY <2>2, MessageTags DEF InterpretReturn, StackOverflow
    <3>. QED
      BY <2>1, <3>1 DEF Shapes, Stays
  <2>3. CASE VisitLiteral \/ lox_clock
    BY <2>1, <2>3 DEF VisitLiteral, lox_clock, INTERPRET_OK, Success, Shapes, Stays
  <2>4. CASE VisitGrouping
    BY <2>1, <2>4 DEF VisitGrouping, Evaluate, Shapes, Stays
  <2>. QED
    BY <1>4, <2>2, <2>3, <2>4
<1>5. CASE VisitVariable
  BY <1>5 DEF VisitVariable, Result, INTERPRET_OK, INTERPRET_ERROR, Success, Failure,
              Shapes, Stays, scopeVars
<1>6. CASE VisitFunction
  BY <1>6 DEF VisitFunction, EXECUTION_RESULT_NONE, Shapes, Stays
<1>7. CASE VisitAssign \/ VisitBinary \/ VisitLogical \/ VisitUnary \/ VisitCall
  BY <1>7, AwaitPushes DEF VisitAssign, VisitBinary, VisitLogical, VisitUnary, VisitCall
<1>8. CASE VisitExpression \/ VisitPrint \/ VisitIf \/ VisitWhile
  BY <1>8, AwaitPushes DEF VisitExpression, VisitPrint, VisitIf, VisitWhile
<1>9. CASE VisitReturn
  <2>1. CASE ctl.stmt.value # NULL
    BY <1>9, <2>1, AwaitPushes DEF VisitReturn
  <2>2. CASE ctl.stmt.value = NULL
    BY <1>9, <2>2 DEF VisitReturn, EXECUTION_RESULT_RETURN, Shapes, Stays, scopeVars
  <2>. QED
    BY <2>1, <2>2
<1>10. CASE VisitVar
  <2>1. CASE ctl.stmt.initializer # NULL
    BY <1>10, <2>1, AwaitPushes DEF VisitVar
  <2>2. CASE ctl.stmt.initializer = NULL
    BY <1>10, <2>2 DEF VisitVar, EXECUTION_RESULT_NONE, Shapes, Stays
  <2>. QED
    BY <2>1, <2>2
<1>11. CASE AssignValue
  <2>1. ctl'.tag # "idle"
    <3>1. ctl' = ctl \/ ctl' = INTERPRET_ERROR("undefined variable")
      BY <1>11 DEF AssignValue, ExprFails, Result
    <3>2. ctl.tag # "idle"
      BY <1>11 DEF AssignValue
    <3>. QED
      BY <3>1, <3>2, MessageTags
  <2>. QED
    BY <1>11, <2>1, ReturnPops DEF AssignValue
<1>12. CASE BinaryLeft
  <2>1. CASE ctl.tag = "error"
    BY <1>12, <2>1, ReturnPops DEF BinaryLeft, ExprFails, scopeVars
  <2>2. CASE ctl.tag = "ok"
    BY <1>12, <2>2, ContinueSwaps DEF BinaryLeft, ExprFails, Evaluate, scopeVars
  <2>. QED
    BY <1>12, <2>1, <2>2 DEF BinaryLeft
<1>13. CASE BinaryRight
  <2>1. ctl'.tag # "idle"
    BY <1>13, BinaryResultTag DEF BinaryRight, ExprFails, Result
  <2>. QED
    BY <1>13, <2>1, ReturnPops DEF BinaryRight, scopeVars
<1>14. CASE LogicalLeft
  <2>1. ctl'.tag # "idle"
    BY <1>14 DEF LogicalLeft, ExprFails, Evaluate
  <2>. QED
    BY <1>14, <2>1, ReturnPops DEF LogicalLeft, scopeVars
<1>15. CASE UnaryRight
  <2>1. ctl'.tag # "idle"
    BY <1>15, UnaryResultTag DEF UnaryRight, ExprFails, Result
  <2>. QED
    BY <1>15, <2>1, ReturnPops DEF UnaryRight, scopeVars
<1>16. CASE CallOperand
  <2>1. CASE ctl.tag = "error"
    BY <1>16, <2>1, ReturnPops DEF CallOperand, ExprFails, scopeVars
  <2>2. CASE ctl.tag = "ok"
    <3> DEFINE objects == Append(Top.objects, ctl.value)
    <3>1. CASE Len(Tail(objects)) < Len(Top.node.arguments)
      <4>1. stack # <<>> /\ Top.fn = "call" /\ UNCHANGED environment
        BY <1>16 DEF CallOperand, Resuming, Waiting, scopeVars
      <4>2. stack' = <<Frame("call", Top.node, objects)>> \o Tail(stack) /\ ctl'.tag = "evaluate"
        BY <1>16, <2>2, <3>1 DEF CallOperand, ExprFails, Evaluate
      <4>. HIDE DEF objects
      <4>. QED
        BY <4>1, <4>2, ContinueSwaps
    <3>2. CASE ~(Len(Tail(objects)) < Len(Top.node.arguments))
      <4>1. Pop /\ UNCHANGED environment
        BY <1>16, <2>2, <3>2 DEF CallOperand, ExprFails, scopeVars
      <4>2. \/ ctl' = INTERPRET_ERROR("can only call functions")
            \/ ctl' = INTERPRET_ERROR("wrong number of arguments")
            \/ ctl' = Call(Head(objects), Tail(objects))
        <5>. HIDE DEF objects
        <5>. QED
          BY <1>16, <2>2, <3>2 DEF CallOperand, ExprFails, Result, objects
      <4>3. ctl'.tag # "idle"
        <5>1. Call(Head(objects), Tail(objects)).tag = "call"
          BY DEF Call
        <5>. QED
          BY <4>2, <5>1, MessageTags
      <4>. QED
        BY <1>16, <4>1, <4>3, ReturnPops DEF CallOperand
    <3>. QED
      BY <3>1, <3>2
  <2>. QED
    BY <1>16, <2>1, <2>2 DEF CallOperand
<1>17. CASE CallFunction
  <2> DEFINE declaration == ctl.callee.f.declaration
             e == Len(envs) + 1
             f == Frame("interpreter_call", declaration, <<>>)
             g == BlockFrame(declaration.body, e)
  <2>1. f.fn = "interpreter_call" /\ f.environment = environment /\ Leaves(f) = environment
    BY DEF Frame, Leaves
  <2>2. g.fn = "execute_block" /\ g.environment = e /\ Leaves(g) = environment
    BY DEF BlockFrame, Leaves
  <2>3. PushesTwo(f, g)
    BY <1>17, <2>1, <2>2 DEF CallFunction, EnterBlock, PushesTwo, EXECUTION_RESULT_NONE
  <2>. QED
    BY <2>3 DEF Shapes
<1>18. CASE CallReturns
  <2>1. ctl'.tag # "idle"
    BY <1>18 DEF CallReturns, INTERPRET_OK, INTERPRET_ERROR, Success, Failure
  <2>. QED
    BY <1>18, <2>1, ReturnPops DEF CallReturns, scopeVars
<1>19. CASE VisitBlock
  <2> DEFINE g == BlockFrame(ctl.stmt.statements, Len(envs) + 1)
  <2>1. g.fn = "execute_block" /\ g.environment = Len(envs) + 1 /\ Leaves(g) = environment
    BY DEF BlockFrame, Leaves
  <2>2. Pushes(g)
    BY <1>19, <2>1 DEF VisitBlock, EnterBlock, Pushes, EXECUTION_RESULT_NONE
  <2>. QED
    BY <2>2 DEF Shapes
<1>20. CASE BlockLoop
  BY <1>20, AdvanceSwaps DEF BlockLoop, Execute, scopeVars
<1>21. CASE BlockExit
  BY <1>21 DEF BlockExit, Pop, Leaves, Pops, Shapes
<1>22. CASE ExpressionValue
  <2>1. ctl'.tag # "idle"
    BY <1>22 DEF ExpressionValue, StmtFails, Result, EXECUTION_RESULT_NONE, EXECUTION_RESULT_RUNTIME_ERROR
  <2>. QED
    BY <1>22, <2>1, ReturnPops DEF ExpressionValue, scopeVars
<1>23. CASE PrintValue
  <2>1. ctl'.tag # "idle"
    <3>1. \/ ctl' = EXECUTION_RESULT_RUNTIME_ERROR(ctl.error)
          \/ ctl' = EXECUTION_RESULT_NONE
          \/ ctl' = Abort("stringify: impossible object type")
      BY <1>23 DEF PrintValue, StmtFails, Result
    <3>2. /\ EXECUTION_RESULT_RUNTIME_ERROR(ctl.error).tag = "runtime_error"
          /\ EXECUTION_RESULT_NONE.tag = "none"
      BY DEF EXECUTION_RESULT_NONE, EXECUTION_RESULT_RUNTIME_ERROR
    <3>. QED
      BY <3>1, <3>2, MessageTags
  <2>. QED
    BY <1>23, <2>1, ReturnPops DEF PrintValue, scopeVars
<1>24. CASE ReturnValue
  <2>1. ctl'.tag # "idle"
    BY <1>24 DEF ReturnValue, StmtFails, Result, EXECUTION_RESULT_RETURN, EXECUTION_RESULT_RUNTIME_ERROR
  <2>. QED
    BY <1>24, <2>1, ReturnPops DEF ReturnValue, scopeVars
<1>25. CASE IfCondition
  <2>1. ctl'.tag # "idle"
    BY <1>25 DEF IfCondition, StmtFails, Result, Execute, EXECUTION_RESULT_NONE, EXECUTION_RESULT_RUNTIME_ERROR
  <2>. QED
    BY <1>25, <2>1, ReturnPops DEF IfCondition, scopeVars
<1>26. CASE VarValue
  <2>1. ctl'.tag # "idle"
    BY <1>26 DEF VarValue, StmtFails, Result, EXECUTION_RESULT_NONE, EXECUTION_RESULT_RUNTIME_ERROR
  <2>. QED
    BY <1>26, <2>1, ReturnPops DEF VarValue
<1>27. CASE WhileCondition
  <2>1. ctl'.tag # "idle"
    BY <1>27 DEF WhileCondition, StmtFails, Result, Execute, EXECUTION_RESULT_NONE, EXECUTION_RESULT_RUNTIME_ERROR
  <2>2. CASE Pop
    BY <1>27, <2>1, <2>2, ReturnPops DEF WhileCondition, scopeVars
  <2>3. CASE stack' = <<Frame("while_body", Top.node, <<>>)>> \o Tail(stack)
    BY <1>27, <2>1, <2>3, ContinueSwaps DEF WhileCondition, scopeVars
  <2>. QED
    BY <1>27, <2>2, <2>3 DEF WhileCondition
<1>28. CASE WhileBody
  BY <1>28, ContinueSwaps DEF WhileBody, Evaluate, scopeVars
<1>29. CASE UNCHANGED vars
  BY <1>29 DEF vars, Stays, Shapes
<1>. QED
  BY <1>1, <1>2, <1>3, <1>4, <1>5, <1>6, <1>7, <1>8, <1>9, <1>10, <1>11, <1>12, <1>13, <1>14,
     <1>15, <1>16, <1>17, <1>18, <1>19, <1>20, <1>21, <1>22, <1>23, <1>24, <1>25, <1>26, <1>27,
     <1>28, <1>29 DEF Step, Run

(* interpreter->environment is what it was whenever a call returns, and    *)
(* the globals after every run, for all programs and all ways they end.    *)
THEOREM ScopesAreRestored == Spec => []EnvironmentRestored
<1>1. Init => StackInv
  <2>. SUFFICES ASSUME Init PROVE StackInv
    OBVIOUS
  <2>1. stack = <<>> /\ Len(stack) = 0 /\ stack \in Seq({}) /\ environment = Globals
    BY DEF Init
  <2>. QED
    BY <2>1 DEF StackInv, Restored, Grounded
<1>2. StackInv /\ [Next]_vars => StackInv'
  BY NextSteps, StepShapes, ShapesKeepStackInv DEF Shapes
<1>3. StackInv => EnvironmentRestored
  BY DEF StackInv, Restored, EnvironmentRestored
<1>. QED
  BY <1>1, <1>2, <1>3, PTL DEF Spec

-----------------------------------------------------------------------------
(* Runtime errors.                                                         *)

Failing == {"error", "runtime_error"}

(* What a step may do: pass an error on, report it, drop it in a loop or   *)
(* begin a new run, or be a step of a run that has not failed.             *)
ErrorStep ==
  \/ ctl'.tag \in Failing
  \/ HadRuntimeError' = TRUE
  \/ raised' = FALSE
  \/ /\ ctl.tag \notin Failing
     /\ UNCHANGED <<raised, HadRuntimeError>>

(* A visitor that creates its result. *)
LEMMA ResultIsErrorStep ==
  ASSUME NEW r, Result(r), raised \in BOOLEAN, ctl.tag \notin Failing,
         UNCHANGED HadRuntimeError
  PROVE  ErrorStep
<1>1. CASE r.tag = "error"
  BY <1>1 DEF Result, ErrorStep, Failing
<1>2. CASE r.tag # "error"
  <2>1. raised' = raised
    BY <1>2 DEF Result
  <2>. QED
    BY <2>1 DEF ErrorStep
<1>. QED
  BY <1>1, <1>2

(* A visitor whose nested evaluate failed. *)
LEMMA FailIsErrorStep ==
  ASSUME ExprFails \/ StmtFails
  PROVE  ErrorStep
BY DEF ExprFails, StmtFails, EXECUTION_RESULT_RUNTIME_ERROR, ErrorStep, Failing

FlagInv == raised \in BOOLEAN

LEMMA StepErrors ==
  ASSUME FlagInv, Step
  PROVE  ErrorStep
<1>. USE DEF Waiting, Resuming, FlagInv
<1>1. ASSUME NEW statements, Interpret(statements)
      PROVE  ErrorStep
  BY <1>1 DEF Interpret, ErrorStep
<1>2. CASE InterpretLoop
  BY <1>2 DEF InterpretLoop, ErrorStep, Failing, sessionVars
<1>3. CASE InterpretError
  BY <1>3 DEF InterpretError, library_runtime_error, ErrorStep
<1>4. CASE InterpretReturn
  <2>1. ctl.tag \notin Failing
    BY <1>4 DEF InterpretReturn, Failing
  <2>. QED
    BY <1>4, <2>1 DEF InterpretReturn, ErrorStep, sessionVars
<1>5. CASE VisitLiteral \/ VisitGrouping \/ lox_clock \/ CallFunction
  BY <1>5 DEF VisitLiteral, VisitGrouping, VisitingExpr, lox_clock, CallFunction, EnterBlock,
              ErrorStep, Failing, sessionVars
<1>6. CASE StackOverflow
  <2>1. ctl.tag \notin Failing
    BY <1>6 DEF StackOverflow, Failing
  <2>. QED
    BY <1>6, <2>1 DEF StackOverflow, ErrorStep, sessionVars
<1>7. CASE VisitVariable
  <2>1. ctl.tag \notin Failing
    BY <1>7 DEF VisitVariable, VisitingExpr, Failing
  <2>. QED
    BY <1>7, <2>1, ResultIsErrorStep DEF VisitVariable, sessionVars
<1>8. CASE VisitAssign \/ VisitBinary \/ VisitLogical \/ VisitUnary \/ VisitCall
  BY <1>8 DEF VisitAssign, VisitBinary, VisitLogical, VisitUnary, VisitCall, VisitingExpr, Await,
              ErrorStep, Failing, sessionVars
<1>9. CASE VisitExpression \/ VisitPrint \/ VisitIf \/ VisitWhile \/ VisitReturn \/ VisitVar
  BY <1>9 DEF VisitExpression, VisitPrint, VisitIf, VisitWhile, VisitReturn, VisitVar,
              VisitingStmt, Await, ErrorStep, Failing, sessionVars
<1>10. CASE VisitFunction \/ VisitBlock
  BY <1>10 DEF VisitFunction, VisitBlock, VisitingStmt, EnterBlock, ErrorStep, Failing, sessionVars
<1>11. CASE AssignValue
  <2>1. CASE ExprFails
    BY <2>1, FailIsErrorStep
  <2>2. CASE ctl.tag = "ok"
    <3>0. ctl.tag \notin Failing
      BY <2>2 DEF Failing
    <3>1. CASE Result(INTERPRET_ERROR("undefined variable"))
      BY <1>11, <3>0, <3>1, ResultIsErrorStep DEF AssignValue, sessionVars
    <3>2. CASE UNCHANGED <<ctl, raised>>
      BY <1>11, <3>0, <3>2 DEF AssignValue, ErrorStep, sessionVars
    <3>3. ~ExprFails
      BY <2>2 DEF ExprFails
    <3>. QED
      BY <1>11, <3>1, <3>2, <3>3 DEF AssignValue
  <2>. QED
    BY <1>11, <2>1, <2>2 DEF AssignValue
<1>12. CASE BinaryLeft
  <2>1. CASE ExprFails
    BY <2>1, FailIsErrorStep
  <2>2. CASE ~ExprFails
    BY <1>12, <2>2 DEF BinaryLeft, ErrorStep, Failing, sessionVars
  <2>. QED
    BY <2>1, <2>2
<1>13. CASE BinaryRight \/ UnaryRight
  <2>1. CASE ExprFails
    BY <2>1, FailIsErrorStep
  <2>2. CASE ~ExprFails
    <3>1. ctl.tag \notin Failing
      BY <1>13, <2>2 DEF BinaryRight, UnaryRight, Failing
    <3>. QED
      BY <1>13, <2>2, <3>1, ResultIsErrorStep DEF BinaryRight, UnaryRight, sessionVars
  <2>. QED
    BY <2>1, <2>2
<1>14. CASE LogicalLeft
  <2>1. CASE ExprFails
    BY <2>1, FailIsErrorStep
  <2>2. CASE ~ExprFails
    BY <1>14, <2>2 DEF LogicalLeft, ErrorStep, Failing, sessionVars
  <2>. QED
    BY <2>1, <2>2
<1>15. CASE CallOperand
  <2>1. CASE ExprFails
    BY <2>1, FailIsErrorStep
  <2>2. CASE ~ExprFails
    <3>1. ctl.tag \notin Failing /\ UNCHANGED HadRuntimeError
      BY <1>15, <2>2 DEF CallOperand, Failing, sessionVars
    <3>2. CASE UNCHANGED raised
      BY <3>1, <3>2 DEF ErrorStep
    <3>3. ASSUME NEW r, Result(r)
          PROVE  ErrorStep
      BY <3>1, <3>3, ResultIsErrorStep
    <3>. QED
      BY <1>15, <2>2, <3>2, <3>3 DEF CallOperand
  <2>. QED
    BY <2>1, <2>2
<1>16. CASE CallReturns
  <2>1. CASE ctl.tag = "runtime_error"
    BY <1>16, <2>1, MessageTags DEF CallReturns, ErrorStep, Failing
  <2>2. CASE ctl.tag # "runtime_error"
    BY <1>16, <2>2 DEF CallReturns, ErrorStep, Failing, sessionVars
  <2>. QED
    BY <2>1, <2>2
<1>17. CASE BlockLoop
  BY <1>17 DEF BlockLoop, ErrorStep, Failing, sessionVars
<1>18. CASE BlockExit
  BY <1>18 DEF BlockExit, ErrorStep, Failing, sessionVars
<1>19. CASE ExpressionValue \/ ReturnValue \/ IfCondition \/ VarValue \/ WhileCondition
  <2>1. CASE StmtFails
    BY <2>1, FailIsErrorStep
  <2>2. CASE ~StmtFails
    <3>1. ctl.tag = "ok" /\ \E r : Result(r)
      BY <1>19, <2>2 DEF ExpressionValue, ReturnValue, IfCondition, VarValue, WhileCondition
    <3>2. UNCHANGED HadRuntimeError
      BY <1>19 DEF ExpressionValue, ReturnValue, IfCondition, VarValue, WhileCondition, sessionVars
    <3>. QED
      BY <3>1, <3>2, ResultIsErrorStep DEF Failing
  <2>. QED
    BY <2>1, <2>2
<1>20. CASE PrintValue
  <2>1. CASE StmtFails
    BY <2>1, FailIsErrorStep
  <2>2. CASE ~StmtFails
    <3>1. ctl.tag = "ok" /\ \E r : Result(r)
      BY <1>20, <2>2 DEF PrintValue
    <3>2. UNCHANGED HadRuntimeError
      BY <1>20 DEF PrintValue
    <3>. QED
      BY <3>1, <3>2, ResultIsErrorStep DEF Failing
  <2>. QED
    BY <2>1, <2>2
<1>21. CASE WhileBody
  BY <1>21 DEF WhileBody, ErrorStep, Failing, sessionVars
<1>22. CASE UNCHANGED vars
  BY <1>22 DEF vars, ErrorStep, Failing
<1>. QED
  BY <1>1, <1>2, <1>3, <1>4, <1>5, <1>6, <1>7, <1>8, <1>9, <1>10, <1>11, <1>12, <1>13, <1>14,
     <1>15, <1>16, <1>17, <1>18, <1>19, <1>20, <1>21, <1>22 DEF Step, Run

LEMMA StepFlag ==
  ASSUME FlagInv, Step
  PROVE  FlagInv'
<1>1. ASSUME NEW statements, Interpret(statements)
      PROVE  FlagInv'
  BY <1>1 DEF Interpret, FlagInv
<1>2. CASE InterpretLoop \/ InterpretError \/ InterpretReturn \/ VisitLiteral \/ VisitGrouping
           \/ lox_clock \/ StackOverflow \/ CallReturns \/ BlockLoop \/ BlockExit
  BY <1>2 DEF InterpretLoop, InterpretError, InterpretReturn, VisitLiteral, VisitGrouping,
              lox_clock, StackOverflow, CallReturns, BlockLoop, BlockExit, FlagInv
<1>3. CASE VisitAssign \/ VisitBinary \/ VisitLogical \/ VisitUnary \/ VisitCall
           \/ VisitExpression \/ VisitPrint \/ VisitIf \/ VisitWhile \/ VisitReturn \/ VisitVar
  BY <1>3 DEF VisitAssign, VisitBinary, VisitLogical, VisitUnary, VisitCall, VisitExpression,
              VisitPrint, VisitIf, VisitWhile, VisitReturn, VisitVar, Await, FlagInv
<1>4. CASE CallFunction \/ VisitBlock \/ VisitFunction
  BY <1>4 DEF CallFunction, VisitBlock, VisitFunction, EnterBlock, FlagInv
<1>5. ASSUME NEW r, Result(r)
      PROVE  FlagInv'
  BY <1>5 DEF Result, FlagInv
<1>6. CASE UNCHANGED raised
  BY <1>6 DEF FlagInv
<1>7. CASE VisitVariable
  BY <1>5, <1>7 DEF VisitVariable
<1>8. CASE AssignValue \/ BinaryLeft \/ BinaryRight \/ LogicalLeft \/ UnaryRight
  <2>1. UNCHANGED raised \/ \E r : Result(r)
    BY <1>8 DEF AssignValue, BinaryLeft, BinaryRight, LogicalLeft, UnaryRight, ExprFails
  <2>. QED
    BY <1>5, <1>6, <2>1
<1>9. CASE CallOperand
  <2>1. UNCHANGED raised \/ \E r : Result(r)
    BY <1>9 DEF CallOperand, ExprFails
  <2>. QED
    BY <1>5, <1>6, <2>1
<1>10. CASE ExpressionValue \/ PrintValue \/ ReturnValue \/ IfCondition \/ VarValue \/ WhileCondition
  <2>1. UNCHANGED raised \/ \E r : Result(r)
    BY <1>10 DEF ExpressionValue, PrintValue, ReturnValue, IfCondition, VarValue, WhileCondition,
                 StmtFails
  <2>. QED
    BY <1>5, <1>6, <2>1
<1>11. CASE WhileBody
  BY <1>11 DEF WhileBody, FlagInv
<1>12. CASE UNCHANGED vars
  BY <1>6, <1>12 DEF vars
<1>. QED
  BY <1>1, <1>2, <1>3, <1>4, <1>7, <1>8, <1>9, <1>10, <1>11, <1>12 DEF Step, Run

LEMMA StepErrorsPropagate ==
  ASSUME FlagInv, ErrorsPropagate, Step
  PROVE  FlagInv' /\ ErrorsPropagate'
<1>1. FlagInv'
  BY StepFlag
<1>2. ErrorStep
  BY StepErrors
<1>3. ErrorsPropagate'
  BY <1>2 DEF ErrorStep, ErrorsPropagate, Failing
<1>. QED
  BY <1>1, <1>3

(* A runtime error, once created, is the only thing the interpreter deals  *)
(* with until library_runtime_error has it, whatever was in progress; the  *)
(* while loop is the one place where it can be lost.                       *)
THEOREM ErrorsReachTheTop == Spec => []ErrorsPropagate
<1> DEFINE Inv == FlagInv /\ ErrorsPropagate
<1>1. Init => Inv
  BY DEF Init, FlagInv, ErrorsPropagate
<1>2. Inv /\ [Next]_vars => Inv'
  BY NextSteps, StepErrorsPropagate
<1>. QED
  BY <1>1, <1>2, PTL DEF Spec

-----------------------------------------------------------------------------
(* Calls.                                                                  *)

(* "arity was checked, so this is OK": interpreter_call reads one argument *)
(* per parameter of a callee that is a function.                           *)
ArityChecked ==
  ctl.tag = "call" =>
    /\ IsCallable(ctl.callee)
    /\ object_arity(ctl.callee) = Len(ctl.arguments)

(* A step that leaves a call behind has checked it, or found it there.     *)
CallStep ==
  \/ ctl'.tag # "call"
  \/ ctl' = ctl
  \/ ArityChecked'

LEMMA StepCalls ==
  ASSUME Step
  PROVE  CallStep
<1>1. ASSUME NEW statements, Interpret(statements)
      PROVE  CallStep
  BY <1>1 DEF Interpret, EXECUTION_RESULT_NONE, CallStep
<1>2. CASE InterpretLoop \/ InterpretError
  BY <1>2 DEF InterpretLoop, InterpretError, Idle, Execute, CallStep
<1>3. CASE InterpretReturn \/ StackOverflow
  BY <1>3, MessageTags DEF InterpretReturn, StackOverflow, CallStep
<1>4. CASE VisitLiteral \/ VisitGrouping \/ lox_clock
  BY <1>4 DEF VisitLiteral, VisitGrouping, lox_clock, INTERPRET_OK, Success, Evaluate, CallStep
<1>5. CASE VisitVariable
  <2>1. \/ ctl' = INTERPRET_ERROR("undefined variable")
        \/ ctl' = INTERPRET_OK(environment_get(envs, environment, ctl.expr.name))
    BY <1>5 DEF VisitVariable, Result
  <2>2. INTERPRET_OK(environment_get(envs, environment, ctl.expr.name)).tag = "ok"
    BY DEF INTERPRET_OK, Success
  <2>. QED
    BY <2>1, <2>2, MessageTags DEF CallStep
<1>6. CASE VisitAssign \/ VisitBinary \/ VisitLogical \/ VisitUnary \/ VisitCall
           \/ VisitExpression \/ VisitPrint \/ VisitIf \/ VisitWhile
  BY <1>6 DEF VisitAssign, VisitBinary, VisitLogical, VisitUnary, VisitCall, VisitExpression,
              VisitPrint, VisitIf, VisitWhile, Await, Evaluate, CallStep
<1>7. CASE VisitReturn \/ VisitVar
  BY <1>7 DEF VisitReturn, VisitVar, Await, Evaluate, EXECUTION_RESULT_RETURN,
              EXECUTION_RESULT_NONE, CallStep
<1>8. CASE CallFunction \/ VisitBlock \/ VisitFunction
  BY <1>8 DEF CallFunction, VisitBlock, VisitFunction, EnterBlock, EXECUTION_RESULT_NONE, CallStep
<1>9. CASE AssignValue
  <2>1. ctl' = ctl \/ ctl' = INTERPRET_ERROR("undefined variable")
    BY <1>9 DEF AssignValue, ExprFails, Result
  <2>. QED
    BY <2>1, MessageTags DEF CallStep
<1>10. CASE BinaryLeft
  BY <1>10 DEF BinaryLeft, ExprFails, Evaluate, CallStep
<1>11. CASE BinaryRight
  BY <1>11, BinaryResultTag DEF BinaryRight, ExprFails, Result, CallStep
<1>12. CASE LogicalLeft
  BY <1>12 DEF LogicalLeft, ExprFails, Evaluate, CallStep
<1>13. CASE UnaryRight
  BY <1>13, UnaryResultTag DEF UnaryRight, ExprFails, Result, CallStep
<1>14. CASE CallOperand
  <2> DEFINE objects == Append(Top.objects, ctl.value)
             callee == Head(objects)
             arguments == Tail(objects)
  <2>1. CASE ExprFails
    BY <2>1 DEF ExprFails, CallStep
  <2>2. CASE ~ExprFails /\ Len(arguments) < Len(Top.node.arguments)
    BY <1>14, <2>2 DEF CallOperand, Evaluate, CallStep
  <2>3. CASE ~ExprFails /\ ~(Len(arguments) < Len(Top.node.arguments))
    <3>1. \/ ctl' = INTERPRET_ERROR("can only call functions")
          \/ ctl' = INTERPRET_ERROR("wrong number of arguments")
          \/ /\ ctl' = Call(callee, arguments)
             /\ IsCallable(callee)
             /\ object_arity(callee) = Len(arguments)
      <4>. HIDE DEF objects
      <4>. QED
        BY <1>14, <2>3 DEF CallOperand, Result, objects
    <3>2. CASE /\ ctl' = Call(callee, arguments)
               /\ IsCallable(callee)
               /\ object_arity(callee) = Len(arguments)
      <4>. HIDE DEF objects
      <4>1. ctl'.callee = callee /\ ctl'.arguments = arguments
        BY <3>2 DEF Call
      <4>. QED
        BY <3>2, <4>1 DEF ArityChecked, CallStep
    <3>. QED
      BY <3>1, <3>2, MessageTags DEF CallStep
  <2>. QED
    BY <2>1, <2>2, <2>3
<1>15. CASE CallReturns
  <2>1. INTERPRET_ERROR(ctl.error).tag = "error"
    BY MessageTags
  <2>2. INTERPRET_OK(ctl.value).tag = "ok" /\ INTERPRET_OK(OBJECT_NULL).tag = "ok"
    BY DEF INTERPRET_OK, Success
  <2>. QED
    BY <1>15, <2>1, <2>2 DEF CallReturns, CallStep
<1>16. CASE BlockLoop \/ BlockExit
  BY <1>16 DEF BlockLoop, BlockExit, Execute, CallStep
<1>17. CASE ExpressionValue \/ ReturnValue \/ VarValue
  BY <1>17 DEF ExpressionValue, ReturnValue, VarValue, StmtFails, Result, EXECUTION_RESULT_NONE,
               EXECUTION_RESULT_RETURN, EXECUTION_RESULT_RUNTIME_ERROR, CallStep
<1>18. CASE PrintValue
  <2>1. \/ ctl' = EXECUTION_RESULT_RUNTIME_ERROR(ctl.error)
        \/ ctl' = EXECUTION_RESULT_NONE
        \/ ctl' = Abort("stringify: impossible object type")
    BY <1>18 DEF PrintValue, StmtFails, Result
  <2>2. /\ EXECUTION_RESULT_RUNTIME_ERROR(ctl.error).tag = "runtime_error"
        /\ EXECUTION_RESULT_NONE.tag = "none"
    BY DEF EXECUTION_RESULT_NONE, EXECUTION_RESULT_RUNTIME_ERROR
  <2>. QED
    BY <2>1, <2>2, MessageTags DEF CallStep
<1>19. CASE IfCondition \/ WhileCondition
  BY <1>19 DEF IfCondition, WhileCondition, StmtFails, Result, Execute, EXECUTION_RESULT_NONE,
               EXECUTION_RESULT_RUNTIME_ERROR, CallStep
<1>20. CASE WhileBody
  BY <1>20 DEF WhileBody, Evaluate, CallStep
<1>21. CASE UNCHANGED vars
  BY <1>21 DEF vars, CallStep
<1>. QED
  BY <1>1, <1>2, <1>3, <1>4, <1>5, <1>6, <1>7, <1>8, <1>9, <1>10, <1>11, <1>12, <1>13, <1>14,
     <1>15, <1>16, <1>17, <1>18, <1>19, <1>20, <1>21 DEF Step, Run
=============================================================================

--------------------------------- MODULE Meaning ---------------------------------
(***************************************************************************)
(* What a program without functions means, read off its tree: a reference  *)
(* that knows scopes, branches and loops, and neither bytecode, registers, *)
(* jumps nor a stack.  Only what an operator makes of two values is taken  *)
(* from the machine.                                                       *)
(***************************************************************************)
EXTENDS Tige, SequencesExt

CONSTANTS MaxRounds   \* rounds of a loop after which nothing is claimed

-----------------------------------------------------------------------------
\* The position after the n subtrees that begin at k.
RECURSIVE After(_, _)
After(k, n) == IF n = 0 THEN k ELSE After(k + 1, n - 1 + written[k].arity)

Child(k, i) == After(k + 1, i - 1)

(* In place of a value: the program has failed or exited, or goes on in a way the
   tree says nothing about (a variable whose declaration was not executed, the
   digits of floats, a negation, a function). *)
Ends(why)   == [type |-> "ends", v |-> why]
Unspecified == Ends("unspecified")
IsEnd(v)    == v.type = "ends"

\* An environment: what the names in scope are bound to, the innermost scope first.
NoNames             == [n \in {} |-> Unspecified]
ScopeOf(env, n)     == SelectInSeq(env, LAMBDA scope : n \in DOMAIN scope)
ValueOf(env, n)     == env[ScopeOf(env, n)][n]
Assigned(env, n, v) == [env EXCEPT ![ScopeOf(env, n)][n] = v]
Bound(env, n, v)    == << [m \in DOMAIN Head(env) \union {n} |->
                            IF m = n THEN v ELSE Head(env)[m]] >> \o Tail(env)

-----------------------------------------------------------------------------
\* The left operand is computed first.
Combined(op, a, b) ==
  LET results == BinaryResults(op, a, b) IN
  CASE IsEnd(a)            -> a
    [] ~IsEnd(a) /\ IsEnd(b) -> b
    [] OTHER -> IF op = "OP_DIV" /\ b.type = "VAL_FLOAT" THEN Unspecified
                ELSE IF results = {} THEN Ends("failed")
                ELSE IF Cardinality(results) > 1 THEN Unspecified
                ELSE CHOOSE v \in results : TRUE

\* What depends on a condition.
Decided(v, yes, no) ==
  CASE IsEnd(v)              -> v
    [] v = make_bool(TRUE)   -> yes
    [] v = make_bool(FALSE)  -> no
    [] OTHER                 -> Ends("failed")

\* The value of the expression at k.
RECURSIVE Evaluated(_, _)
Evaluated(k, env) ==
  LET node == written[k]
      At(i) == Evaluated(Child(k, i), env)
  IN CASE node.kind = "integer" -> make_int(node.n)
       [] node.kind = "bool"    -> make_bool(node.n = 1)
       [] node.kind = "string"  -> make_string(0)
       [] node.kind = "float"   -> make_float
       [] node.kind = "symbol"  -> ValueOf(env, node.name)
       [] node.kind = "binary"  -> Combined(node.name, At(1), At(2))
       [] node.kind = "not"     -> Decided(At(1), make_bool(FALSE), make_bool(TRUE))
       [] node.kind = "ternary" -> Decided(At(1), At(2), At(3))
       [] node.kind = "call" /\ node.name = "print" ->
            LET v == At(1) IN
            IF IsEnd(v) THEN v ELSE IF v.type = "VAL_STRING" THEN make_null ELSE Ends("exited")
       [] OTHER -> Unspecified

-----------------------------------------------------------------------------
\* A program so far: its environment, and why it has ended.
Going(env)      == [env |-> env, end |-> ""]
Ended(env, why) == [env |-> env, end |-> why]
Unless(v, p)    == IF IsEnd(v) THEN Ended(p.env, v.v) ELSE p

Within(env)  == << NoNames >> \o env
Leaving(p)   == [p EXCEPT !.env = Tail(@)]

(* A skipped statement declares its names too, without a value: blocks open no
   scope, so they stay in scope where the branch was not taken. *)
RECURSIVE Skipped(_, _)
Skipped(k, env) ==
  LET node == written[k] IN
  CASE node.kind \in {"let", "no_value"} -> Bound(env, node.name, Unspecified)
    [] node.kind = "block" -> Skipped(Child(k, 1), env)
    [] node.kind = "more"  -> Skipped(Child(k, 2), Skipped(Child(k, 1), env))
    [] OTHER               -> env

RECURSIVE Executed(_, _), Looped(_, _, _, _)
Executed(k, env) ==
  LET node == written[k]
      AndThen(p, i) == IF p.end = "" THEN Executed(Child(k, i), p.env) ELSE p
  IN CASE node.kind = "end"   -> Going(env)
       [] node.kind = "no_else" -> Going(env)
       [] node.kind = "more"  -> AndThen(Executed(Child(k, 1), env), 2)
       [] node.kind = "block" -> Executed(Child(k, 1), env)
       [] node.kind = "let"   ->
            LET declared == Bound(env, node.name, Unspecified)
                v == Evaluated(Child(k, 1), declared)
            IN Unless(v, Going(Bound(declared, node.name, v)))
       [] node.kind = "expression" ->
            LET e == Child(k, 1)
                assigned == written[e].kind = "assign"
                v == Evaluated(IF written[e].kind \in {"assign", "assign_other"}
                               THEN Child(e, 1) ELSE e, env)
            IN Unless(v, Going(IF assigned THEN Assigned(env, written[e].name, v) ELSE env))
       [] node.kind = "if" ->
            LET inner == Within(env)
                v == Evaluated(Child(k, 1), inner)
            IN Leaving(Unless(Decided(v, v, v),
                 IF v = make_bool(TRUE) THEN Executed(Child(k, 2), inner)
                 ELSE Executed(Child(k, 3), Skipped(Child(k, 2), inner))))
       [] node.kind = "for" ->
            LET declared == Bound(Within(env), node.name, Unspecified)
                from     == Evaluated(Child(k, 1), declared)
                started  == Bound(declared, node.name, from)
                to       == Evaluated(Child(k, 2), started)
            IN Leaving(Unless(from, Unless(to, Looped(k, started, to, MaxRounds))))
       [] OTHER -> Ended(env, "unspecified")

(* The rounds of the loop at k: its end was computed once, the names its body
   declares are new in every round, and its variable is counted up. *)
Looped(k, env, to, rounds) ==
  LET n    == written[k].name
      on   == Combined("OP_LESS_THAN", Head(env)[n], to)
      body == Executed(Child(k, 3), env)
      i    == Head(body.env)[n]
      next == << [m \in {n} |-> IF i.type = "VAL_INT" THEN make_int(i.v + 1) ELSE i] >>
              \o Tail(body.env)
  IN IF rounds = 0 THEN Ended(env, "unspecified")
     ELSE Unless(on, IF on = make_bool(FALSE) THEN Going(env)
                     ELSE IF body.end # "" THEN body
                     ELSE Looped(k, next, to, rounds - 1))

-----------------------------------------------------------------------------
Program == Executed(1, << NoNames >>)

(* A program ends the way its text says, and if it comes to its end, every
   global variable has the value its text says: whatever registers, chunks, jumps
   and stack heights the compiler and the machine used for it.  About programs
   the compiler had nothing to say about. *)
DoesWhatIsWritten ==
  status \notin {"off", "running"} /\ ~reported =>
    \/ Program.end = "unspecified"
    \/ /\ status = IF Program.end = "" THEN "halted" ELSE Program.end
       /\ status = "halted" =>
            \A y \in Innermost(symbols).symbols :
              y.type = "variable" =>
                LET v == Program.env[1][y.name]
                IN v = Unspecified \/ vm.registers[y.index] = v

-----------------------------------------------------------------------------
(* In the program every declaration has its value, and assignments are statements
   and never operands.  "let a = ;" parses and stores what it did not compute
   (compiler.c:522), and the inner assignment of "a = b = 1;" leaves no value for
   the outer one to store (compiler.c:311): these two pop an empty stack. *)
OperandsGiven ==
  \A k \in DOMAIN written :
    /\ written[k].kind # "no_value"
    /\ written[k].kind = "assign" => written[k - 1].kind = "expression"

(* In such programs the handlers that pop without looking at the height of the
   stack find a value: no register and no format string is taken from an unset
   Value.  It says nothing once a negation was reached: the machine goes on with
   the bytes of its 0 as opcodes (compiler.c:241), and the model stops there. *)
OperandsPresent ==
  Running /\ Decodable /\ OperandsGiven
    /\ (Fetched.op \in {"OP_POP", "OP_STORE_VAR"} \/ Fetched = Call("print"))
  => vm.sp > 0
=============================================================================

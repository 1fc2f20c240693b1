----------------------------- MODULE LolaTypes -----------------------------
(***************************************************************************)
(* The type checker of lang/dynamic_lola/type_checker.rs.  Checking an     *)
(* expression gives its type, "Err" (the code's Err(())), or "Panic" where *)
(* the code reaches a todo!(), with the number of errors it has reported.  *)
(***************************************************************************)
EXTENDS LolaExpr

Result(type, errs) == [type |-> type, errs |-> errs]

RECURSIVE TypeCheckRaw(_, _)

\* type_check_raw of SExpr: operands first, each reporting its own errors; an
\* error of an operand is passed on without another report.
TypeCheckRaw(e, ctx) ==
  LET checks == [i \in DOMAIN e.args |-> TypeCheckRaw(e.args[i], ctx)]
      types == [i \in DOMAIN e.args |-> checks[i].type]
      errs == FoldLeft(LAMBDA n, c : n + c.errs, 0, checks)
      type == TypeOfNode(e, types, ctx)
  IN Result(type, errs + IF type = "Err" /\ "Err" \notin ToSet(types) THEN 1 ELSE 0)

\* type_check: every assignment under the annotations; accepted when no error
\* was reported.  The type of an assignment is not compared with the annotation
\* of its variable, and an accepted specification unwraps every check.
TypeCheck(spec) ==
  LET checks == [v \in DOMAIN spec.exprs |-> TypeCheckRaw(spec.exprs[v], spec.types)]
  IN IF \E v \in DOMAIN checks : checks[v].type = "Panic" THEN "panic"
     ELSE IF \E v \in DOMAIN checks : checks[v].errs > 0 THEN "rejected"
     ELSE IF \E v \in DOMAIN checks : checks[v].type = "Err" THEN "panic"
     ELSE "accepted"
=============================================================================

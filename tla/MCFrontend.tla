----------------------------- MODULE MCFrontend -----------------------------
(* Programs of a few variables for Frontend. *)
EXTENDS Frontend, TLC

Variable(kind, width, signed) == [kind |-> kind, width |-> width, isSigned |-> signed]

One == << <<1>> >>
Pair == << <<1, 0>> >>
Two == << <<1>>, <<0>> >>
TwoPairs == << <<1, 0>>, <<0, 1>> >>

Program(variables, inputs, maxBatch) ==
  [variables |-> variables, maxBatch |-> maxBatch,
   inputs |-> [x \in DOMAIN variables |->
                 {v \in inputs : Len(v) = IF variables[x].kind = "Bit" THEN 1 ELSE 2}]]

MCSetups == {
  Program("b" :> Variable("Bit", 1, FALSE) @@ "c" :> Variable("Bit", 1, FALSE), {One, Pair}, 2),
  Program("b" :> Variable("Bit", 1, FALSE) @@ "i" :> Variable("Int", 2, TRUE), {One, Two}, 1),
  Program("i" :> Variable("Int", 2, TRUE) @@ "j" :> Variable("Int", 2, TRUE), {Two, TwoPairs}, 2),
  Program("i" :> Variable("Int", 2, TRUE) @@ "k" :> Variable("Int", 3, TRUE), {Two}, 1),
  Program("i" :> Variable("Int", 2, FALSE) @@ "k" :> Variable("Int", 3, FALSE), {Two}, 1),
  Program("b" :> Variable("Bit", 1, FALSE) @@ "s" :> Variable("BitString", 2, FALSE),
          {One, Pair, Two}, 2)}
=============================================================================

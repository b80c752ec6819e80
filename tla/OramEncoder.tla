----------------------------- MODULE OramEncoder -----------------------------
(***************************************************************************)
(* The encoder that gives the breakdowns of a computation, tuples of       *)
(* numbers, consecutive indices into an ORAM, and the decoder              *)
(* (fbpcf/mpc_std_lib/oram/encoder).  Tuples that do not pass the filters  *)
(* share an index.                                                         *)
(***************************************************************************)
EXTENDS Circuits, TLC

InitialEncoder ==
  [breakdownMapping |-> << >>, wasAnyRowFiltered |-> FALSE, filteredValuesIndex |-> 0,
   currentIndex |-> 0]

(* SingleValueFilter and VectorValueFilter, whose values are a set. *)
apply(filter, breakdownValues) ==
  LET v == breakdownValues[filter.columnIndex]
  IN  CASE filter.type = "GT"  -> v > filter.value
        [] filter.type = "LT"  -> v < filter.value
        [] filter.type = "GTE" -> v >= filter.value
        [] filter.type = "LTE" -> v <= filter.value
        [] filter.type = "EQ"  -> v = filter.value
        [] filter.type = "NEQ" -> v # filter.value
        [] filter.type = "SUBSET_OF"     -> v \in filter.values
        [] filter.type = "NOT_SUBSET_OF" -> v \notin filter.values

(* The first filter that does not let the tuple pass; it throws when the   *)
(* tuple has no such column, and the tuples before it stay encoded.        *)
generateORAMIndexes(encoder, filters, tuples) ==
  LET short(f, tuple) == Len(tuple) < filters[f].columnIndex
      stops(tuple) == {f \in DOMAIN filters : short(f, tuple) \/ ~apply(filters[f], tuple)}
      new(e) == [e EXCEPT !.currentIndex = @ + 1]
      filtered(e) == IF e.wasAnyRowFiltered THEN e
                     ELSE [new(e) EXCEPT !.wasAnyRowFiltered = TRUE,
                                         !.filteredValuesIndex = e.currentIndex]
      known(e, tuple) == IF tuple \in DOMAIN e.breakdownMapping THEN e
                         ELSE [new(e) EXCEPT !.breakdownMapping =
                                               (tuple :> e.currentIndex) @@ @]
      encode(s, tuple) ==
        LET e == IF stops(tuple) = {} THEN known(s.encoder, tuple) ELSE filtered(s.encoder)
            index == IF stops(tuple) = {} THEN e.breakdownMapping[tuple] ELSE e.filteredValuesIndex
        IN  CASE s.thrown -> s
              [] ~s.thrown /\ stops(tuple) # {} /\ short(Min(stops(tuple)), tuple) ->
                   [s EXCEPT !.thrown = TRUE]
              [] OTHER -> [s EXCEPT !.encoder = e, !.rst = Append(@, index)]
      all == FoldLeft(encode, [encoder |-> encoder, rst |-> <<>>, thrown |-> FALSE], tuples)
  IN  [encoder |-> all.encoder, rst |-> IF all.thrown THEN Throws ELSE all.rst]

(* OramDecoder: the index of the filtered tuples stands for none of them. *)
OramDecoder(encoder) ==
  LET mapping == encoder.breakdownMapping
  IN  (IF encoder.wasAnyRowFiltered THEN encoder.filteredValuesIndex :> <<>> ELSE << >>)
      @@ [index \in Range(mapping) |-> CHOOSE tuple \in DOMAIN mapping : mapping[tuple] = index]

decodeORAMIndexes(decoder, oramIndexes) ==
  IF Range(oramIndexes) \subseteq DOMAIN decoder
  THEN [i \in DOMAIN oramIndexes |-> decoder[oramIndexes[i]]] ELSE Throws
==============================================================================

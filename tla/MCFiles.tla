------------------------------- MODULE MCFiles ------------------------------
(* Files of up to four characters, of two letters and new lines, read and  *)
(* transferred with buffers of up to three.                                *)
EXTENDS Files

CONSTANT MaxLength
Texts == UNION {[1..n -> {"x", Newline}] : n \in 0..MaxLength}
(* So that a part of the file tells where it is from. *)
Marked(text) == [i \in DOMAIN text |-> IF text[i] = Newline THEN Newline ELSE i]

MCSetups ==
  [source : {Marked(t) : t \in Texts}, cloud : BOOLEAN, readSize : 1..3, call : {"readFile"},
   storage : {"local"}, writeSize : {1}]
  \cup [source : {Marked(t) : t \in Texts}, cloud : {TRUE}, readSize : {2},
        call : {"transferFileInParts"}, storage : {"S3", "GCS", "local"}, writeSize : 1..3]
=============================================================================

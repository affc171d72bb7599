------------------------------ MODULE MCKesctl ------------------------------
(***************************************************************************)
(* Responses with nested objects, with braces in their strings (which the  *)
(* counts of braces get wrong), and one that is longer than the limit.     *)
(***************************************************************************)
EXTENDS Kesctl

CONSTANT Text

TestResponses ==
  {<<Open, Text, Close>>,
   <<Open, Text, Open, Text, Close, Close>>,
   <<Open, Open, Close, Open, Close, Text, Close>>,
   <<Open, Close, Text, Close>>,
   <<Open, Open, Text, Close>>,
   <<Text, Open, Close>>,
   <<Open, Text, Text, Text, Text, Text, Text, Close>>}
=============================================================================

--------------------------- MODULE MessageFramer ---------------------------
(***************************************************************************)
(* What a session does with the bytes of its connection.  The stream is    *)
(* cut where a chunk ends with every brace closed: what came since the     *)
(* last cut, any text without braces included, is one request.  A stream   *)
(* that closes more than it opened, or grows beyond the bound between two  *)
(* cuts, is given up.                                                      *)
(***************************************************************************)
EXTENDS Integers, Sequences, FiniteSets

CONSTANTS
  Bytes,   \* the values a byte can have
  Open,    \* '{'
  Close,   \* '}'
  Bound    \* the number of bytes a request can have

VARIABLES
  pending,  \* the bytes since the last cut
  request,  \* the last request handed on
  verdict   \* what came of the last chunk: "more", "request" or "abort"

vars == <<pending, request, verdict>>

-----------------------------------------------------------------------------
Count(byte, s, n) == Cardinality({i \in 1..n : s[i] = byte})

(* The nesting depth after the first n bytes of s.                         *)
Depth(s, n) == Count(Open, s, n) - Count(Close, s, n)

Opened(s) == \E i \in DOMAIN s : s[i] = Open

Nested(s) == \A n \in 0..Len(s) : Depth(s, n) >= 0

-----------------------------------------------------------------------------
Init ==
  /\ pending = << >>
  /\ request = << >>
  /\ verdict = "more"

Receive(data) ==
  LET s == pending \o data
      acceptable == Len(s) <= Bound /\ Nested(s)
      complete == Depth(s, Len(s)) = 0 /\ Opened(s)
  IN  \/ /\ ~acceptable
         /\ pending' = << >>
         /\ verdict' = "abort"
         /\ UNCHANGED request
      \/ /\ acceptable /\ complete
         /\ pending' = << >>
         /\ verdict' = "request"
         /\ request' = s
      \/ /\ acceptable /\ ~complete
         /\ pending' = s
         /\ verdict' = "more"
         /\ UNCHANGED request

Next == \E data \in Seq(Bytes) : Receive(data)

Spec == Init /\ [][Next]_vars
=============================================================================

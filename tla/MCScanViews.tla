---------------------------- MODULE MCScanViews ----------------------------
(* Caps around the boundary: a zero cap, a cap a frame meets exactly, one  *)
(* no usize holds (7 > MaxUsize), and the layer's own.  Queries: every     *)
(* string of up to three characters, and longer ones that end in a cut or  *)
(* a bad escape, escape a percent sign, a plus or a separator, or leave a  *)
(* part empty.                                                             *)
EXTENDS ScanViews

MCRouteCaps == {0, 2, 3, 7}
MCFrameSizes == {0, 1, 2, 3}

MCHexDigits == {"2", "5", "6", "b"}
MCChars == {"%", "+", "&", "=", "z"} \cup MCHexDigits

\* The bytes of ASCII the instance can write, the others by their digits:
\* from_utf8_lossy replaces a lone byte past ASCII.
MCByteOf ==
  [d \in (MCHexDigits \cup {"+"}) \X MCHexDigits |->
     CASE d = <<"2", "5">> -> "%"
       [] d = <<"2", "b">> -> "+"
       [] d = <<"2", "6">> -> "&"
       [] d[1] = "b" -> "replacement"
       [] OTHER -> d[1] \o d[2]]

Short == UNION {[1 .. n -> MCChars] : n \in 0 .. 3}
Long ==
  {<<"%", "2", "5", "2", "b">>, <<"%", "2", "b", "+">>, <<"%", "%", "2", "5">>,
   <<"%", "+", "5", "z">>, <<"%", "2", "z", "%", "2">>, <<"z", "%", "b", "b">>,
   <<"z", "%", "2", "6", "=">>, <<"z", "&", "&", "=", "z">>, <<"z", "=", "=", "%">>,
   <<"+", "=", "%", "5", "+", "&", "z">>, <<"%", "2", "%", "2", "5">>}
MCQueries == Short \cup Long

MCHeaders == [name : {"host", "sec-", "x"}, text : BOOLEAN]
=============================================================================

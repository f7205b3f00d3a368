----------------------------- MODULE ScanViews -----------------------------
(***************************************************************************)
(* scan_views (src/src/service.rs): the surfaces of one request the engine *)
(* is given once buffer_body returned, and decode_query_component, which   *)
(* decodes the query byte by byte.  A character is a member of Chars, a    *)
(* byte an escape stands for is given by ByteOf.                           *)
(***************************************************************************)
EXTENDS BodyBuffer, Sequences, FiniteSets

CONSTANTS
  Chars,         \* what a query is written with: strings of one character
  HexDigits,     \* those of Chars that are hexadecimal digits
  ByteOf,        \* what u8::from_str_radix makes of two characters it reads
  Queries,       \* bound: raw queries a client sends
  Headers        \* headers every request carries

ASSUME DecoderAssumption ==
  /\ {"%", "+", "&", "="} \cup HexDigits \subseteq Chars
  /\ {"%", "+", "&", "=", " "} \cap HexDigits = {}
  /\ DOMAIN ByteOf = (HexDigits \cup {"+"}) \X HexDigits
  /\ Queries \subseteq Seq(Chars)
  /\ Headers \subseteq [name : STRING, text : BOOLEAN]

VARIABLES
  request,     \* path and raw query: chosen when the scan begins
  from,        \* where the next piece of the query begins
  parts,       \* the raw components left of the pair at hand
  index,       \* in the first of them
  out,         \* what it decoded to so far
  decoded,     \* the decoded names and values, in turn
  surfaces,    \* the RequestSurfaces the engine was called with, or "none"
  scan         \* "waiting", "decoding", then the ScanOutcome

scanVars == <<request, from, parts, index, out, decoded, surfaces, scan>>
allVars == <<vars, scanVars>>

ScanOutcomes == {"clean", "threat", "failed"}

\* EXCLUDED_HEADERS, as far as the instance has them; "sec-" stands for
\* every name with that prefix.
ExcludedHeaders ==
  {"host", "user-agent", "accept", "accept-encoding", "connection", "origin",
   "referer", "sec-"}
-----------------------------------------------------------------------------
(* What the code makes of the raw query.                                   *)

\* The first of the marks at i or after it, or the end, is at j.
First(s, marks, i, j) ==
  /\ j \in i .. Len(s) + 1
  /\ \A k \in i .. j - 1 : s[k] \notin marks
  /\ j <= Len(s) => s[j] \in marks

\* Mutant: form-encoded spaces are left as they are.
SpacedNot(c) == c

\* replace('+', " "): before the escapes, so "%2B" stays a plus.
Spaced(c) == [i \in DOMAIN c |-> IF c[i] = "+" THEN " " ELSE c[i]]

\* The headers the engine sees: `text` says to_str reads the value.
ScannedHeaders == {h \in Headers : h.name \notin ExcludedHeaders /\ h.text}
-----------------------------------------------------------------------------
ScanInit ==
  /\ Init
  /\ request = [path |-> "/", query |-> <<>>]
  /\ from = 1
  /\ parts = <<>> /\ decoded = <<>>
  /\ index = 1 /\ out = <<>>
  /\ surfaces = "none"
  /\ scan = "waiting"

Buffering == Next /\ UNCHANGED scanVars

\* The body is held: scan_request is entered with the parts.
Begin ==
  /\ scan = "waiting" /\ outcome \in {"empty", "body"}
  /\ scan' = "decoding"
  /\ \E path \in {"/", "/x"}, query \in Queries :
       request' = [path |-> path, query |-> query]
  /\ UNCHANGED <<vars, from, parts, index, out, decoded, surfaces>>

\* split_once('='): the value is all that follows the first mark.
NameAndValue(pair) ==
  \E at \in 1 .. Len(pair) + 1 :
    /\ First(pair, {"="}, 1, at)
    /\ parts' = <<SubSeq(pair, 1, at - 1), SubSeq(pair, at + 1, Len(pair))>>

\* split('&') yields its next piece, which the filter drops if it is empty.
NextPair ==
  /\ scan = "decoding" /\ parts = <<>>
  /\ \E end \in from .. Len(request.query) + 1 :
       LET pair == SubSeq(request.query, from, end - 1) IN
       /\ First(request.query, {"&"}, from, end)
       /\ from' = end + 1
       /\ \/ pair = <<>> /\ UNCHANGED parts
          \/ pair # <<>> /\ NameAndValue(pair)
  /\ UNCHANGED <<vars, request, index, out, decoded, surfaces, scan>>

Component == Spaced(parts[1])
Decoding == scan = "decoding" /\ parts # <<>> /\ index <= Len(Component)

\* from_str_radix takes a sign, so a plus before a digit would read as one.
Radix(high, low) == high \in HexDigits \cup {"+"} /\ low \in HexDigits

\* Both digits are there, and they read as a byte.
EscapeAt(c, i) ==
  c[i] = "%" /\ i + 2 <= Len(c) /\ Radix(c[i + 1], c[i + 2])

\* Mutant: the second digit is read again as a literal.
EscapeSkipsOne ==
  /\ Decoding /\ EscapeAt(Component, index)
  /\ out' = Append(out, ByteOf[<<Component[index + 1], Component[index + 2]>>])
  /\ index' = index + 2
  /\ UNCHANGED <<vars, request, from, parts, decoded, surfaces, scan>>

Escape ==
  /\ Decoding /\ EscapeAt(Component, index)
  /\ out' = Append(out, ByteOf[<<Component[index + 1], Component[index + 2]>>])
  /\ index' = index + 3
  /\ UNCHANGED <<vars, request, from, parts, decoded, surfaces, scan>>

Literal ==
  /\ Decoding /\ ~EscapeAt(Component, index)
  /\ out' = Append(out, Component[index])
  /\ index' = index + 1
  /\ UNCHANGED <<vars, request, from, parts, decoded, surfaces, scan>>

ComponentDone ==
  /\ scan = "decoding" /\ parts # <<>> /\ index > Len(Component)
  /\ decoded' = Append(decoded, out)
  /\ parts' = Tail(parts)
  /\ index' = 1 /\ out' = <<>>
  /\ UNCHANGED <<vars, request, from, surfaces, scan>>

\* The engine is external: a verdict, or a panic that catch_unwind turns
\* into ScanOutcome::Failed.
EngineScans ==
  /\ scan = "decoding" /\ parts = <<>> /\ from > Len(request.query) + 1
  /\ surfaces' = [url_path |-> IF request.path = "/" THEN "none" ELSE request.path,
                  query_params |-> decoded,
                  headers |-> ScannedHeaders,
                  raw_body |-> buffered]
  /\ scan' \in ScanOutcomes
  /\ UNCHANGED <<vars, request, from, parts, index, out, decoded>>

ScanNext ==
  \/ Buffering
  \/ Begin \/ NextPair \/ Escape \/ Literal \/ ComponentDone \/ EngineScans

ScanSpec == ScanInit /\ [][ScanNext]_allVars
-----------------------------------------------------------------------------
(* unquote_plus and parse_qsl, said without a loop: by the places where    *)
(* something begins, in a component and in a query.                        *)

\* No escape overlaps another: its digits are no percent signs.
Escapes(c) ==
  {i \in 1 .. Len(c) : /\ c[i] = "%" /\ i + 2 <= Len(c)
                       /\ {c[i + 1], c[i + 2]} \subseteq HexDigits}

InEscape(c, i) == \E e \in Escapes(c) : i \in {e + 1, e + 2}

Before(S, i) == {j \in S : j < i}

\* Which of the members of S, in ascending order, i is.
Place(S, i) == Cardinality(Before(S, i)) + 1

\* Where each decoded character begins, and which one it is.
CharStarts(c) == {i \in DOMAIN c : ~InEscape(c, i)}

CharFrom(c, i) ==
  CASE i \in Escapes(c) -> ByteOf[<<c[i + 1], c[i + 2]>>]
    [] i \notin Escapes(c) /\ c[i] = "+" -> " "
    [] OTHER -> c[i]

UnquotePlus(d, c) ==
  /\ Len(d) = Cardinality(CharStarts(c))
  /\ \A i \in CharStarts(c) : d[Place(CharStarts(c), i)] = CharFrom(c, i)

\* Where each pair begins: what lies between two marks, unless nothing does.
PairStarts(q) == {b \in DOMAIN q : q[b] # "&" /\ (b > 1 => q[b - 1] = "&")}

\* The name ends at the first "=" of the pair, the value where the pair does.
PairScanned(params, q, b) ==
  \E m, e \in DOMAIN q \cup {Len(q) + 1} :
    /\ First(q, {"=", "&"}, b, m) /\ First(q, {"&"}, m, e)
    /\ UnquotePlus(params[2 * Place(PairStarts(q), b) - 1], SubSeq(q, b, m - 1))
    /\ UnquotePlus(params[2 * Place(PairStarts(q), b)], SubSeq(q, m + 1, e - 1))

QueryScanned(params, q) ==
  /\ Len(params) = 2 * Cardinality(PairStarts(q))
  /\ \A b \in PairStarts(q) : PairScanned(params, q, b)

(* The scan sees the whole request: every byte the client sent as a body,  *)
(* every pair of the query, in its place and exactly as a handler decodes  *)
(* it, and no other.                                                       *)
WholeRequestScanned ==
  scan \in ScanOutcomes =>
    /\ surfaces.raw_body = offered
    /\ QueryScanned(surfaces.query_params, request.query)

(* The decoder never starts in the middle of an escape, so nothing is      *)
(* decoded twice: what one escape stands for is never part of another.     *)
NeverInsideEscape == Decoding => ~InEscape(parts[1], index)
=============================================================================

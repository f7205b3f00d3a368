-------------------------- MODULE ScanViewsProofs --------------------------
(* ScanViews for every alphabet and every query.                           *)
EXTENDS ScanViews, BodyBufferProofs, FiniteSetTheorems, SequenceTheorems

(* Picking the surfaces leaves the body loop alone: everything proved of   *)
(* buffer_body by itself holds of it inside the scan.                      *)
THEOREM ScanKeepsBody == ScanSpec => Spec
<1>1. ScanInit => Init
  BY DEF ScanInit
<1>2. [ScanNext]_allVars => [Next]_vars
  BY DEF ScanNext, Buffering, Begin, NextPair, Escape, Literal, ComponentDone, EngineScans, allVars
<1> QED
  BY <1>1, <1>2, PTL DEF ScanSpec, Spec

\* Once the scan has begun the body is not read any further, and what the
\* engine was given of it is all of it.
Delivered ==
  /\ scan # "waiting" => outcome \in {"empty", "body"}
  /\ scan \in ScanOutcomes => surfaces.raw_body = offered

(* No byte of a body is kept from the scan: what the engine is given is    *)
(* everything the client sent, however it was framed.                      *)
THEOREM BodySurfaceWhole == ScanSpec => []Delivered
<1>1. ScanInit => Delivered
  BY DEF ScanInit, Delivered, ScanOutcomes
<1>2. NoTruncation /\ Delivered /\ [ScanNext]_allVars => Delivered'
  <2> SUFFICES ASSUME NoTruncation, Delivered, [ScanNext]_allVars PROVE Delivered'
    OBVIOUS
  <2> USE DEF Delivered, ScanOutcomes
  <2>1. CASE Buffering
    <3>1. scan' = scan /\ surfaces' = surfaces
      BY <2>1 DEF Buffering, scanVars
    <3>2. outcome = "pending"
      BY <2>1 DEF Buffering, Next, DataFrame, TrailersFrame, FrameError,
                  EndOfStream, Dropped, Pull
    <3> QED
      BY <3>1, <3>2
  <2>2. CASE Begin
    BY <2>2 DEF Begin, vars
  <2>3. CASE Escape
    BY <2>3 DEF Escape, Decoding, vars
  <2>4. CASE Literal
    BY <2>4 DEF Literal, Decoding, vars
  <2>5. CASE ComponentDone
    BY <2>5 DEF ComponentDone, vars
  <2>8. CASE NextPair
    BY <2>8 DEF NextPair, vars
  <2>6. CASE EngineScans
    <3>1. outcome' = outcome /\ offered' = offered /\ scan = "decoding"
      BY <2>6 DEF EngineScans, vars
    <3>2. surfaces'.raw_body = buffered
      BY <2>6 DEF EngineScans
    <3>3. buffered = offered
      BY <3>1 DEF NoTruncation
    <3> QED
      BY <3>1, <3>2, <3>3
  <2>7. CASE UNCHANGED allVars
    BY <2>7 DEF allVars, vars, scanVars
  <2> QED
    BY <2>1, <2>2, <2>3, <2>4, <2>5, <2>6, <2>7, <2>8 DEF ScanNext
<1> QED
  BY <1>1, <1>2, ScanKeepsBody, WholeBody, PTL DEF ScanSpec

-----------------------------------------------------------------------------
(* The places of a finite set of numbers.                                  *)

(* What lies before a place is finite, and its members have the first      *)
(* places.                                                                 *)
LEMMA PlacesBefore ==
  ASSUME NEW S, IsFiniteSet(S), S \subseteq Nat, NEW k \in Nat
  PROVE  /\ IsFiniteSet(Before(S, k)) /\ Cardinality(Before(S, k)) \in Nat
         /\ \A i \in Before(S, k) : Place(S, i) \in 1 .. Cardinality(Before(S, k))
<1>1. ASSUME NEW x PROVE IsFiniteSet(Before(S, x)) /\ Cardinality(Before(S, x)) \in Nat
  BY FS_Subset, FS_CardinalityType DEF Before
<1>2. ASSUME NEW i \in Before(S, k) PROVE Place(S, i) \in 1 .. Cardinality(Before(S, k))
  <2>1. i \in Nat /\ i < k /\ i \in S
    BY DEF Before
  <2>2. Before(S, i) \cup {i} \subseteq Before(S, k)
    <3>1. ASSUME NEW j \in Before(S, i) PROVE j \in Before(S, k)
      <4>1. j \in S /\ j < i /\ j \in Nat
        BY DEF Before
      <4> QED
        BY <2>1, <4>1 DEF Before
    <3> QED
      BY <3>1
  <2>3. i \notin Before(S, i)
    BY <2>1 DEF Before
  <2>4. Cardinality(Before(S, i) \cup {i}) = Cardinality(Before(S, i)) + 1
    BY <1>1, <2>3, FS_AddElement
  <2>5. Cardinality(Before(S, i) \cup {i}) <= Cardinality(Before(S, k))
    BY <1>1, <2>2, FS_Subset
  <2> QED
    BY <1>1, <2>4, <2>5 DEF Place
<1> QED
  BY <1>1, <1>2

(* From a member to a place that no other member comes before.             *)
LEMMA NextPlace ==
  ASSUME NEW S, IsFiniteSet(S), S \subseteq Nat, NEW i \in S, NEW k \in Nat, i < k,
         \A j \in S : ~(i < j /\ j < k)
  PROVE  /\ Before(S, k) = Before(S, i) \cup {i}
         /\ Cardinality(Before(S, k)) = Place(S, i)
<1>1. Before(S, k) = Before(S, i) \cup {i} /\ i \notin Before(S, i)
  <2>1. i \in Nat /\ \A j \in S : j \in Nat /\ (j < k <=> j < i \/ j = i)
    BY SMT
  <2> QED
    BY <2>1 DEF Before
<1>2. IsFiniteSet(Before(S, i))
  BY PlacesBefore
<1> QED
  BY <1>1, <1>2, FS_AddElement DEF Place
-----------------------------------------------------------------------------
(* The decoder.                                                            *)

\* What a component can decode to.
Values == Chars \cup {" "} \cup {ByteOf[d] : d \in DOMAIN ByteOf}

\* d holds what begins before i, in its place.
Unquoting(d, c, i) ==
  LET starts == CharStarts(c) IN
  /\ Len(d) = Cardinality(Before(starts, i))
  /\ \A j \in Before(starts, i) : d[Place(starts, j)] = CharFrom(c, j)

(* A function on an interval is a sequence as long as the interval.        *)
LEMMA FunctionIsSeq ==
  ASSUME NEW S, NEW n \in Nat, NEW f \in [1 .. n -> S]
  PROVE  f \in Seq(S) /\ Len(f) = n
<1>1. f \in Seq(S)
  BY SeqDef
<1>2. Len(f) \in Nat /\ 1 .. Len(f) = 1 .. n
  BY <1>1, LenProperties
<1>3. Len(f) \in 1 .. Len(f) \/ Len(f) = 0
  BY <1>2
<1>4. n \in 1 .. n \/ n = 0
  OBVIOUS
<1>5. \A k \in Nat : k \in 1 .. n <=> k \in 1 .. Len(f)
  BY <1>2
<1>6. Len(f) <= n /\ n <= Len(f)
  BY <1>2, <1>3, <1>4, <1>5
<1> QED
  BY <1>1, <1>2, <1>6

(* Where characters begin is a finite set of numbers.                      *)
LEMMA CharStartsFinite ==
  ASSUME NEW c \in Seq(Chars)
  PROVE  IsFiniteSet(CharStarts(c)) /\ CharStarts(c) \subseteq 1 .. Len(c)
<1>1. Len(c) \in Nat /\ DOMAIN c = 1 .. Len(c)
  OBVIOUS
<1>2. CharStarts(c) \in SUBSET (1 .. Len(c)) /\ IsFiniteSet(1 .. Len(c))
  BY <1>1, FS_Interval DEF CharStarts
<1> QED
  BY <1>2, FS_Subset

(* The code's test for an escape is the reference's: with the spaces in    *)
(* place there is no plus left that could be read as a sign.               *)
LEMMA EscapeIsOne ==
  ASSUME NEW c \in Seq(Chars), NEW i \in 1 .. Len(c)
  PROVE  /\ EscapeAt(Spaced(c), i) <=> i \in Escapes(c)
         /\ Len(Spaced(c)) = Len(c)
         /\ EscapeAt(Spaced(c), i) =>
              /\ ByteOf[<<Spaced(c)[i + 1], Spaced(c)[i + 2]>>] = CharFrom(c, i)
              /\ CharFrom(c, i) \in Values
         /\ ~EscapeAt(Spaced(c), i) =>
              Spaced(c)[i] = CharFrom(c, i) /\ CharFrom(c, i) \in Values
<1>1. /\ Len(c) \in Nat /\ DOMAIN c = 1 .. Len(c)
      /\ \A k \in 1 .. Len(c) : c[k] \in Chars
  OBVIOUS
<1>2. Spaced(c) \in Seq(Chars \cup {" "}) /\ Len(Spaced(c)) = Len(c)
  <2>1. Spaced(c) \in [1 .. Len(c) -> Chars \cup {" "}]
    BY <1>1 DEF Spaced
  <2> QED
    BY <1>1, <2>1, FunctionIsSeq
<1>3. \A k \in 1 .. Len(c) :
        /\ Spaced(c)[k] = IF c[k] = "+" THEN " " ELSE c[k]
        /\ Spaced(c)[k] \in HexDigits \cup {"+"} <=> c[k] \in HexDigits
        /\ c[k] \in HexDigits => Spaced(c)[k] = c[k]
        /\ Spaced(c)[k] = "%" <=> c[k] = "%"
  BY <1>1, DecoderAssumption DEF Spaced
<1>4. EscapeAt(Spaced(c), i) <=> i \in Escapes(c)
  <2>1. CASE i + 2 <= Len(c)
    <3>1. i + 1 \in 1 .. Len(c) /\ i + 2 \in 1 .. Len(c)
      BY <1>1, <2>1
    <3>2. Spaced(c)[i + 2] \in HexDigits <=> c[i + 2] \in HexDigits
      BY <1>3, <3>1, DecoderAssumption
    <3> QED
      BY <1>2, <1>3, <2>1, <3>1, <3>2 DEF EscapeAt, Escapes, Radix
  <2>2. CASE ~(i + 2 <= Len(c))
    BY <1>2, <2>2 DEF EscapeAt, Escapes
  <2> QED
    BY <2>1, <2>2
<1>5. ASSUME EscapeAt(Spaced(c), i)
      PROVE  /\ ByteOf[<<Spaced(c)[i + 1], Spaced(c)[i + 2]>>] = CharFrom(c, i)
             /\ CharFrom(c, i) \in Values
  <2>1. /\ i \in Escapes(c) /\ i + 1 \in 1 .. Len(c) /\ i + 2 \in 1 .. Len(c)
        /\ c[i + 1] \in HexDigits /\ c[i + 2] \in HexDigits
    BY <1>1, <1>4, <1>5 DEF Escapes
  <2>2. CharFrom(c, i) = ByteOf[<<c[i + 1], c[i + 2]>>]
    BY <2>1 DEF CharFrom
  <2>3. <<c[i + 1], c[i + 2]>> \in DOMAIN ByteOf
    BY <2>1, DecoderAssumption
  <2> QED
    BY <1>3, <2>1, <2>2, <2>3 DEF Values
<1>6. ASSUME ~EscapeAt(Spaced(c), i)
      PROVE  Spaced(c)[i] = CharFrom(c, i) /\ CharFrom(c, i) \in Values
  BY <1>1, <1>3, <1>4, <1>6 DEF CharFrom, Values
<1> QED
  BY <1>2, <1>4, <1>5, <1>6

(* One character more, the next one, is decoded.                           *)
LEMMA UnquotesOn ==
  ASSUME NEW c \in Seq(Chars), NEW d \in Seq(Values), NEW i \in CharStarts(c), NEW k \in Nat,
         Unquoting(d, c, i), i < k, \A j \in CharStarts(c) : ~(i < j /\ j < k),
         CharFrom(c, i) \in Values
  PROVE  Unquoting(Append(d, CharFrom(c, i)), c, k)
<1> DEFINE S == CharStarts(c)
           n == Cardinality(Before(S, i))
           dd == Append(d, CharFrom(c, i))
<1>1. IsFiniteSet(S) /\ S \subseteq Nat /\ i \in Nat /\ i \in S
  BY CharStartsFinite
<1>2. /\ n \in Nat /\ Place(S, i) = n + 1
      /\ \A j \in Before(S, i) : Place(S, j) \in 1 .. n
  BY <1>1, PlacesBefore DEF Place
<1>3. Before(S, k) = Before(S, i) \cup {i} /\ Cardinality(Before(S, k)) = n + 1
  BY <1>1, <1>2, NextPlace
<1>4. Len(d) = n /\ \A j \in Before(S, i) : d[Place(S, j)] = CharFrom(c, j)
  BY DEF Unquoting
<1>5. Len(dd) = n + 1 /\ dd[n + 1] = CharFrom(c, i) /\ \A m \in 1 .. n : dd[m] = d[m]
  BY <1>4, AppendProperties
<1>6. \A j \in Before(S, k) : dd[Place(S, j)] = CharFrom(c, j)
  BY <1>2, <1>3, <1>4, <1>5
<1> QED
  BY <1>3, <1>5, <1>6 DEF Unquoting

(* At the end of a component all of it is decoded.                         *)
LEMMA UnquotedAtEnd ==
  ASSUME NEW c \in Seq(Chars), NEW d, NEW i \in Nat, i > Len(c), Unquoting(d, c, i)
  PROVE  UnquotePlus(d, c)
<1>1. Before(CharStarts(c), i) = CharStarts(c)
  <2>1. ASSUME NEW j \in CharStarts(c) PROVE j < i
    BY CharStartsFinite, LenProperties
  <2> QED
    BY <2>1 DEF Before
<1> QED
  BY <1>1 DEF Unquoting, UnquotePlus

(* Nothing begins before the first character.                              *)
LEMMA UnquotingStarts ==
  ASSUME NEW c \in Seq(Chars)
  PROVE  Unquoting(<<>>, c, 1) /\ ~InEscape(c, 1)
<1>1. Before(CharStarts(c), 1) = {}
  BY CharStartsFinite DEF Before
<1>2. Unquoting(<<>>, c, 1)
  BY <1>1, FS_EmptySet DEF Unquoting
<1>3. ~InEscape(c, 1)
  BY DEF InEscape, Escapes
<1> QED
  BY <1>2, <1>3

(* An escape ends where the next character begins, whatever surrounds it:  *)
(* what starts inside it would have a digit for its percent sign.          *)
LEMMA EscapesApart ==
  ASSUME NEW c, NEW i \in Escapes(c)
  PROVE  ~InEscape(c, i + 3)
<1> SUFFICES ASSUME NEW e \in Escapes(c), i + 3 \in {e + 1, e + 2} PROVE FALSE
  BY DEF InEscape
<1>1. e \in Int /\ c[e] = "%" /\ i \in Int
  BY DEF Escapes
<1>2. e = i + 1 \/ e = i + 2
  BY <1>1
<1>3. c[i + 1] # "%" /\ c[i + 2] # "%"
  BY DecoderAssumption DEF Escapes
<1> QED
  BY <1>1, <1>2, <1>3

(* A character that starts no escape and lies in none is followed by one   *)
(* that lies in none.                                                      *)
LEMMA LiteralsApart ==
  ASSUME NEW c, NEW i \in Nat \ {0}, i \notin Escapes(c), ~InEscape(c, i)
  PROVE  ~InEscape(c, i + 1)
<1> SUFFICES ASSUME NEW e \in Escapes(c), i + 1 \in {e + 1, e + 2} PROVE FALSE
  BY DEF InEscape
<1>1. e \in Int /\ e # i
  BY DEF Escapes
<1>2. i = e + 1
  BY <1>1
<1> QED
  BY <1>2 DEF InEscape
-----------------------------------------------------------------------------
(* The pairs of a query.                                                   *)

\* What a piece of the query begins after.
AtPiece(q, f) ==
  /\ f \in 1 .. Len(q) + 2
  /\ f > 1 /\ f <= Len(q) + 1 => q[f - 1] = "&"

\* The params hold every pair that begins before k, in its place.
ScannedBefore(params, q, k) ==
  \A b \in Before(PairStarts(q), k) : PairScanned(params, q, b)

\* No pair is at hand, and all those before the next piece are decoded.
BetweenPairs ==
  LET q == request.query IN
  /\ parts = <<>> /\ index = 1 /\ out = <<>>
  /\ AtPiece(q, from)
  /\ Len(decoded) = 2 * Cardinality(Before(PairStarts(q), from))
  /\ ScannedBefore(decoded, q, from)

\* The pair that begins at b, with its first mark at m and its end at e, is
\* at hand: both components of it, or the value behind a decoded name.
AtHand(b, m, e) ==
  LET q == request.query
      done == 2 * Cardinality(Before(PairStarts(q), b))
      name == SubSeq(q, b, m - 1)
      value == SubSeq(q, m + 1, e - 1)
  IN
  /\ b \in PairStarts(q)
  /\ First(q, {"=", "&"}, b, m) /\ First(q, {"&"}, m, e) /\ from = e + 1
  /\ ScannedBefore(decoded, q, b)
  /\ \/ parts = <<name, value>> /\ Len(decoded) = done
     \/ /\ parts = <<value>> /\ Len(decoded) = done + 1
        /\ UnquotePlus(decoded[done + 1], name)

\* The decoder is at the beginning of a character of the component at hand,
\* or at its end, and has decoded what is before it.
InComponent ==
  LET c == parts[1] IN
  /\ index \in 1 .. Len(c) + 1
  /\ ~InEscape(c, index)
  /\ Unquoting(out, c, index)

DuringPair ==
  /\ \E b, m, e \in 1 .. Len(request.query) + 1 : AtHand(b, m, e)
  /\ InComponent

ScanTypes ==
  /\ request.query \in Seq(Chars) /\ parts \in Seq(Seq(Chars))
  /\ out \in Seq(Values) /\ decoded \in Seq(Seq(Values))

\* Where the scan is, and what it has of the query by then.
Progress ==
  /\ ScanTypes
  /\ scan = "waiting" =>
       /\ parts = <<>> /\ decoded = <<>> /\ out = <<>>
       /\ from = 1 /\ index = 1
  /\ scan = "decoding" => BetweenPairs \/ DuringPair
  /\ scan \in ScanOutcomes => QueryScanned(surfaces.query_params, request.query)

(* Where pairs begin is a finite set of numbers.                           *)
LEMMA PairStartsFinite ==
  ASSUME NEW q \in Seq(Chars)
  PROVE  /\ IsFiniteSet(PairStarts(q)) /\ PairStarts(q) \subseteq 1 .. Len(q)
         /\ PairStarts(q) \subseteq Nat /\ Len(q) \in Nat
<1>1. Len(q) \in Nat /\ DOMAIN q = 1 .. Len(q)
  OBVIOUS
<1>2. PairStarts(q) \in SUBSET (1 .. Len(q)) /\ IsFiniteSet(1 .. Len(q))
  BY <1>1, FS_Interval DEF PairStarts
<1>3. PairStarts(q) \subseteq Nat
  BY <1>1, <1>2
<1> QED
  BY <1>1, <1>2, <1>3, FS_Subset

(* The n-th pair takes the places 2n - 1 and 2n of what is decoded.        *)
LEMMA PlacesOfPair ==
  ASSUME NEW n \in Nat, NEW i \in 1 .. n, NEW len \in Nat, 2 * n <= len
  PROVE  2 * i \in 1 .. len /\ 2 * i - 1 \in 1 .. len
  OBVIOUS

(* Behind n pairs and a name, the value comes.                             *)
LEMMA PlacesBehind ==
  ASSUME NEW n \in Nat, NEW len, len = 2 * n + 1
  PROVE  len + 1 = 2 * n + 2 /\ 2 * n + 1 \in 1 .. len /\ 2 * n <= len
  OBVIOUS

(* A pushed component moves none of those before it.                       *)
LEMMA ScannedStays ==
  ASSUME NEW q \in Seq(Chars), NEW p \in Seq(Seq(Values)), NEW v \in Seq(Values), NEW k \in Nat,
         ScannedBefore(p, q, k), 2 * Cardinality(Before(PairStarts(q), k)) <= Len(p)
  PROVE  ScannedBefore(Append(p, v), q, k)
<1> SUFFICES ASSUME NEW b \in Before(PairStarts(q), k) PROVE PairScanned(Append(p, v), q, b)
  BY DEF ScannedBefore
<1> DEFINE i == Place(PairStarts(q), b)
<1>1. /\ i \in 1 .. Cardinality(Before(PairStarts(q), k))
      /\ Cardinality(Before(PairStarts(q), k)) \in Nat
  BY PairStartsFinite, PlacesBefore
<1>2. 2 * i \in 1 .. Len(p) /\ 2 * i - 1 \in 1 .. Len(p)
  <2>1. Len(p) \in Nat
    BY LenProperties
  <2> HIDE DEF i
  <2> QED
    BY <1>1, <2>1, PlacesOfPair
<1>3. Append(p, v)[2 * i] = p[2 * i] /\ Append(p, v)[2 * i - 1] = p[2 * i - 1]
  BY <1>2, AppendProperties
<1>4. PairScanned(p, q, b)
  BY DEF ScannedBefore
<1> QED
  BY <1>3, <1>4 DEF PairScanned

(* Between two marks with nothing between them no pair begins.             *)
LEMMA NoPairBetween ==
  ASSUME NEW q \in Seq(Chars), NEW f \in 1 .. Len(q) + 1, First(q, {"&"}, f, f)
  PROVE  AtPiece(q, f + 1) /\ Before(PairStarts(q), f + 1) = Before(PairStarts(q), f)
<1>1. Len(q) \in Nat /\ (f <= Len(q) => q[f] = "&")
  BY LenProperties DEF First
<1>2. AtPiece(q, f + 1)
  BY <1>1 DEF AtPiece
<1>3. f \notin PairStarts(q)
  BY <1>1, PairStartsFinite DEF PairStarts
<1>4. \A j \in PairStarts(q) : j < f + 1 <=> j < f
  BY <1>1, <1>3, PairStartsFinite
<1> QED
  BY <1>2, <1>4 DEF Before

(* What lies from m to k of a sequence, n long.                            *)
LEMMA SliceIs ==
  ASSUME NEW S, NEW s, NEW m \in Int, NEW k \in Int, NEW n \in Nat, k - m + 1 = n,
         \A i \in m .. k : s[i] \in S
  PROVE  /\ SubSeq(s, m, k) \in Seq(S) /\ Len(SubSeq(s, m, k)) = n
         /\ \A i \in 1 .. n : SubSeq(s, m, k)[i] = s[m + i - 1]
<1>1. (IF m <= k THEN k - m + 1 ELSE 0) = n
  OBVIOUS
<1> QED
  BY <1>1, SubSeqProperties

(* A slice of a slice is a slice.                                          *)
LEMMA SliceOfSlice ==
  ASSUME NEW S, NEW q \in Seq(S), NEW f \in Nat, 1 <= f, NEW e \in Nat, f <= e, e <= Len(q) + 1,
         NEW a \in Nat, 1 <= a, NEW z \in Nat, z <= e - f, a <= z + 1
  PROVE  SubSeq(SubSeq(q, f, e - 1), a, z) = SubSeq(q, f + a - 1, f + z - 1)
<1> DEFINE pair == SubSeq(q, f, e - 1)
<1>1. Len(q) \in Nat /\ \A i \in f .. e - 1 : q[i] \in S
  BY LenProperties, ElementOfSeq
<1>2. /\ pair \in Seq(S) /\ Len(pair) = e - f
      /\ \A i \in 1 .. e - f : pair[i] = q[f + i - 1]
  <2>1. f \in Int /\ e - 1 \in Int /\ e - f \in Nat /\ (e - 1) - f + 1 = e - f
    OBVIOUS
  <2> QED
    BY <1>1, <2>1, SliceIs
<1>3. \A i \in a .. z : i \in 1 .. e - f /\ pair[i] \in S
  BY <1>2, ElementOfSeq
<1> HIDE DEF pair
<1> DEFINE l == SubSeq(pair, a, z)
           r == SubSeq(q, f + a - 1, f + z - 1)
<1>4. /\ l \in Seq(S) /\ Len(l) = z - a + 1
      /\ \A i \in 1 .. z - a + 1 : l[i] = pair[a + i - 1]
  <2>1. a \in Int /\ z \in Int /\ z - a + 1 \in Nat
    OBVIOUS
  <2> QED
    BY <1>3, <2>1, SliceIs
<1>5. /\ r \in Seq(S) /\ Len(r) = z - a + 1
      /\ \A i \in 1 .. z - a + 1 : r[i] = q[(f + a - 1) + i - 1]
  <2>1. /\ f + a - 1 \in Int /\ f + z - 1 \in Int /\ z - a + 1 \in Nat
        /\ (f + z - 1) - (f + a - 1) + 1 = z - a + 1
    OBVIOUS
  <2>2. \A i \in f + a - 1 .. f + z - 1 : q[i] \in S
    BY <1>1
  <2> QED
    BY <2>1, <2>2, SliceIs
<1>6. \A i \in 1 .. z - a + 1 : pair[a + i - 1] = q[(f + a - 1) + i - 1]
  <2>1. ASSUME NEW i \in 1 .. z - a + 1
        PROVE  a + i - 1 \in 1 .. e - f /\ f + (a + i - 1) - 1 = (f + a - 1) + i - 1
    OBVIOUS
  <2> QED
    BY <1>2, <2>1
<1>7. l = r
  <2> HIDE DEF l, r
  <2>1. l \in Seq(S) /\ r \in Seq(S) /\ Len(l) = Len(r)
    BY <1>4, <1>5
  <2>2. \A i \in 1 .. Len(l) : l[i] = r[i]
    BY <1>4, <1>5, <1>6
  <2> QED
    BY <2>1, <2>2, SeqEqual
<1> QED
  BY <1>7 DEF pair

\* The piece of q from f to e has something in it, and its first mark, which
\* splits it, is its at-th character and the m-th of q.
Splits(q, f, e, pair, at, m) ==
  /\ q \in Seq(Chars) /\ AtPiece(q, f) /\ e \in f .. Len(q) + 1 /\ First(q, {"&"}, f, e)
  /\ pair = SubSeq(q, f, e - 1) /\ pair # <<>>
  /\ at \in 1 .. Len(pair) + 1 /\ First(pair, {"="}, 1, at) /\ m = f + at - 1

\* It is a pair, and its halves are the name and the value the query has there.
IsPair(q, f, e, pair, at, m) ==
  /\ f \in PairStarts(q) /\ f \in 1 .. Len(q) + 1
  /\ e \in 1 .. Len(q) + 1 /\ m \in 1 .. Len(q) + 1
  /\ First(q, {"=", "&"}, f, m) /\ First(q, {"&"}, m, e)
  /\ SubSeq(pair, 1, at - 1) = SubSeq(q, f, m - 1)
  /\ SubSeq(pair, at + 1, Len(pair)) = SubSeq(q, m + 1, e - 1)

(* A piece with something in it is a pair; splitting it at its first mark  *)
(* gives the name and the value that the query has there.                  *)
LEMMA PieceIsPair ==
  ASSUME NEW q, NEW f, NEW e, NEW pair, NEW at, NEW m, Splits(q, f, e, pair, at, m)
  PROVE  IsPair(q, f, e, pair, at, m)
<1>0. /\ q \in Seq(Chars) /\ AtPiece(q, f) /\ e \in f .. Len(q) + 1 /\ First(q, {"&"}, f, e)
      /\ pair = SubSeq(q, f, e - 1) /\ pair # <<>>
      /\ at \in 1 .. Len(pair) + 1 /\ First(pair, {"="}, 1, at) /\ m = f + at - 1
  BY DEF Splits
<1> USE <1>0
<1>1. /\ Len(q) \in Nat /\ DOMAIN q = 1 .. Len(q) /\ f \in Nat \ {0} /\ e \in Nat
      /\ f <= e /\ e <= Len(q) + 1
  BY LenProperties DEF AtPiece
<1>2. f < e
  BY <1>1, SubSeqEmpty
<1>3. \A i \in f .. e - 1 : q[i] \in Chars
  BY <1>1, ElementOfSeq
<1>4. /\ pair \in Seq(Chars) /\ Len(pair) = e - f
      /\ \A i \in 1 .. e - f : pair[i] = q[f + i - 1]
  <2>1. f \in Int /\ e - 1 \in Int /\ f <= e - 1 /\ (e - 1) - f + 1 = e - f
    BY <1>1, <1>2
  <2> QED
    BY <1>3, <2>1, SubSeqProperties
<1>5. at \in 1 .. e - f + 1 /\ m \in f .. e
  BY <1>1, <1>4
<1>6. f \in PairStarts(q) /\ f \in 1 .. Len(q)
  <2>1. q[f] # "&" /\ f \in 1 .. Len(q)
    BY <1>1, <1>2 DEF First
  <2>2. f > 1 => q[f - 1] = "&"
    BY <1>1, <2>1 DEF AtPiece
  <2> QED
    BY <1>1, <2>1, <2>2 DEF PairStarts
<1>7. \A k \in f .. e - 1 : q[k] # "&"
  BY DEF First
<1>8. \A k \in f .. m - 1 : q[k] # "="
  <2>1. ASSUME NEW k \in f .. m - 1 PROVE q[k] # "="
    <3>1. k - f + 1 \in 1 .. at - 1 /\ k - f + 1 \in 1 .. e - f
      BY <1>1, <1>5
    <3>2. pair[k - f + 1] # "="
      BY <3>1 DEF First
    <3>3. f + (k - f + 1) - 1 = k
      BY <1>1
    <3> QED
      BY <1>4, <3>1, <3>2, <3>3
  <2> QED
    BY <2>1
<1>9. First(q, {"=", "&"}, f, m)
  <2>1. m \in f .. Len(q) + 1
    BY <1>1, <1>5
  <2>2. \A k \in f .. m - 1 : q[k] \notin {"=", "&"}
    BY <1>1, <1>5, <1>7, <1>8
  <2>3. CASE m < e
    <3>1. at \in 1 .. e - f /\ at <= Len(pair) /\ f + at - 1 = m
      BY <1>1, <1>4, <1>5, <2>3
    <3>2. pair[at] = "="
      BY <3>1 DEF First
    <3>3. q[m] = "="
      BY <1>4, <3>1, <3>2
    <3> QED
      BY <2>1, <2>2, <3>3 DEF First
  <2>4. CASE m = e
    BY <2>1, <2>2, <2>4 DEF First
  <2> QED
    BY <1>1, <1>5, <2>3, <2>4
<1>10. First(q, {"&"}, m, e)
  <2>1. e \in m .. Len(q) + 1 /\ \A k \in m .. e - 1 : q[k] \notin {"&"}
    BY <1>1, <1>5, <1>7
  <2> QED
    BY <2>1 DEF First
<1>11. SubSeq(pair, 1, at - 1) = SubSeq(q, f, m - 1)
  <2>1. at - 1 \in Nat /\ at - 1 <= e - f /\ f + (at - 1) - 1 = m - 1 /\ f + 1 - 1 = f
    BY <1>1, <1>5
  <2>2. SubSeq(pair, 1, at - 1) = SubSeq(q, f + 1 - 1, f + (at - 1) - 1)
    BY <1>1, <2>1, SliceOfSlice
  <2> QED
    BY <2>1, <2>2
<1>12. SubSeq(pair, at + 1, Len(pair)) = SubSeq(q, m + 1, e - 1)
  <2>1. /\ Len(pair) = e - f /\ e - f \in Nat /\ at + 1 \in Nat /\ 1 <= at + 1
        /\ f + (at + 1) - 1 = m + 1 /\ f + (e - f) - 1 = e - 1
    BY <1>1, <1>4, <1>5
  <2>2. CASE at <= e - f
    <3>1. at + 1 <= (e - f) + 1
      BY <1>1, <1>5, <2>2
    <3>2. SubSeq(pair, at + 1, e - f) = SubSeq(q, f + (at + 1) - 1, f + (e - f) - 1)
      BY <1>1, <2>1, <3>1, SliceOfSlice
    <3> QED
      BY <2>1, <3>2
  <2>3. CASE at = e - f + 1
    <3>1. /\ at + 1 \in Int /\ Len(pair) \in Int /\ Len(pair) < at + 1
          /\ m + 1 \in Int /\ e - 1 \in Int /\ e - 1 < m + 1
      BY <1>1, <2>1, <2>3
    <3> QED
      BY <3>1, SubSeqEmpty
  <2> QED
    BY <1>1, <1>5, <2>2, <2>3
<1>13. f \in 1 .. Len(q) + 1 /\ e \in 1 .. Len(q) + 1 /\ m \in 1 .. Len(q) + 1
  BY <1>1, <1>5, <1>6
<1> QED
  BY <1>6, <1>9, <1>10, <1>11, <1>12, <1>13, Zenon DEF IsPair

(* A pair over, the next piece begins behind its mark, and no other pair   *)
(* begins before that.                                                     *)
LEMMA PairIsOver ==
  ASSUME NEW q \in Seq(Chars), NEW b \in PairStarts(q), NEW m \in 1 .. Len(q) + 1,
         NEW e \in 1 .. Len(q) + 1, First(q, {"=", "&"}, b, m), First(q, {"&"}, m, e)
  PROVE  /\ AtPiece(q, e + 1)
         /\ Before(PairStarts(q), e + 1) = Before(PairStarts(q), b) \cup {b}
         /\ Cardinality(Before(PairStarts(q), e + 1)) = Place(PairStarts(q), b)
<1>1. /\ Len(q) \in Nat /\ DOMAIN q = 1 .. Len(q) /\ b \in Nat \ {0} /\ b <= m /\ m <= e
      /\ IsFiniteSet(PairStarts(q)) /\ PairStarts(q) \subseteq Nat
  BY LenProperties, PairStartsFinite DEF First
<1>2. AtPiece(q, e + 1)
  <2>1. e + 1 - 1 = e /\ (e + 1 <= Len(q) + 1 => e <= Len(q)) /\ e + 1 \in 1 .. Len(q) + 2
    BY <1>1
  <2> QED
    BY <2>1 DEF AtPiece, First
<1>3. \A j \in PairStarts(q) : ~(b < j /\ j < e + 1)
  <2> SUFFICES ASSUME NEW j \in PairStarts(q), b < j, j < e + 1 PROVE FALSE
    OBVIOUS
  <2>1. j \in 1 .. Len(q) /\ q[j] # "&" /\ j > 1 /\ q[j - 1] = "&"
    BY <1>1, PairStartsFinite DEF PairStarts
  <2>2. CASE j = e
    BY <2>1, <2>2 DEF First
  <2>3. CASE j < e /\ j - 1 < m
    <3>1. j - 1 \in b .. m - 1
      BY <1>1, <2>1, <2>3
    <3> QED
      BY <2>1, <3>1 DEF First
  <2>4. CASE j < e /\ j - 1 >= m
    <3>1. j - 1 \in m .. e - 1
      BY <1>1, <2>1, <2>4
    <3> QED
      BY <2>1, <3>1 DEF First
  <2> QED
    BY <1>1, <2>1, <2>2, <2>3, <2>4
<1>4. b < e + 1 /\ e + 1 \in Nat
  BY <1>1
<1> QED
  BY <1>1, <1>2, <1>3, <1>4, NextPlace
(* A slice of a query is written with the characters of the query.         *)
LEMMA SliceType ==
  ASSUME NEW q \in Seq(Chars), NEW f \in Nat, 1 <= f, NEW k \in Int, k <= Len(q)
  PROVE  SubSeq(q, f, k) \in Seq(Chars)
<1>1. \A i \in f .. k : q[i] \in Chars
  BY LenProperties, ElementOfSeq
<1> QED
  BY <1>1, SubSeqProperties

(* The value decoded, the pair has both its components in its place.       *)
LEMMA PairDone ==
  ASSUME NEW q \in Seq(Chars), NEW p \in Seq(Seq(Values)), NEW v \in Seq(Values),
         NEW b \in PairStarts(q), NEW m \in 1 .. Len(q) + 1, NEW e \in 1 .. Len(q) + 1,
         First(q, {"=", "&"}, b, m), First(q, {"&"}, m, e),
         ScannedBefore(p, q, b), Len(p) = 2 * Cardinality(Before(PairStarts(q), b)) + 1,
         UnquotePlus(p[Len(p)], SubSeq(q, b, m - 1)), UnquotePlus(v, SubSeq(q, m + 1, e - 1))
  PROVE  /\ Len(Append(p, v)) = 2 * Cardinality(Before(PairStarts(q), e + 1))
         /\ ScannedBefore(Append(p, v), q, e + 1)
<1> DEFINE S == PairStarts(q)
           n == Cardinality(Before(S, b))
           r == Append(p, v)
<1>1. b \in Nat /\ n \in Nat /\ Place(S, b) = n + 1 /\ Len(q) \in Nat /\ DOMAIN q = 1 .. Len(q)
  BY PairStartsFinite, PlacesBefore, LenProperties DEF Place
<1>2. Before(S, e + 1) = Before(S, b) \cup {b} /\ Cardinality(Before(S, e + 1)) = n + 1
  BY <1>1, PairIsOver
<1>3. /\ Len(p) = 2 * n + 1 /\ Len(r) = 2 * n + 2
      /\ r[2 * n + 1] = p[2 * n + 1] /\ r[2 * n + 2] = v
  <2>1. Len(p) = 2 * n + 1 /\ n \in Nat
    BY <1>1
  <2> HIDE DEF n, r
  <2>2. /\ Len(p) + 1 = 2 * n + 2 /\ 2 * n + 1 \in 1 .. Len(p)
        /\ 2 * n <= Len(p)
    BY <2>1, PlacesBehind
  <2>3. r \in Seq(Seq(Values)) /\ Len(r) = Len(p) + 1 /\ r[Len(p) + 1] = v
        /\ \A i \in 1 .. Len(p) : r[i] = p[i]
    BY AppendProperties DEF r
  <2> QED
    BY <2>1, <2>2, <2>3
<1>4. ScannedBefore(r, q, b)
  <2>1. 2 * n <= Len(p)
    <3> HIDE DEF n, r
    <3> QED
      BY <1>1, <1>3, PlacesBehind
  <2> QED
    BY <1>1, <2>1, ScannedStays
<1>5. PairScanned(r, q, b)
  <2>1. 2 * Place(S, b) - 1 = 2 * n + 1 /\ 2 * Place(S, b) = 2 * n + 2
    <3> HIDE DEF n
    <3> QED
      BY <1>1
  <2>2. m \in DOMAIN q \cup {Len(q) + 1} /\ e \in DOMAIN q \cup {Len(q) + 1}
    <3>1. \A l \in Nat : \A i \in 1 .. l + 1 : i \in (1 .. l) \cup {l + 1}
      OBVIOUS
    <3> QED
      BY <1>1, <3>1
  <2>3. UnquotePlus(r[2 * n + 1], SubSeq(q, b, m - 1))
    BY <1>3
  <2>4. UnquotePlus(r[2 * n + 2], SubSeq(q, m + 1, e - 1))
    BY <1>3
  <2> HIDE DEF r, n, S
  <2> QED
    BY <2>1, <2>2, <2>3, <2>4 DEF PairScanned, S
<1>6. ScannedBefore(r, q, e + 1)
  BY <1>2, <1>4, <1>5 DEF ScannedBefore
<1> QED
  BY <1>1, <1>2, <1>3, <1>6
-----------------------------------------------------------------------------
(* Progress holds at first, and every step keeps it.                       *)

(* Before the scan there is nothing to have decoded.                       *)
LEMMA ProgressStarts == ScanInit => Progress
<1> SUFFICES ASSUME ScanInit PROVE Progress
  OBVIOUS
<1>1. ScanTypes
  BY DEF ScanInit, ScanTypes
<1> QED
  BY <1>1 DEF ScanInit, Progress, ScanOutcomes

(* What is said of the scan says nothing of the body.                      *)
LEMMA ProgressStays ==
  ASSUME Progress, UNCHANGED scanVars
  PROVE  Progress'
<1> USE DEF scanVars
<1>1. ScanTypes' <=> ScanTypes
  BY DEF ScanTypes
<1>2. BetweenPairs' <=> BetweenPairs
  BY DEF BetweenPairs
<1>3. DuringPair' <=> DuringPair
  BY DEF DuringPair, AtHand, InComponent
<1> QED
  BY <1>1, <1>2, <1>3 DEF Progress

(* The scan begins before the first piece.                                 *)
LEMMA BeginProgress ==
  ASSUME Progress, Begin
  PROVE  Progress'
<1> DEFINE q == request'.query
<1>1. q \in Seq(Chars)
  <2>1. PICK path \in {"/", "/x"}, query \in Queries :
          request' = [path |-> path, query |-> query]
    BY DEF Begin
  <2>2. query \in Seq(Chars)
    BY DecoderAssumption
  <2> QED
    BY <2>1, <2>2
<1>2. /\ parts' = <<>> /\ decoded' = <<>> /\ out' = <<>> /\ from' = 1 /\ index' = 1
      /\ scan' = "decoding"
  BY DEF Begin, Progress
<1>3. Before(PairStarts(q), 1) = {} /\ Len(q) \in Nat
  BY <1>1, PairStartsFinite DEF Before
<1>4. BetweenPairs'
  <2>1. AtPiece(q, 1) /\ ScannedBefore(decoded', q, 1)
    BY <1>3 DEF AtPiece, ScannedBefore
  <2>2. Len(decoded') = 2 * Cardinality(Before(PairStarts(q), 1))
    BY <1>2, <1>3, FS_EmptySet
  <2> QED
    BY <1>2, <2>1, <2>2 DEF BetweenPairs
<1>5. ScanTypes'
  BY <1>1, <1>2 DEF ScanTypes
<1> QED
  BY <1>2, <1>4, <1>5 DEF Progress, ScanOutcomes

(* A name and a value are two parts to decode.                             *)
LEMMA TwoParts ==
  ASSUME NEW name \in Seq(Chars), NEW value \in Seq(Chars)
  PROVE  <<name, value>> \in Seq(Seq(Chars))
  OBVIOUS

(* The next piece is empty, or a pair that is now at hand.                 *)
LEMMA NextPairProgress ==
  ASSUME Progress, NextPair
  PROVE  Progress'
<1> DEFINE q == request.query
<1>1. /\ scan = "decoding" /\ scan' = scan /\ request' = request /\ index' = index
      /\ out' = out /\ decoded' = decoded /\ surfaces' = surfaces /\ parts = <<>>
  BY DEF NextPair
<1>2. ScanTypes /\ q \in Seq(Chars) /\ Len(q) \in Nat
  BY LenProperties DEF Progress, ScanTypes
<1>3. BetweenPairs
  <2>1. ~DuringPair
    BY <1>1 DEF DuringPair, AtHand
  <2> QED
    BY <1>1, <2>1 DEF Progress
<1>4. PICK end \in from .. Len(q) + 1 :
        /\ First(q, {"&"}, from, end) /\ from' = end + 1
        /\ \/ SubSeq(q, from, end - 1) = <<>> /\ UNCHANGED parts
           \/ SubSeq(q, from, end - 1) # <<>> /\ NameAndValue(SubSeq(q, from, end - 1))
  BY DEF NextPair
<1>5. AtPiece(q, from) /\ from \in Nat /\ from \in 1 .. Len(q) + 1 /\ end \in Nat
  BY <1>2, <1>3, <1>4 DEF BetweenPairs, AtPiece
<1>6. CASE SubSeq(q, from, end - 1) = <<>>
  <2>1. parts' = <<>>
    BY <1>1, <1>4, <1>6
  <2>2. end = from
    <3> SUFFICES ASSUME from < end PROVE FALSE
      BY <1>4, <1>5
    <3>1. \A i \in from .. end - 1 : q[i] \in Chars
      BY <1>2, <1>4, <1>5, ElementOfSeq
    <3>2. from \in Int /\ end - 1 \in Int /\ end - from \in Nat
          /\ (end - 1) - from + 1 = end - from
      BY <1>5
    <3>3. Len(SubSeq(q, from, end - 1)) = end - from
      BY <3>1, <3>2, SliceIs
    <3> QED
      BY <1>5, <1>6, <3>3
  <2>3. /\ AtPiece(q, from + 1)
        /\ Before(PairStarts(q), from + 1) = Before(PairStarts(q), from)
    BY <1>2, <1>4, <1>5, <2>2, NoPairBetween
  <2>4. from' = from + 1
    BY <1>4, <2>2
  <2>5. BetweenPairs'
    <3>1. Len(decoded) = 2 * Cardinality(Before(PairStarts(q), from + 1))
      BY <1>3, <2>3 DEF BetweenPairs
    <3>2. ScannedBefore(decoded, q, from + 1)
      BY <1>3, <2>3 DEF BetweenPairs, ScannedBefore
    <3>3. index = 1 /\ out = <<>>
      BY <1>3 DEF BetweenPairs
    <3> QED
      BY <1>1, <2>1, <2>3, <2>4, <3>1, <3>2, <3>3 DEF BetweenPairs
  <2>6. ScanTypes'
    BY <1>1, <1>2, <2>1 DEF ScanTypes
  <2> QED
    BY <1>1, <2>5, <2>6 DEF Progress, ScanOutcomes
<1>7. CASE SubSeq(q, from, end - 1) # <<>>
  <2> DEFINE pair == SubSeq(q, from, end - 1)
  <2>1. PICK at \in 1 .. Len(pair) + 1 :
          /\ First(pair, {"="}, 1, at)
          /\ parts' = <<SubSeq(pair, 1, at - 1), SubSeq(pair, at + 1, Len(pair))>>
    BY <1>4, <1>7 DEF NameAndValue
  <2>2. PICK b, m, e : b = from /\ m = from + at - 1 /\ e = end
    OBVIOUS
  <2>3. /\ b \in PairStarts(q) /\ b \in 1 .. Len(q) + 1
        /\ e \in 1 .. Len(q) + 1 /\ m \in 1 .. Len(q) + 1
        /\ First(q, {"=", "&"}, b, m) /\ First(q, {"&"}, m, e)
        /\ SubSeq(pair, 1, at - 1) = SubSeq(q, b, m - 1)
        /\ SubSeq(pair, at + 1, Len(pair)) = SubSeq(q, m + 1, e - 1)
    <3>1. /\ q \in Seq(Chars) /\ AtPiece(q, b) /\ e \in b .. Len(q) + 1
          /\ First(q, {"&"}, b, e)
      BY <1>2, <1>4, <1>5, <2>2
    <3>2. /\ pair = SubSeq(q, b, e - 1) /\ pair # <<>>
          /\ at \in 1 .. Len(pair) + 1 /\ First(pair, {"="}, 1, at) /\ m = b + at - 1
      BY <1>7, <2>1, <2>2
    <3> HIDE DEF q, pair
    <3>3. Splits(q, b, e, pair, at, m)
      BY <3>1, <3>2 DEF Splits
    <3>4. IsPair(q, b, e, pair, at, m)
      BY <3>3, PieceIsPair, Zenon
    <3> QED
      BY <3>4, Zenon DEF IsPair
  <2>4. parts' = <<SubSeq(q, b, m - 1), SubSeq(q, m + 1, e - 1)>> /\ from' = e + 1
    BY <1>4, <2>1, <2>2, <2>3
  <2>5. SubSeq(q, b, m - 1) \in Seq(Chars) /\ SubSeq(q, m + 1, e - 1) \in Seq(Chars)
    <3>1. /\ b \in Nat /\ 1 <= b /\ m - 1 \in Int /\ m - 1 <= Len(q)
          /\ m + 1 \in Nat /\ 1 <= m + 1 /\ e - 1 \in Int /\ e - 1 <= Len(q)
      <4>1. /\ b \in 1 .. Len(q) + 1 /\ m \in 1 .. Len(q) + 1
            /\ e \in 1 .. Len(q) + 1 /\ Len(q) \in Nat
        BY <1>2, <2>3, Zenon
      <4> HIDE DEF q
      <4> QED
        BY <4>1
    <3> QED
      BY <1>2, <3>1, SliceType
  <2>6. AtHand(b, m, e)'
    <3>1. ScannedBefore(decoded, q, b) /\ Len(decoded) = 2 * Cardinality(Before(PairStarts(q), b))
      BY <1>3, <2>2 DEF BetweenPairs
    <3> QED
      BY <1>1, <2>3, <2>4, <3>1 DEF AtHand
  <2>7. InComponent'
    <3>1. parts'[1] = SubSeq(q, b, m - 1) /\ index' = 1 /\ out' = <<>>
      BY <1>1, <1>3, <2>4 DEF BetweenPairs
    <3>2. 1 \in 1 .. Len(SubSeq(q, b, m - 1)) + 1
      BY <2>5, LenProperties
    <3> QED
      BY <2>5, <3>1, <3>2, UnquotingStarts DEF InComponent
  <2>8. DuringPair'
    BY <1>1, <2>3, <2>6, <2>7 DEF DuringPair
  <2>9. ScanTypes'
    <3>1. parts' \in Seq(Seq(Chars))
      BY <2>4, <2>5, TwoParts
    <3> QED
      BY <1>1, <1>2, <3>1 DEF ScanTypes
  <2> QED
    BY <1>1, <2>8, <2>9 DEF Progress, ScanOutcomes
<1> QED
  BY <1>6, <1>7

(* While a component is at hand the decoder is in it, at a place where a   *)
(* character begins.                                                       *)
LEMMA DecoderIn ==
  ASSUME Progress, Decoding
  PROVE  /\ DuringPair /\ ScanTypes /\ parts[1] \in Seq(Chars) /\ Len(parts[1]) \in Nat
         /\ index \in 1 .. Len(parts[1]) /\ index \in CharStarts(parts[1])
         /\ ~InEscape(parts[1], index) /\ Unquoting(out, parts[1], index)
<1>1. scan = "decoding" /\ parts # <<>> /\ index <= Len(Component)
  BY DEF Decoding
<1>2. DuringPair /\ ScanTypes
  BY <1>1 DEF Progress, BetweenPairs
<1>3. parts[1] \in Seq(Chars) /\ Len(parts[1]) \in Nat
  <2>1. parts \in Seq(Seq(Chars)) /\ Len(parts) \in Nat /\ Len(parts) # 0
    BY <1>1, <1>2, EmptySeq, LenProperties DEF ScanTypes
  <2> QED
    BY <2>1, ElementOfSeq, LenProperties
<1>4. /\ index \in 1 .. Len(parts[1]) + 1 /\ ~InEscape(parts[1], index)
      /\ Unquoting(out, parts[1], index)
  BY <1>2 DEF DuringPair, InComponent
<1>5. Len(Component) = Len(parts[1])
  <2>1. Component \in [1 .. Len(parts[1]) -> Chars \cup {" "}]
    BY <1>3, ElementOfSeq, LenProperties DEF Component, Spaced
  <2> QED
    BY <1>3, <2>1, FunctionIsSeq
<1>6. index \in 1 .. Len(parts[1])
  BY <1>1, <1>3, <1>4, <1>5
<1> QED
  BY <1>2, <1>3, <1>4, <1>6, LenProperties DEF CharStarts

(* A character decoded, the decoder is where the next one begins.          *)
LEMMA DecodesOn ==
  ASSUME Progress, Decoding, NEW k \in Nat, index < k, k <= Len(parts[1]) + 1,
         ~InEscape(parts[1], k), \A j \in CharStarts(parts[1]) : ~(index < j /\ j < k),
         CharFrom(parts[1], index) \in Values,
         out' = Append(out, CharFrom(parts[1], index)), index' = k,
         UNCHANGED <<request, from, parts, decoded, surfaces, scan>>
  PROVE  Progress'
<1> DEFINE c == parts[1]
<1>1. /\ DuringPair /\ ScanTypes /\ c \in Seq(Chars) /\ index \in 1 .. Len(c)
      /\ index \in CharStarts(c) /\ Unquoting(out, c, index) /\ Len(c) \in Nat
  BY DecoderIn
<1>2. out \in Seq(Values) /\ out' \in Seq(Values)
  BY <1>1, AppendProperties DEF ScanTypes
<1>3. Unquoting(out', c, k)
  BY <1>1, <1>2, UnquotesOn
<1>4. InComponent'
  BY <1>1, <1>3 DEF InComponent
<1>5. DuringPair'
  BY <1>1, <1>4 DEF DuringPair, AtHand
<1>6. ScanTypes'
  BY <1>1, <1>2 DEF ScanTypes
<1> QED
  BY <1>5, <1>6 DEF Progress, Decoding, ScanOutcomes

(* The two digits of an escape begin no character.                         *)
LEMMA EscapeProgress ==
  ASSUME Progress, Escape
  PROVE  Progress'
<1> DEFINE c == parts[1]
<1>1. Decoding /\ EscapeAt(Spaced(c), index)
  BY DEF Escape, Component
<1>2. c \in Seq(Chars) /\ index \in 1 .. Len(c) /\ Len(c) \in Nat
  BY <1>1, DecoderIn
<1>3. /\ index \in Escapes(c) /\ CharFrom(c, index) \in Values
      /\ out' = Append(out, CharFrom(c, index))
  BY <1>1, <1>2, EscapeIsOne DEF Escape, Component
<1>4. /\ index + 3 \in Nat /\ index < index + 3 /\ index + 3 <= Len(c) + 1
      /\ ~InEscape(c, index + 3)
  <2>1. ~InEscape(c, index + 3)
    BY <1>3, EscapesApart
  <2>2. index \in Nat /\ index + 2 <= Len(c)
    BY <1>2, <1>3 DEF Escapes
  <2>3. index + 3 \in Nat /\ index < index + 3 /\ index + 3 <= Len(c) + 1
    BY <1>2, <2>2
  <2> QED
    BY <2>1, <2>3
<1>5. ASSUME NEW j \in CharStarts(c), index < j, j < index + 3 PROVE FALSE
  <2>1. j \in 1 .. Len(c) /\ ~InEscape(c, j)
    BY <1>2, CharStartsFinite DEF CharStarts
  <2>2. j \in {index + 1, index + 2}
    BY <1>2, <1>5, <2>1
  <2> QED
    BY <1>3, <2>1, <2>2 DEF InEscape
<1>6. index' = index + 3 /\ UNCHANGED <<request, from, parts, decoded, surfaces, scan>>
  BY DEF Escape
<1> QED
  BY <1>1, <1>3, <1>4, <1>5, <1>6, DecodesOn

(* A character that is no escape is decoded as it stands.                  *)
LEMMA LiteralProgress ==
  ASSUME Progress, Literal
  PROVE  Progress'
<1> DEFINE c == parts[1]
<1>1. Decoding /\ ~EscapeAt(Spaced(c), index)
  BY DEF Literal, Component
<1>2. c \in Seq(Chars) /\ index \in 1 .. Len(c) /\ Len(c) \in Nat /\ ~InEscape(c, index)
  BY <1>1, DecoderIn
<1>3. /\ index \notin Escapes(c) /\ CharFrom(c, index) \in Values
      /\ out' = Append(out, CharFrom(c, index))
  BY <1>1, <1>2, EscapeIsOne DEF Literal, Component
<1>4. /\ index + 1 \in Nat /\ index < index + 1 /\ index + 1 <= Len(c) + 1
      /\ ~InEscape(c, index + 1)
  BY <1>2, <1>3, LiteralsApart
<1>5. \A j \in CharStarts(c) : ~(index < j /\ j < index + 1)
  BY <1>2, CharStartsFinite
<1>6. index' = index + 1 /\ UNCHANGED <<request, from, parts, decoded, surfaces, scan>>
  BY DEF Literal
<1> QED
  BY <1>1, <1>3, <1>4, <1>5, <1>6, DecodesOn

(* A component over, it is pushed: after a name the value is at hand,      *)
(* after a value the pair is over.                                         *)
LEMMA DoneProgress ==
  ASSUME Progress, ComponentDone
  PROVE  Progress'
<1> DEFINE q == request.query
           c == parts[1]
<1>1. /\ scan = "decoding" /\ parts # <<>> /\ index > Len(Spaced(c))
      /\ decoded' = Append(decoded, out) /\ parts' = Tail(parts)
      /\ index' = 1 /\ out' = <<>>
      /\ scan' = scan /\ request' = request /\ from' = from /\ surfaces' = surfaces
  BY DEF ComponentDone, Component
<1>2. DuringPair /\ ScanTypes
  BY <1>1 DEF Progress, BetweenPairs
<1>3. /\ q \in Seq(Chars) /\ Len(q) \in Nat /\ parts \in Seq(Seq(Chars))
      /\ decoded \in Seq(Seq(Values)) /\ out \in Seq(Values)
      /\ decoded' \in Seq(Seq(Values))
  <2>1. /\ q \in Seq(Chars) /\ parts \in Seq(Seq(Chars))
        /\ decoded \in Seq(Seq(Values)) /\ out \in Seq(Values)
    BY <1>2 DEF ScanTypes
  <2>2. decoded' \in Seq(Seq(Values))
    <3> HIDE DEF q
    <3> QED
      BY <1>1, <2>1, AppendProperties
  <2> QED
    BY <2>1, <2>2, LenProperties
<1>4. c \in Seq(Chars) /\ Len(c) \in Nat /\ Tail(parts) \in Seq(Seq(Chars))
  BY <1>1, <1>3, HeadTailProperties, LenProperties
<1>5. Len(Spaced(c)) = Len(c)
  <2>1. Spaced(c) \in [1 .. Len(c) -> Chars \cup {" "}]
    BY <1>4, ElementOfSeq, LenProperties DEF Spaced
  <2> QED
    BY <1>4, <2>1, FunctionIsSeq
<1>6. UnquotePlus(out, c)
  BY <1>1, <1>2, <1>4, <1>5, UnquotedAtEnd DEF DuringPair, InComponent
<1>7. ScanTypes'
  BY <1>1, <1>3, <1>4, EmptySeq DEF ScanTypes
<1>8. PICK b, m, e \in 1 .. Len(q) + 1 : AtHand(b, m, e)
  BY <1>2 DEF DuringPair
<1> DEFINE done == 2 * Cardinality(Before(PairStarts(q), b))
           name == SubSeq(q, b, m - 1)
           value == SubSeq(q, m + 1, e - 1)
<1>9. /\ b \in PairStarts(q) /\ First(q, {"=", "&"}, b, m) /\ First(q, {"&"}, m, e)
      /\ from = e + 1 /\ ScannedBefore(decoded, q, b) /\ done \in Nat
      /\ \/ parts = <<name, value>> /\ Len(decoded) = done
         \/ parts = <<value>> /\ Len(decoded) = done + 1 /\ UnquotePlus(decoded[done + 1], name)
  <2>1. b \in PairStarts(q) /\ First(q, {"=", "&"}, b, m) /\ First(q, {"&"}, m, e)
    BY <1>8 DEF AtHand
  <2>2. from = e + 1 /\ ScannedBefore(decoded, q, b)
    BY <1>8 DEF AtHand
  <2>3. \/ parts = <<name, value>> /\ Len(decoded) = done
        \/ parts = <<value>> /\ Len(decoded) = done + 1 /\ UnquotePlus(decoded[done + 1], name)
    BY <1>8 DEF AtHand
  <2>4. done \in Nat
    <3>1. b \in Nat /\ Cardinality(Before(PairStarts(q), b)) \in Nat
      BY <1>3, <2>1, PairStartsFinite, PlacesBefore
    <3> QED
      BY <3>1
  <2> QED
    BY <2>1, <2>2, <2>3, <2>4
<1>10. value \in Seq(Chars)
  <2>1. m + 1 \in Nat /\ 1 <= m + 1 /\ e - 1 \in Int /\ e - 1 <= Len(q)
    BY <1>3, <1>8
  <2> QED
    BY <1>3, <2>1, SliceType
<1>11. CASE parts = <<name, value>> /\ Len(decoded) = done
  <2>1. parts' = <<value>> /\ c = name
    <3> HIDE DEF name, value
    <3> QED
      BY <1>1, <1>11
  <2>2. ScannedBefore(decoded', q, b)
    <3>1. b \in Nat /\ done <= Len(decoded)
      BY <1>8, <1>9, <1>11
    <3> QED
      BY <1>1, <1>3, <1>9, <3>1, ScannedStays
  <2>3. Len(decoded') = done + 1 /\ decoded'[done + 1] = out
    BY <1>1, <1>3, <1>11, AppendProperties
  <2>4. AtHand(b, m, e)'
    <3>1. UnquotePlus(decoded'[done + 1], name)
      BY <1>6, <2>1, <2>3
    <3> QED
      BY <1>1, <1>9, <2>1, <2>2, <2>3, <3>1 DEF AtHand
  <2>5. InComponent'
    <3>1. parts'[1] = value /\ 1 \in 1 .. Len(value) + 1
      BY <1>10, <2>1, LenProperties
    <3> QED
      BY <1>1, <1>10, <3>1, UnquotingStarts DEF InComponent
  <2>6. DuringPair'
    BY <1>1, <1>8, <2>4, <2>5 DEF DuringPair
  <2> QED
    BY <1>1, <1>7, <2>6 DEF Progress, ScanOutcomes
<1>12. CASE /\ parts = <<value>> /\ Len(decoded) = done + 1
            /\ UnquotePlus(decoded[done + 1], name)
  <2>1. parts' = <<>> /\ c = value
    <3> HIDE DEF value
    <3> QED
      BY <1>1, <1>12
  <2>2. /\ Len(decoded') = 2 * Cardinality(Before(PairStarts(q), e + 1))
        /\ ScannedBefore(decoded', q, e + 1)
    <3>1. UnquotePlus(out, value) /\ UnquotePlus(decoded[Len(decoded)], name)
      BY <1>6, <1>12, <2>1
    <3>2. Len(decoded) = 2 * Cardinality(Before(PairStarts(q), b)) + 1
      BY <1>12
    <3>3. /\ b \in PairStarts(q) /\ First(q, {"=", "&"}, b, m) /\ First(q, {"&"}, m, e)
          /\ ScannedBefore(decoded, q, b) /\ q \in Seq(Chars)
          /\ decoded \in Seq(Seq(Values)) /\ out \in Seq(Values)
          /\ m \in 1 .. Len(q) + 1 /\ e \in 1 .. Len(q) + 1
      BY <1>3, <1>8, <1>9
    <3>4. /\ Len(Append(decoded, out)) = 2 * Cardinality(Before(PairStarts(q), e + 1))
          /\ ScannedBefore(Append(decoded, out), q, e + 1)
      <4>1. UnquotePlus(decoded[Len(decoded)], SubSeq(q, b, m - 1))
        BY <3>1
      <4>2. UnquotePlus(out, SubSeq(q, m + 1, e - 1))
        BY <3>1
      <4> HIDE DEF q, c, done, name, value
      <4> QED
        BY <3>2, <3>3, <4>1, <4>2, PairDone
    <3> QED
      BY <1>1, <3>4
  <2>3. AtPiece(q, e + 1)
    BY <1>3, <1>8, <1>9, PairIsOver
  <2>4. BetweenPairs'
    BY <1>1, <1>9, <2>1, <2>2, <2>3 DEF BetweenPairs
  <2> QED
    BY <1>1, <1>7, <2>4 DEF Progress, ScanOutcomes
<1> QED
  BY <1>9, <1>11, <1>12

(* The engine is called when no piece is left: every pair is decoded.      *)
LEMMA EngineProgress ==
  ASSUME Progress, EngineScans
  PROVE  Progress'
<1> DEFINE q == request.query
<1>1. /\ scan = "decoding" /\ parts = <<>> /\ from > Len(q) + 1
      /\ surfaces'.query_params = decoded /\ scan' \in ScanOutcomes
      /\ UNCHANGED <<request, from, parts, index, out, decoded>>
  BY DEF EngineScans
<1>2. BetweenPairs /\ ScanTypes /\ q \in Seq(Chars)
  BY <1>1 DEF Progress, DuringPair, AtHand, ScanTypes
<1>3. Before(PairStarts(q), from) = PairStarts(q)
  <2>1. \A j \in PairStarts(q) : j \in 1 .. Len(q)
    BY <1>2, PairStartsFinite
  <2>2. from \in Nat /\ Len(q) \in Nat
    BY <1>2, LenProperties DEF BetweenPairs, AtPiece
  <2>3. \A j \in PairStarts(q) : j < from
    BY <1>1, <2>1, <2>2
  <2> QED
    BY <2>3 DEF Before
<1>4. QueryScanned(decoded, q)
  BY <1>2, <1>3 DEF BetweenPairs, ScannedBefore, QueryScanned
<1>5. ScanTypes'
  BY <1>1, <1>2 DEF ScanTypes
<1> QED
  BY <1>1, <1>4, <1>5 DEF Progress, ScanOutcomes

(* The inductive invariant of the scan.                                    *)
THEOREM ScanProgress == ScanSpec => []Progress
<1>1. Progress /\ [ScanNext]_allVars => Progress'
  <2> SUFFICES ASSUME Progress, [ScanNext]_allVars PROVE Progress'
    OBVIOUS
  <2>1. CASE Buffering
    BY <2>1, ProgressStays DEF Buffering
  <2>2. CASE Begin
    BY <2>2, BeginProgress
  <2>3. CASE NextPair
    BY <2>3, NextPairProgress
  <2>4. CASE Escape
    BY <2>4, EscapeProgress
  <2>5. CASE Literal
    BY <2>5, LiteralProgress
  <2>6. CASE ComponentDone
    BY <2>6, DoneProgress
  <2>7. CASE EngineScans
    BY <2>7, EngineProgress
  <2>8. CASE UNCHANGED allVars
    BY <2>8, ProgressStays DEF allVars
  <2> QED
    BY <2>1, <2>2, <2>3, <2>4, <2>5, <2>6, <2>7, <2>8 DEF ScanNext
<1> QED
  BY <1>1, ProgressStarts, PTL DEF ScanSpec

(* Whatever the client sends, the engine is given all of it: the body byte *)
(* by byte, and each pair of the query in its place, decoded as a handler  *)
(* behind the guard decodes it, with nothing left out and nothing added.   *)
THEOREM RequestIsScanned == ScanSpec => []WholeRequestScanned
<1>1. Progress /\ Delivered => WholeRequestScanned
  BY DEF Progress, Delivered, WholeRequestScanned
<1> QED
  BY <1>1, ScanProgress, BodySurfaceWhole, PTL

(* No digit of an escape is read again, whatever the query.                *)
THEOREM DecodesOnce == ScanSpec => []NeverInsideEscape
<1>1. Progress => NeverInsideEscape
  BY DecoderIn DEF NeverInsideEscape
<1> QED
  BY <1>1, ScanProgress, PTL
=============================================================================

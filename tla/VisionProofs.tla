----------------------------- MODULE VisionProofs -----------------------------
(***************************************************************************)
(* Theorems about the vision engine: the pixels of a frame (VisionFrame)   *)
(* and the loading of the models (ModelInventory).                         *)
(***************************************************************************)
EXTENDS VisionFrame, ModelInventory, FiniteSetTheorems, WellFoundedInduction, TLAPS

-----------------------------------------------------------------------------
(* VisionFrame.  Both passes over the pixels stay inside their buffers.    *)

(* While a pass is running, the request has the geometry ImageView::new    *)
(* accepted and the cursor is on one of its pixels; it starts at the first.*)
Scanning ==
    /\ request \in Requests
    /\ stage = "parse" => x = 0 /\ y = 0
    /\ stage \in {"quality", "convert"} =>
          /\ request.format \in 1..3 /\ request.width > 0 /\ request.height > 0
          /\ request.stride >= request.width * bytes_per_pixel(request.format)
          /\ request.length = request.stride * request.height
          /\ x \in 0..(request.width - 1) /\ y \in 0..(request.height - 1)

(* Products are monotone. *)
LEMMA Monotone ==
  ASSUME NEW a \in Nat, NEW b \in Nat, NEW s \in Nat, a <= b
  PROVE  a * s <= b * s
  BY Z3

(* A row below the last ends before the end of the rows. *)
LEMMA RowInside ==
  ASSUME NEW a \in Nat, NEW b \in Nat, NEW s \in Nat, a + 1 <= b
  PROVE  a * s + s <= b * s
<1>1. (a + 1) * s <= b * s
  BY Monotone, a + 1 \in Nat
<1>2. (a + 1) * s = a * s + s
  BY Z3
<1> QED BY <1>1, <1>2

(* The last byte of a pixel of k bytes lies inside h rows of s bytes each, *)
(* of which w pixels are used.                                             *)
LEMMA PixelInside ==
  ASSUME NEW w \in Nat, NEW h \in Nat, NEW s \in Nat, NEW k \in Nat, s >= w * k,
         NEW i \in 0..(w - 1), NEW j \in 0..(h - 1)
  PROVE  j * s + i * k + k <= s * h
<1>1. i * k + k <= w * k
  BY RowInside
<1>2. j * s + s <= h * s
  BY RowInside
<1>3. h * s = s * h
  BY Z3
<1>4. i * k \in Nat /\ j * s \in Nat /\ w * k \in Nat /\ h * s \in Nat
  BY Z3
<1> QED BY <1>1, <1>2, <1>3, <1>4

LEMMA RequestTyped ==
  ASSUME request \in Requests
  PROVE  /\ request.width \in Nat /\ request.height \in Nat /\ request.stride \in Nat
         /\ request.length \in Nat /\ request.format \in Nat
  BY RequestsAreTyped

LEMMA PixelSize ==
  ASSUME NEW f \in 1..3
  PROVE  /\ bytes_per_pixel(f) \in Nat
         /\ (IF f = 3 THEN 0 ELSE 2) < bytes_per_pixel(f)
  BY DEF bytes_per_pixel

(* ImageView::new accepts a geometry whose rows and total are exact. *)
LEMMA AcceptedGeometry ==
  ASSUME request \in Requests, parse_request(request) = "ok"
  PROVE  /\ request.format \in 1..3 /\ request.width > 0 /\ request.height > 0
         /\ request.stride >= request.width * bytes_per_pixel(request.format)
         /\ request.length = request.stride * request.height
<1>1. request.format \in 1..3 /\ ImageView_new(request) = "ok"
  BY DEF parse_request
<1>2. /\ request.width # 0 /\ request.height # 0
      /\ ~(request.stride < request.width * bytes_per_pixel(request.format))
      /\ request.length = request.stride * request.height
  BY <1>1 DEF ImageView_new
<1>3. request.width * bytes_per_pixel(request.format) \in Nat
  BY <1>1, RequestTyped, PixelSize
<1> QED BY <1>1, <1>2, <1>3, RequestTyped

LEMMA InitScanning == Init => Scanning
  BY DEF Init, Scanning

(* The cursor stays on the picture. *)
LEMMA CursorStays ==
  ASSUME request \in Requests, request.width > 0, request.height > 0, ~LastPixel, NextPixel,
         x \in 0..(request.width - 1), y \in 0..(request.height - 1)
  PROVE  x' \in 0..(request.width - 1) /\ y' \in 0..(request.height - 1)
  BY RequestTyped DEF NextPixel, LastPixel

LEMMA FailsScanning ==
  ASSUME Scanning, NEW code, Fails(code)
  PROVE  Scanning'
  BY DEF Scanning, Fails

LEMMA NextScanning ==
  ASSUME Scanning, [Next]_vars
  PROVE  Scanning'
<1> USE DEF Scanning
<1>1. CASE Parse
  <2>1. CASE parse_request(request) # "ok"
    BY <1>1, <2>1, FailsScanning DEF Parse
  <2>2. CASE parse_request(request) = "ok"
    BY <1>1, <2>2, AcceptedGeometry, RequestTyped DEF Parse
  <2> QED BY <2>1, <2>2
<1>2. CASE DeadlinePasses
  BY <1>2 DEF DeadlinePasses
<1>3. CASE calculate_quality
  <2>1. CASE Fails("DeadlineExceeded")
    BY <2>1, FailsScanning
  <2>2. CASE /\ request' = request /\ stage = "quality"
             /\ LastPixel /\ stage' = "convert" /\ x' = 0 /\ y' = 0
    BY <2>2, RequestTyped
  <2>3. CASE /\ request' = request /\ stage = "quality" /\ stage' = stage
             /\ ~LastPixel /\ NextPixel
    BY <2>3, CursorStays
  <2> QED BY <1>3, <2>1, <2>2, <2>3 DEF calculate_quality
<1>4. CASE convert_to_bgr
  BY <1>4, FailsScanning, CursorStays DEF convert_to_bgr
<1>5. CASE detect_raw
  BY <1>5, FailsScanning DEF detect_raw
<1>6. CASE validate_detections
  BY <1>6, FailsScanning DEF validate_detections
<1>7. CASE process_request
  BY <1>7, FailsScanning DEF process_request
<1>8. CASE UNCHANGED vars
  BY <1>8 DEF vars
<1> QED BY <1>1, <1>2, <1>3, <1>4, <1>5, <1>6, <1>7, <1>8 DEF Next

(* The bounds of both passes follow from the geometry. *)
LEMMA ScanningInside == Scanning => PixelsInside
<1> SUFFICES ASSUME Scanning, stage \in {"quality", "convert"}
             PROVE  /\ Offset + (IF request.format = 3 THEN 0 ELSE 2) < request.length
                    /\ stage = "convert" => Target + 2 < OutputSize(request)
  BY DEF PixelsInside
<1> DEFINE k == bytes_per_pixel(request.format)
           rw == runtime_width(request)
           rh == runtime_height(request)
<1>1. request \in Requests
  BY DEF Scanning
<1>2. /\ request.format \in 1..3 /\ request.stride >= request.width * k
      /\ request.length = request.stride * request.height
      /\ x \in 0..(request.width - 1) /\ y \in 0..(request.height - 1)
  BY DEF Scanning
<1>3. k \in Nat /\ (IF request.format = 3 THEN 0 ELSE 2) < k
  BY <1>2, PixelSize
<1>4. /\ request.width \in Nat /\ request.height \in Nat /\ request.stride \in Nat
      /\ request.format \in Nat
  BY <1>1, RequestTyped
<1>5. Offset + (IF request.format = 3 THEN 0 ELSE 2) < request.length
  <2> HIDE DEF k
  <2>1. y * request.stride + x * k + k <= request.stride * request.height
    BY <1>2, <1>3, <1>4, PixelInside
  <2>2. y * request.stride + x * k \in Nat /\ request.stride * request.height \in Nat
    BY <1>2, <1>3, <1>4
  <2>3. Offset = y * request.stride + x * k
    BY DEF Offset, k
  <2> QED BY <1>2, <1>3, <2>1, <2>2, <2>3
<1>6. rw \in Nat /\ rh \in Nat /\ request.width <= rw /\ request.height <= rh
  BY <1>4, BoundsAreNatural DEF runtime_width, runtime_height, Larger
<1>7. Target + 2 < OutputSize(request)
  <2> HIDE DEF rw, rh
  <2>1. x \in 0..(rw - 1) /\ y \in 0..(rh - 1)
    BY <1>2, <1>4, <1>6
  <2>2. rw * 3 \in Nat /\ rw * 3 >= rw * 3
    BY <1>6
  <2>3. y * (rw * 3) + x * 3 + 3 <= (rw * 3) * rh
    BY <2>1, <2>2, <1>6, PixelInside
  <2>4. y * (rw * 3) = y * rw * 3 /\ (rw * 3) * rh = rw * rh * 3
    BY <2>1, <1>6, Z3
  <2>5. y * rw * 3 \in Nat /\ rw * rh * 3 \in Nat /\ x * 3 \in Nat
    BY <2>1, <1>6
  <2>6. Target = y * rw * 3 + x * 3 /\ OutputSize(request) = rw * rh * 3
    BY DEF Target, OutputSize, rw, rh
  <2> QED BY <2>3, <2>4, <2>5, <2>6
<1> QED BY <1>5, <1>7

(* Neither pass over a frame that ImageView::new accepted reads beyond its *)
(* last byte, nor writes beyond the end of the detector's buffer, for      *)
(* frames of every size and every limit on them.                           *)
THEOREM PixelsStayInside == Spec => []PixelsInside
<1>1. Init => Scanning
  BY InitScanning
<1>2. Scanning /\ [Next]_vars => Scanning'
  BY NextScanning
<1>3. Scanning => PixelsInside
  BY ScanningInside
<1> QED BY <1>1, <1>2, <1>3, PTL DEF Spec

-----------------------------------------------------------------------------
(* ModelInventory.  What the parser computes, for every text, by induction *)
(* on its lines; then the invariant of a load.                             *)

(* A set of numbers with 0 and the successor of each of its elements. *)
LEMMA Induct ==
    ASSUME NEW T, T \subseteq Nat, 0 \in T, \A n \in T : n + 1 \in T
    PROVE  T = Nat
<1> DEFINE R == OpToRel(<, Nat)
<1>1. SUFFICES ASSUME Nat \ T # {} PROVE FALSE
  OBVIOUS
<1>2. IsWellFoundedOn(R, Nat)
  BY NatLessThanWellFounded
<1>3. PICK m \in Nat \ T : \A k \in Nat \ T : ~(<<k, m>> \in R)
  <2> HIDE DEF R
  <2> QED BY <1>1, <1>2, WFMin, Zenon
<1>4. \A k \in Nat \ T : ~(k < m)
  BY <1>3 DEF OpToRel
<1>5. m # 0 /\ m \in Nat
  BY <1>3, Zenon
<1>6. m - 1 \in Nat /\ m - 1 < m /\ (m - 1) + 1 = m
  BY <1>5
<1>7. m - 1 \in T
  BY <1>4, <1>6, Zenon
<1> QED BY <1>3, <1>6, <1>7, Zenon

(* The prefix of n lines, if the parser has accepted each of them. *)
PrefixFine(lines, n) ==
    /\ n <= MAX_MANIFEST_ENTRIES
    /\ \A i \in 1..n : ValidLine(lines[i])
    /\ \A i, j \in 1..n :
          i < j => lines[i].path < lines[j].path /\ lines[i].id # lines[j].id

Accepted(lines, n) == IF PrefixFine(lines, n) THEN SubSeq(lines, 1, n) ELSE Nothing

(* What one round of the loop of parse makes of the table of the prefixes. *)
ParseStep(lines, g) ==
    [n \in 0..Len(lines) |->
        IF n = 0 THEN << >>
        ELSE IF g[n - 1] = Nothing THEN Nothing
        ELSE IF Accepts(g[n - 1], lines[n]) THEN Append(g[n - 1], lines[n]) ELSE Nothing]

LEMMA ParseTable ==
    ASSUME NEW text
    PROVE  LET e == CHOOSE g : g = ParseStep(text.lines, g)
           IN  parse(text) = IF text.header /\ e[Len(text.lines)] # << >>
                             THEN e[Len(text.lines)] ELSE Nothing
  BY DEF parse, ParseStep

LEMMA PrefixGrows ==
    ASSUME NEW lines, NEW S, lines \in Seq(S), NEW n \in Nat, n + 1 <= Len(lines),
           MAX_MANIFEST_ENTRIES \in Nat,
           \A i \in 1..Len(lines) : lines[i].path \in Nat,
           PrefixFine(lines, n)
    PROVE  PrefixFine(lines, n + 1) <=> Accepts(SubSeq(lines, 1, n), lines[n + 1])
<1> DEFINE s == SubSeq(lines, 1, n)
           Path(i) == lines[i].path
           Id(i) == lines[i].id
<1>1. s \in Seq(S) /\ Len(s) = n /\ \A i \in 1..n : s[i] = lines[i]
  OBVIOUS
<1>2. /\ s # << >> <=> n # 0
      /\ n # 0 => s[Len(s)] = lines[n]
  BY <1>1
<1>3. \A i \in 1..n : Path(i) \in Nat
  <2>1. \A i \in 1..n : i \in 1..Len(lines)
    OBVIOUS
  <2> QED BY <2>1
<1>4. Path(n + 1) \in Nat
  <2>1. n + 1 \in 1..Len(lines)
    OBVIOUS
  <2> QED BY <2>1
<1>5. /\ \A i \in 1..n : ValidLine(lines[i])
      /\ \A i, j \in 1..n : i < j => Path(i) < Path(j) /\ Id(i) # Id(j)
      /\ n <= MAX_MANIFEST_ENTRIES
  BY DEF PrefixFine
<1>6. PrefixFine(lines, n + 1) <=>
         /\ n + 1 <= MAX_MANIFEST_ENTRIES
         /\ \A i \in 1..(n + 1) : ValidLine(lines[i])
         /\ \A i, j \in 1..(n + 1) : i < j => Path(i) < Path(j) /\ Id(i) # Id(j)
  BY DEF PrefixFine
<1>7. Accepts(s, lines[n + 1]) <=>
         /\ ValidLine(lines[n + 1])
         /\ n # 0 => Path(n) < Path(n + 1)
         /\ \A i \in 1..n : Id(i) # Id(n + 1) /\ Path(i) # Path(n + 1)
         /\ n < MAX_MANIFEST_ENTRIES
  BY <1>1, <1>2 DEF Accepts
<1> HIDE DEF s, Path, Id
<1>8. ASSUME PrefixFine(lines, n + 1) PROVE Accepts(s, lines[n + 1])
  <2>1. n + 1 \in 1..(n + 1) /\ (n # 0 => n \in 1..(n + 1) /\ n < n + 1)
    OBVIOUS
  <2>2. \A i \in 1..n : i \in 1..(n + 1) /\ i < n + 1
    OBVIOUS
  <2>3. \A i \in 1..n : Path(i) < Path(n + 1) /\ Id(i) # Id(n + 1)
    BY <1>6, <1>8, <2>1, <2>2, Zenon
  <2>4. \A i \in 1..n : Path(i) # Path(n + 1)
    BY <1>3, <1>4, <2>3
  <2>5. n # 0 => Path(n) < Path(n + 1)
    BY <1>6, <1>8, <2>1, Zenon
  <2>6. n < MAX_MANIFEST_ENTRIES
    BY <1>6, <1>8
  <2> QED BY <1>6, <1>7, <1>8, <2>1, <2>3, <2>4, <2>5, <2>6, Zenon
<1>9. ASSUME Accepts(s, lines[n + 1]) PROVE PrefixFine(lines, n + 1)
  <2>1. n + 1 <= MAX_MANIFEST_ENTRIES
    BY <1>7, <1>9
  <2>2. \A i \in 1..(n + 1) : i \in 1..n \/ i = n + 1
    OBVIOUS
  <2>3. \A i \in 1..(n + 1) : ValidLine(lines[i])
    BY <1>5, <1>7, <1>9, <2>2, Zenon
  <2>4. \A i \in 1..n : Path(i) < Path(n + 1)
    <3> SUFFICES ASSUME NEW i \in 1..n PROVE Path(i) < Path(n + 1)
      OBVIOUS
    <3>1. n # 0 /\ n \in 1..n /\ (i < n \/ i = n)
      OBVIOUS
    <3>2. Path(n) < Path(n + 1) /\ (i < n => Path(i) < Path(n))
      BY <1>5, <1>7, <1>9, <3>1, Zenon
    <3> QED BY <1>3, <1>4, <3>1, <3>2
  <2>5. ASSUME NEW i \in 1..(n + 1), NEW j \in 1..(n + 1), i < j
        PROVE  Path(i) < Path(j) /\ Id(i) # Id(j)
    <3>1. i \in 1..n
      BY <2>5
    <3>2. CASE j \in 1..n
      BY <1>5, <2>5, <3>1, <3>2, Zenon
    <3>3. CASE j = n + 1
      BY <1>7, <1>9, <2>4, <3>1, <3>3, Zenon
    <3> QED BY <2>2, <3>2, <3>3, Zenon
  <2> QED BY <1>6, <2>1, <2>3, <2>5, Zenon
<1> QED BY <1>8, <1>9, Zenon DEF s

LEMMA AcceptedNext ==
    ASSUME NEW text, IsText(text), NEW n \in Nat, n + 1 <= Len(text.lines),
           MAX_MANIFEST_ENTRIES \in Nat
    PROVE  LET g == Accepted(text.lines, n)
           IN  Accepted(text.lines, n + 1) =
                   IF g = Nothing THEN Nothing
                   ELSE IF Accepts(g, text.lines[n + 1]) THEN Append(g, text.lines[n + 1])
                   ELSE Nothing
<1> DEFINE lines == text.lines
<1>1. lines \in Seq(Range(lines)) /\ \A i \in 1..Len(lines) : lines[i].path \in Nat
  BY DEF IsText
<1>2. SubSeq(lines, 1, n) # Nothing
  <2>1. n \in 0..Len(lines)
    BY <1>1
  <2> QED BY <2>1 DEF IsText
<1>3. Append(SubSeq(lines, 1, n), lines[n + 1]) = SubSeq(lines, 1, n + 1)
  <2> DEFINE S == Range(lines)
  <2>1. lines \in Seq(S)
    BY <1>1
  <2> HIDE DEF lines, S
  <2> QED BY <2>1
<1>4. PrefixFine(lines, n + 1) => PrefixFine(lines, n)
  <2>1. \A i \in 1..n : i \in 1..(n + 1)
    OBVIOUS
  <2>2. n + 1 <= MAX_MANIFEST_ENTRIES => n <= MAX_MANIFEST_ENTRIES
    OBVIOUS
  <2> HIDE DEF lines
  <2> QED BY <2>1, <2>2, Zenon DEF PrefixFine
<1>5. PrefixFine(lines, n) =>
         (PrefixFine(lines, n + 1) <=> Accepts(SubSeq(lines, 1, n), lines[n + 1]))
  <2> DEFINE S == Range(lines)
  <2>1. lines \in Seq(S) /\ n + 1 <= Len(lines)
    BY <1>1
  <2> HIDE DEF lines, S
  <2> QED BY <1>1, <2>1, PrefixGrows
<1> HIDE DEF lines
<1>6. CASE PrefixFine(lines, n)
  BY <1>2, <1>3, <1>5, <1>6, Zenon DEF Accepted, lines
<1>7. CASE ~PrefixFine(lines, n)
  BY <1>4, <1>7, Zenon DEF Accepted, lines
<1> QED BY <1>6, <1>7, Zenon

(* ModelManifest::parse, line by line, accepts the texts that are          *)
(* well-formed as a whole, and returns all their lines: for every text.    *)
THEOREM ParserExact ==
    ASSUME NEW text, IsText(text), MAX_MANIFEST_ENTRIES \in Nat
    PROVE  parse(text) = IF WellFormed(text) THEN text.lines ELSE Nothing
<1> DEFINE lines == text.lines
           G == [n \in 0..Len(lines) |-> Accepted(lines, n)]
           e == CHOOSE g : g = ParseStep(lines, g)
           T == {n \in Nat : n <= Len(lines) => e[n] = Accepted(lines, n)}
<1>1. lines \in Seq(Range(lines)) /\ Len(lines) \in Nat
  BY DEF IsText
<1>2. Accepted(lines, 0) = << >>
  <2>1. PrefixFine(lines, 0)
    BY DEF PrefixFine
  <2>2. SubSeq(lines, 1, 0) = << >>
    <3> DEFINE S == Range(lines)
    <3>1. lines \in Seq(S)
      BY <1>1
    <3> HIDE DEF lines, S
    <3> QED BY <3>1
  <2> QED BY <2>1, <2>2, Zenon DEF Accepted
<1>3. \A n \in Nat : n + 1 <= Len(lines) =>
         Accepted(lines, n + 1) =
             IF Accepted(lines, n) = Nothing THEN Nothing
             ELSE IF Accepts(Accepted(lines, n), lines[n + 1])
             THEN Append(Accepted(lines, n), lines[n + 1]) ELSE Nothing
  BY AcceptedNext
<1> HIDE DEF lines
<1>4. G = ParseStep(lines, G)
  <2> SUFFICES ASSUME NEW n \in 0..Len(lines)
               PROVE  Accepted(lines, n) =
                         IF n = 0 THEN << >>
                         ELSE IF G[n - 1] = Nothing THEN Nothing
                         ELSE IF Accepts(G[n - 1], lines[n]) THEN Append(G[n - 1], lines[n])
                         ELSE Nothing
    BY Zenon DEF ParseStep
  <2>1. CASE n = 0
    BY <1>2, <2>1, Zenon
  <2>2. CASE n # 0
    <3>1. n - 1 \in Nat /\ (n - 1) + 1 = n /\ n - 1 \in 0..Len(lines) /\ n <= Len(lines)
      BY <1>1, <2>2
    <3>2. G[n - 1] = Accepted(lines, n - 1)
      BY <3>1, Zenon
    <3> HIDE DEF G
    <3> DEFINE k == n - 1
    <3>3. k \in Nat /\ k + 1 = n /\ n <= Len(lines) /\ G[k] = Accepted(lines, k)
      BY <3>1, <3>2
    <3>4. Accepted(lines, n) =
             IF G[k] = Nothing THEN Nothing
             ELSE IF Accepts(G[k], lines[n]) THEN Append(G[k], lines[n]) ELSE Nothing
      <4> HIDE DEF k
      <4> QED BY <1>3, <3>3, Zenon
    <3> QED BY <2>2, <3>4, Zenon
  <2> QED BY <2>1, <2>2, Zenon
<1>5. e = ParseStep(lines, e)
  BY <1>4, Zenon
<1> HIDE DEF G, e
<1>6. T = Nat
  <2>1. 0 \in T
    <3>1. 0 \in 0..Len(lines)
      BY <1>1
    <3>2. ParseStep(lines, e)[0] = << >>
      BY <3>1, Zenon DEF ParseStep
    <3> QED BY <1>2, <1>5, <3>2
  <2>2. ASSUME NEW n \in T PROVE n + 1 \in T
    <3> SUFFICES ASSUME n + 1 <= Len(lines) PROVE e[n + 1] = Accepted(lines, n + 1)
      BY <2>2
    <3>1. /\ n \in Nat /\ n <= Len(lines) /\ n + 1 \in 0..Len(lines) /\ n + 1 # 0
          /\ (n + 1) - 1 = n
      BY <1>1, <2>2
    <3>2. e[n] = Accepted(lines, n)
      BY <2>2, <3>1, Zenon
    <3>3. ParseStep(lines, e)[n + 1] =
             IF e[n] = Nothing THEN Nothing
             ELSE IF Accepts(e[n], lines[n + 1]) THEN Append(e[n], lines[n + 1]) ELSE Nothing
      BY <3>1, Zenon DEF ParseStep
    <3> QED BY <1>3, <1>5, <3>1, <3>2, <3>3, Zenon
  <2> QED BY <2>1, <2>2, Induct, Zenon
<1>7. e[Len(lines)] = Accepted(lines, Len(lines))
  <2>1. Len(lines) \in T /\ Len(lines) <= Len(lines)
    BY <1>1, <1>6
  <2> QED BY <2>1, Zenon
<1>8. SubSeq(lines, 1, Len(lines)) = lines /\ (lines # << >> <=> Len(lines) # 0)
  <2> DEFINE S == Range(lines)
  <2>1. lines \in Seq(S)
    BY <1>1
  <2> HIDE DEF S
  <2> QED BY <2>1
<1>9. WellFormed(text) <=> text.header /\ Len(lines) # 0 /\ PrefixFine(lines, Len(lines))
  <2>1. Len(lines) \in 1..MAX_MANIFEST_ENTRIES <=>
           Len(lines) # 0 /\ Len(lines) <= MAX_MANIFEST_ENTRIES
    BY <1>1
  <2> QED BY <2>1, Zenon DEF WellFormed, PrefixFine, lines
<1>10. parse(text) = IF text.header /\ e[Len(lines)] # << >> THEN e[Len(lines)] ELSE Nothing
  BY ParseTable, Zenon DEF e, lines
<1>11. parse(text) = IF WellFormed(text) THEN lines ELSE Nothing
  BY <1>7, <1>8, <1>9, <1>10, Zenon DEF Accepted
<1> QED BY <1>11, Zenon DEF lines

-----------------------------------------------------------------------------
(* The inductive invariant of a load. *)

Bytes(line) == [size |-> line.size, digest |-> line.digest]

Verified(k) == [i \in 1..k |-> [entry |-> manifest[i], content |-> Bytes(manifest[i])]]

Ends == {"provider", "Runtime", "UnexpectedModelMetadata"}

(* The loader has parsed a manifest; it has compared it with the files. *)
HasParsed ==
    point \in {"regular_files", "entry_metadata", "read_entry", "provider"} \/ outcome \in Ends

HasMatched == point \in {"entry_metadata", "read_entry", "provider"} \/ outcome \in Ends

HasVerified == point = "provider" \/ outcome \in Ends

Points ==
    /\ point \in {"load_manifest", "read_manifest", "regular_files", "entry_metadata",
                  "read_entry", "provider", "done"}
    /\ point # "done" => outcome = "none"
    /\ changes \in 0..MaxChanges

(* Every entry is that of a release or a stray, the manifest that of a     *)
(* release; those that never went away are entries of releases.            *)
DiskInv ==
    /\ DOMAIN disk = Nodes
    /\ \A p \in Nodes : disk[p] # Nothing =>
          \/ \E r \in Releases : disk[p] = r[p]
          \/ p # Manifest /\ disk[p] \in Strays
    /\ \E r \in Releases : disk[Manifest] = r[Manifest]
    /\ stable \subseteq Nodes
    /\ \A p \in stable : \E r \in Releases : disk[p] = r[p] /\ r[p] # Nothing

(* What the walk has seen and noted. *)
WalkInv ==
    /\ visited \subseteq Nodes /\ files \subseteq visited
    /\ Cardinality(visited) <= MAX_INVENTORY_ENTRIES
    /\ \A p \in stable \cap visited : p \in files \/ disk[p].type = "dir"
    /\ HasMatched => stable \subseteq visited /\ files \ {Manifest} = Listed

(* The manifest is that of a release, the files verified are its first     *)
(* ones, each with the bytes its line lists.                               *)
ManifestInv ==
    /\ \/ manifest = << >> /\ ~HasParsed
       \/ \E r \in Releases :
             WellFormed(r[Manifest].content) /\ manifest = r[Manifest].content.lines
    /\ point \in {"load_manifest", "read_manifest", "regular_files"} => artifacts = << >>

ArtifactInv ==
    /\ Len(artifacts) \in 0..Len(manifest) /\ artifacts = Verified(Len(artifacts))
    /\ point \in {"entry_metadata", "read_entry"} => Len(artifacts) # Len(manifest)
    /\ HasVerified => Len(artifacts) = Len(manifest)
    /\ outcome = "provider" => \A line \in Expected : require_expected_metadata(line)

(* As long as nobody changes the directory it is a release, and what the   *)
(* loader knows of it is right.                                            *)
QuietInv ==
    changes = 0 =>
        /\ disk \in Releases /\ stable = Present
        /\ visited \subseteq Present /\ files = {p \in visited : disk[p].type = "file"}
        /\ point = "read_manifest" => meta = disk[Manifest].content.size
        /\ HasParsed => manifest = disk[Manifest].content.lines
        /\ WellFormed(disk[Manifest].content) => outcome \in {"none"} \cup Ends

LoadInv == Points /\ DiskInv /\ WalkInv /\ ManifestInv /\ ArtifactInv /\ QuietInv

-----------------------------------------------------------------------------
LEMMA Fixed == InventoryAssumption =>
    /\ IsFiniteSet(Nodes) /\ Manifest \in Nodes /\ Nodes \ {Manifest} = Paths
    /\ MAX_INVENTORY_ENTRIES \in Nat
<1> SUFFICES ASSUME InventoryAssumption PROVE
       /\ IsFiniteSet(Nodes) /\ Manifest \in Nodes /\ Nodes \ {Manifest} = Paths
       /\ MAX_INVENTORY_ENTRIES \in Nat
  OBVIOUS
<1>1. IsFiniteSet(Nodes)
  BY FS_AddElement DEF Nodes, InventoryAssumption
<1>2. Manifest \in Nodes /\ Nodes \ {Manifest} = Paths
  BY DEF Nodes, InventoryAssumption
<1>3. MAX_INVENTORY_ENTRIES \in Nat
  BY DEF InventoryAssumption, MAX_INVENTORY_ENTRIES
<1> QED BY <1>1, <1>2, <1>3

(* What the manifest of a release parses to. *)
LEMMA ReleaseParses ==
    ASSUME InventoryAssumption, NEW r \in Releases
    PROVE  LET text == r[Manifest].content
           IN  /\ IsText(text)
               /\ parse(text) = IF WellFormed(text) THEN text.lines ELSE Nothing
               /\ text.lines \in Seq(Range(text.lines)) /\ text.lines # Nothing
               /\ WellFormed(text) => Len(text.lines) \in 1..MAX_MANIFEST_ENTRIES
<1> DEFINE text == r[Manifest].content
<1>1. IsText(text) /\ MAX_MANIFEST_ENTRIES \in Nat
  BY DEF InventoryAssumption, IsRelease
<1>2. parse(text) = IF WellFormed(text) THEN text.lines ELSE Nothing
  <2> HIDE DEF text
  <2> QED BY <1>1, ParserExact, Zenon
<1>3. text.lines \in Seq(Range(text.lines))
  BY <1>1 DEF IsText
<1>4. text.lines # Nothing
  <2> DEFINE lines == text.lines
             S == Range(lines)
  <2>1. lines \in Seq(S)
    BY <1>3
  <2>2. \A n \in 0..Len(lines) : SubSeq(lines, 1, n) # Nothing
    BY <1>1 DEF IsText
  <2> HIDE DEF lines, S
  <2>3. Len(lines) \in 0..Len(lines) /\ SubSeq(lines, 1, Len(lines)) = lines
    BY <2>1
  <2>4. lines # Nothing
    BY <2>2, <2>3, Zenon
  <2> QED BY <2>4 DEF lines
<1>5. WellFormed(text) => Len(text.lines) \in 1..MAX_MANIFEST_ENTRIES
  BY DEF WellFormed
<1> QED BY <1>1, <1>2, <1>3, <1>4, <1>5, Zenon

LEMMA VerifiedGrows ==
    ASSUME NEW k \in Nat
    PROVE  /\ Len(Verified(k)) = k
           /\ Append(Verified(k), [entry |-> manifest[k + 1],
                                   content |-> Bytes(manifest[k + 1])]) = Verified(k + 1)
<1> DEFINE V(i) == [entry |-> manifest[i], content |-> Bytes(manifest[i])]
           S == {V(i) : i \in Nat}
           s == [i \in 1..k |-> V(i)]
<1>1. \A i \in Nat : V(i) \in S
  OBVIOUS
<1>2. Verified(k) = s /\ Verified(k + 1) = [i \in 1..(k + 1) |-> V(i)]
  BY DEF Verified
<1> HIDE DEF V, S
<1>3. s \in [1..k -> S]
  BY <1>1
<1>4. s \in Seq(S) /\ Len(s) = k
  BY <1>3
<1>5. Append(s, V(k + 1)) = [i \in 1..(k + 1) |-> V(i)]
  <2>1. V(k + 1) \in S
    BY <1>1
  <2>2. \A i \in 1..k : s[i] = V(i)
    OBVIOUS
  <2> HIDE DEF s
  <2>3. Append(s, V(k + 1)) \in Seq(S) /\ Len(Append(s, V(k + 1))) = k + 1
    BY <1>4, <2>1
  <2>4. DOMAIN Append(s, V(k + 1)) = 1..(k + 1)
    BY <2>3
  <2>5. \A i \in 1..(k + 1) : Append(s, V(k + 1))[i] = V(i)
    BY <1>4, <2>1, <2>2
  <2>6. Append(s, V(k + 1)) = [i \in 1..(k + 1) |-> Append(s, V(k + 1))[i]]
    BY <2>3, <2>4
  <2> QED BY <2>5, <2>6
<1> QED BY <1>2, <1>4, <1>5 DEF V

LEMMA LoadStarts ==
    ASSUME InventoryAssumption, LoadInit
    PROVE  LoadInv
<1> USE DEF LoadInit, LoadFrom
<1>1. Points
  BY DEF Points, InventoryAssumption
<1>2. DiskInv
  BY DEF DiskInv, InventoryAssumption, IsRelease, Present
<1>3. WalkInv
  BY FS_EmptySet, Fixed DEF WalkInv, HasMatched, Ends
<1>4. ManifestInv
  BY DEF ManifestInv, HasParsed, Ends
<1>5. ArtifactInv
  BY DEF ArtifactInv, Verified, HasVerified, Ends
<1>6. QuietInv
  BY DEF QuietInv, HasParsed, Ends
<1> QED BY <1>1, <1>2, <1>3, <1>4, <1>5, <1>6 DEF LoadInv

-----------------------------------------------------------------------------
(* A load that stops, with an error or because it is complete. *)
LEMMA StopKeeps ==
    ASSUME LoadInv, NEW error, Stop(error),
           \/ /\ error \notin Ends
              /\ changes = 0 => ~WellFormed(disk[Manifest].content)
           \/ /\ error \in Ends /\ point = "provider"
              /\ error = "provider" => \A line \in Expected : require_expected_metadata(line)
    PROVE  LoadInv'
<1>1. /\ Points /\ DiskInv /\ WalkInv /\ ManifestInv /\ ArtifactInv /\ QuietInv
      /\ point' = "done" /\ outcome' = error
      /\ UNCHANGED <<disk, changes, stable, meta, manifest, visited, files, artifacts>>
  BY DEF LoadInv, Stop
<1>2. error \in Ends => point = "provider"
  OBVIOUS
<1>3. HasParsed' => HasParsed
  BY <1>1, <1>2 DEF HasParsed
<1>4. HasMatched' => HasMatched
  BY <1>1, <1>2 DEF HasMatched
<1>5. HasVerified' => HasVerified
  BY <1>1, <1>2 DEF HasVerified
<1>6. Points'
  BY <1>1 DEF Points
<1>7. DiskInv'
  BY <1>1 DEF DiskInv
<1>8. WalkInv'
  BY <1>1, <1>4 DEF WalkInv, Listed
<1>9. ManifestInv'
  BY <1>1, <1>3 DEF ManifestInv
<1>10. ArtifactInv'
  <2>1. Len(artifacts') \in 0..Len(manifest') /\ artifacts' = Verified(Len(artifacts))'
    BY <1>1 DEF ArtifactInv, Verified
  <2>2. point' \notin {"entry_metadata", "read_entry"}
    BY <1>1
  <2>3. HasVerified' => Len(artifacts') = Len(manifest')
    BY <1>1, <1>5 DEF ArtifactInv
  <2>4. outcome' = "provider" => \A line \in Expected : require_expected_metadata(line)'
    BY <1>1 DEF require_expected_metadata, Ends
  <2> QED BY <2>1, <2>2, <2>3, <2>4 DEF ArtifactInv
<1>11. QuietInv'
  <2>1. ASSUME changes = 0
        PROVE  WellFormed(disk[Manifest].content) => outcome' \in {"none"} \cup Ends
    BY <1>1, <2>1
  <2> QED BY <1>1, <1>3, <2>1 DEF QuietInv, Present
<1> QED BY <1>6, <1>7, <1>8, <1>9, <1>10, <1>11 DEF LoadInv

(* The manifest of the directory is that of a release. *)
LEMMA ManifestThere ==
    ASSUME InventoryAssumption, LoadInv
    PROVE  /\ disk[Manifest] # Nothing /\ disk[Manifest].type = "file"
           /\ disk[Manifest].content.size \in 1..MAX_MANIFEST_BYTES
           /\ \E r \in Releases : disk[Manifest].content = r[Manifest].content
  BY DEF LoadInv, DiskInv, InventoryAssumption, IsRelease

LEMMA load_manifest_Keeps ==
    ASSUME InventoryAssumption, LoadInv, load_manifest
    PROVE  LoadInv'
<1>1. /\ point = "load_manifest" /\ point' = "read_manifest"
      /\ meta' = disk[Manifest].content.size
      /\ UNCHANGED <<disk, changes, stable, manifest, visited, files, artifacts, outcome>>
  <2>1. disk[Manifest] # Nothing /\ disk[Manifest].type = "file"
    BY ManifestThere
  <2>2. ~(disk[Manifest].content.size = 0 \/ disk[Manifest].content.size > MAX_MANIFEST_BYTES)
    <3>1. /\ disk[Manifest].content.size \in 1..MAX_MANIFEST_BYTES
          /\ MAX_MANIFEST_BYTES \in Nat
      BY ManifestThere, Zenon DEF InventoryAssumption
    <3> QED BY <3>1
  <2> QED BY <2>1, <2>2, Zenon DEF load_manifest
<1>2. /\ Points /\ DiskInv /\ WalkInv /\ ManifestInv /\ ArtifactInv /\ QuietInv
      /\ outcome = "none"
  BY <1>1 DEF LoadInv, Points
<1>3. ~HasParsed' /\ ~HasMatched' /\ ~HasVerified'
  BY <1>1, <1>2 DEF HasParsed, HasMatched, HasVerified, Ends
<1>4. Points'
  BY <1>1, <1>2 DEF Points
<1>5. DiskInv'
  BY <1>1, <1>2 DEF DiskInv
<1>6. WalkInv'
  BY <1>1, <1>2, <1>3 DEF WalkInv
<1>7. ManifestInv'
  BY <1>1, <1>2, <1>3 DEF ManifestInv
<1>8. ArtifactInv'
  <2>1. Len(artifacts') \in 0..Len(manifest') /\ artifacts' = Verified(Len(artifacts))'
    BY <1>1, <1>2 DEF ArtifactInv, Verified
  <2> QED BY <1>1, <1>2, <1>3, <2>1 DEF ArtifactInv
<1>9. QuietInv'
  BY <1>1, <1>2, <1>3 DEF QuietInv, Present
<1> QED BY <1>4, <1>5, <1>6, <1>7, <1>8, <1>9 DEF LoadInv

LEMMA read_manifest_Keeps ==
    ASSUME InventoryAssumption, LoadInv, read_manifest
    PROVE  LoadInv'
<1> DEFINE text == disk[Manifest].content
<1>1. PICK r \in Releases : text = r[Manifest].content
  BY ManifestThere
<1>2. /\ parse(text) = IF WellFormed(text) THEN text.lines ELSE Nothing
      /\ text.lines # Nothing
  BY <1>1, ReleaseParses
<1>3. /\ Points /\ DiskInv /\ WalkInv /\ ManifestInv /\ ArtifactInv /\ QuietInv
      /\ point = "read_manifest" /\ outcome = "none" /\ artifacts = << >>
  BY DEF LoadInv, Points, ManifestInv, read_manifest
<1>4. CASE Stop("InvalidManifest") /\ (text.size # meta \/ parse(text) = Nothing)
  <2>1. changes = 0 => ~WellFormed(text)
    BY <1>2, <1>3, <1>4 DEF QuietInv
  <2>2. "InvalidManifest" \notin Ends
    BY DEF Ends
  <2> QED BY <1>4, <2>1, <2>2, StopKeeps, Zenon
<1>5. CASE /\ parse(text) # Nothing /\ point' = "regular_files" /\ manifest' = parse(text)
           /\ UNCHANGED <<disk, changes, stable, meta, visited, files, artifacts, outcome>>
  <2>1. WellFormed(text) /\ manifest' = text.lines
    BY <1>2, <1>5
  <2>2. ~HasMatched' /\ ~HasVerified'
    BY <1>3, <1>5 DEF HasMatched, HasVerified, Ends
  <2>3. Points'
    BY <1>3, <1>5 DEF Points
  <2>4. DiskInv'
    BY <1>3, <1>5 DEF DiskInv
  <2>5. WalkInv'
    BY <1>3, <1>5, <2>2 DEF WalkInv
  <2>6. ManifestInv'
    BY <1>1, <1>3, <1>5, <2>1 DEF ManifestInv
  <2>7. ArtifactInv'
    <3>1. Len(artifacts') = 0 /\ Len(manifest') \in Nat
      BY <1>1, <1>3, <1>5, <2>1, ReleaseParses
    <3>2. artifacts' = Verified(0)'
      BY <1>3, <1>5 DEF Verified
    <3>3. Len(artifacts') \in 0..Len(manifest') /\ artifacts' = Verified(Len(artifacts))'
      BY <3>1, <3>2
    <3> QED BY <1>3, <1>5, <2>2, <3>3 DEF ArtifactInv
  <2>8. QuietInv'
    BY <1>3, <1>5, <2>1 DEF QuietInv, Present
  <2> QED BY <2>3, <2>4, <2>5, <2>6, <2>7, <2>8 DEF LoadInv
<1> QED
  <2>1. disk[Manifest] # Nothing
    BY ManifestThere
  <2> QED BY <1>4, <1>5, <2>1, Zenon DEF read_manifest

LEMMA regular_files_Keeps ==
    ASSUME InventoryAssumption, LoadInv, regular_files
    PROVE  LoadInv'
<1>1. /\ Points /\ DiskInv /\ WalkInv /\ ManifestInv /\ ArtifactInv /\ QuietInv
      /\ point = "regular_files" /\ outcome = "none"
  BY DEF LoadInv, Points, regular_files
<1>2. PICK p \in Present \ visited :
          IF Cardinality(visited) = MAX_INVENTORY_ENTRIES THEN Stop("InventoryMismatch")
          ELSE IF disk[p].type \notin {"file", "dir"} THEN Stop("UnsafeFilesystemEntry")
          ELSE /\ visited' = visited \cup {p}
               /\ files' = IF disk[p].type = "file" THEN files \cup {p} ELSE files
               /\ UNCHANGED <<disk, changes, stable, point, meta, manifest, artifacts, outcome>>
  BY Zenon DEF regular_files
<1>3. /\ p \in Nodes /\ disk[p] # Nothing /\ p \notin visited
      /\ IsFiniteSet(Nodes) /\ MAX_INVENTORY_ENTRIES \in Nat
  BY <1>2, Fixed DEF Present
<1>4. IsFiniteSet(visited) /\ Cardinality(visited) \in Nat
  BY <1>1, <1>3, FS_Subset, FS_CardinalityType DEF WalkInv
<1>5. Cardinality(visited \cup {p}) = Cardinality(visited) + 1
  BY <1>3, <1>4, FS_AddElement
<1>6. ASSUME changes = 0, WellFormed(disk[Manifest].content)
      PROVE  /\ Cardinality(visited) # MAX_INVENTORY_ENTRIES
             /\ disk[p].type \in {"file", "dir"}
  <2>1. disk \in Releases /\ visited \subseteq Present
    BY <1>1, <1>6 DEF QuietInv
  <2>2. Described(disk)
    BY <1>6, <2>1 DEF InventoryAssumption, IsRelease
  <2>3. Cardinality(Present) <= MAX_INVENTORY_ENTRIES /\ disk[p].type \in {"file", "dir"}
    BY <1>2, <2>2 DEF Described, Present
  <2>4. IsFiniteSet(Present)
    BY <1>3, FS_Subset DEF Present
  <2>5. visited \cup {p} \subseteq Present
    BY <1>2, <2>1
  <2>6. Cardinality(visited \cup {p}) <= Cardinality(Present) /\ Cardinality(Present) \in Nat
    BY <2>4, <2>5, FS_Subset, FS_CardinalityType
  <2> QED BY <1>3, <1>4, <1>5, <2>3, <2>6
<1>7. "InventoryMismatch" \notin Ends /\ "UnsafeFilesystemEntry" \notin Ends
  BY DEF Ends
<1>8. CASE Cardinality(visited) = MAX_INVENTORY_ENTRIES /\ Stop("InventoryMismatch")
  <2>1. changes = 0 => ~WellFormed(disk[Manifest].content)
    BY <1>6, <1>8, Zenon
  <2> QED BY <1>7, <1>8, <2>1, StopKeeps, Zenon
<1>9. CASE disk[p].type \notin {"file", "dir"} /\ Stop("UnsafeFilesystemEntry")
  <2>1. changes = 0 => ~WellFormed(disk[Manifest].content)
    BY <1>6, <1>9, Zenon
  <2> QED BY <1>7, <1>9, <2>1, StopKeeps, Zenon
<1>10. CASE /\ Cardinality(visited) # MAX_INVENTORY_ENTRIES
            /\ disk[p].type \in {"file", "dir"} /\ visited' = visited \cup {p}
            /\ files' = IF disk[p].type = "file" THEN files \cup {p} ELSE files
            /\ UNCHANGED <<disk, changes, stable, point, meta, manifest, artifacts, outcome>>
  <2>1. ~HasMatched /\ ~HasMatched' /\ ~HasVerified' /\ HasParsed /\ HasParsed'
    BY <1>1, <1>10 DEF HasMatched, HasVerified, HasParsed, Ends
  <2>2. Points'
    BY <1>1, <1>10 DEF Points
  <2>3. DiskInv'
    BY <1>1, <1>10 DEF DiskInv
  <2>4. WalkInv'
    <3>1. visited' \subseteq Nodes /\ files' \subseteq visited'
      BY <1>1, <1>3, <1>10 DEF WalkInv
    <3>2. Cardinality(visited') <= MAX_INVENTORY_ENTRIES
      <4>1. Cardinality(visited) <= MAX_INVENTORY_ENTRIES
        BY <1>1, Zenon DEF WalkInv
      <4>2. Cardinality(visited') = Cardinality(visited) + 1
        BY <1>5, <1>10, Zenon
      <4>3. /\ Cardinality(visited) # MAX_INVENTORY_ENTRIES
            /\ Cardinality(visited) \in Nat /\ MAX_INVENTORY_ENTRIES \in Nat
        BY <1>3, <1>4, <1>10, Zenon
      <4> QED BY ONLY <4>1, <4>2, <4>3
    <3>3. \A q \in stable' \cap visited' : q \in files' \/ disk'[q].type = "dir"
      BY <1>1, <1>10 DEF WalkInv
    <3> QED BY <2>1, <3>1, <3>2, <3>3 DEF WalkInv
  <2>5. ManifestInv'
    BY <1>1, <1>10, <2>1 DEF ManifestInv
  <2>6. ArtifactInv'
    <3>1. Len(artifacts') \in 0..Len(manifest') /\ artifacts' = Verified(Len(artifacts))'
      BY <1>1, <1>10 DEF ArtifactInv, Verified
    <3> QED BY <1>1, <1>10, <2>1, <3>1 DEF ArtifactInv
  <2>7. QuietInv'
    <3> SUFFICES ASSUME changes' = 0
                 PROVE  /\ disk' \in Releases /\ stable' = Present'
                        /\ visited' \subseteq Present'
                        /\ files' = {q \in visited' : disk'[q].type = "file"}
                        /\ point' # "read_manifest"
                        /\ manifest' = disk'[Manifest].content.lines
                        /\ outcome' = "none"
      BY DEF QuietInv
    <3>1. /\ disk' \in Releases /\ stable' = Present' /\ point' # "read_manifest"
          /\ manifest' = disk'[Manifest].content.lines /\ outcome' = "none"
      BY <1>1, <1>10, <2>1 DEF QuietInv, Present
    <3>2. visited' \subseteq Present'
      BY <1>1, <1>2, <1>10 DEF QuietInv, Present
    <3>3. files' = {q \in visited' : disk'[q].type = "file"}
      BY <1>1, <1>10 DEF QuietInv
    <3> QED BY <3>1, <3>2, <3>3
  <2> QED BY <2>2, <2>3, <2>4, <2>5, <2>6, <2>7 DEF LoadInv
<1> QED BY <1>2, <1>8, <1>9, <1>10, Zenon

LEMMA WalkEnds_Keeps ==
    ASSUME InventoryAssumption, LoadInv, WalkEnds
    PROVE  LoadInv'
<1>1. /\ Points /\ DiskInv /\ WalkInv /\ ManifestInv /\ ArtifactInv /\ QuietInv
      /\ point = "regular_files" /\ outcome = "none" /\ artifacts = << >>
      /\ stable \cap Present \subseteq visited
  BY DEF LoadInv, Points, ManifestInv, WalkEnds
<1>2. HasParsed
  BY <1>1 DEF HasParsed
<1>3. stable \subseteq visited
  BY <1>1 DEF DiskInv, Present
<1>4. ASSUME changes = 0, WellFormed(disk[Manifest].content)
      PROVE  inventory_matches
  <2>1. /\ disk \in Releases /\ visited = Present /\ files = {p \in visited : disk[p].type = "file"}
        /\ manifest = disk[Manifest].content.lines
    BY <1>1, <1>2, <1>3, <1>4 DEF QuietInv
  <2>2. Described(disk)
    BY <1>4, <2>1 DEF InventoryAssumption, IsRelease
  <2>3. {p \in Present \ {Manifest} : disk[p].type = "file"} = Listed
    <3> DEFINE lines == disk[Manifest].content.lines
    <3>1. {p \in Present \ {Manifest} : disk[p].type = "file"} = {lines[i].path : i \in 1..Len(lines)}
      BY <2>2, Zenon DEF Described, Present
    <3>2. Listed = {lines[i].path : i \in 1..Len(lines)}
      BY <2>1, Zenon DEF Listed
    <3> QED BY <3>1, <3>2, Zenon
  <2> QED BY <2>1, <2>3 DEF inventory_matches
<1>5. CASE ~inventory_matches /\ Stop("InventoryMismatch")
  <2>1. changes = 0 => ~WellFormed(disk[Manifest].content)
    BY <1>4, <1>5, Zenon
  <2>2. "InventoryMismatch" \notin Ends
    BY DEF Ends
  <2> QED BY <1>5, <2>1, <2>2, StopKeeps, Zenon
<1>6. CASE /\ inventory_matches /\ point' = "entry_metadata"
           /\ UNCHANGED <<disk, changes, stable, meta, manifest, visited, files, artifacts, outcome>>
  <2>1. ~HasVerified' /\ HasParsed'
    BY <1>1, <1>6 DEF HasVerified, HasParsed, Ends
  <2>2. Points'
    BY <1>1, <1>6 DEF Points
  <2>3. DiskInv'
    BY <1>1, <1>6 DEF DiskInv
  <2>4. WalkInv'
    BY <1>1, <1>3, <1>6 DEF WalkInv, inventory_matches, Listed
  <2>5. ManifestInv'
    BY <1>1, <1>2, <1>6, <2>1 DEF ManifestInv
  <2>6. ArtifactInv'
    <3>1. Len(artifacts') \in 0..Len(manifest') /\ artifacts' = Verified(Len(artifacts))'
      BY <1>1, <1>6 DEF ArtifactInv, Verified
    <3>2. Len(artifacts') = 0
      BY <1>1, <1>6
    <3>3. Len(manifest') # 0
      <4>1. PICK r \in Releases :
                WellFormed(r[Manifest].content) /\ manifest = r[Manifest].content.lines
        BY <1>1, <1>2, Zenon DEF ManifestInv
      <4>2. Len(manifest) \in 1..MAX_MANIFEST_ENTRIES
        BY <4>1, ReleaseParses, Zenon
      <4>3. manifest' = manifest
        BY <1>6, Zenon
      <4> QED BY <4>2, <4>3
    <3> QED BY <1>1, <1>6, <2>1, <3>1, <3>2, <3>3 DEF ArtifactInv
  <2>7. QuietInv'
    BY <1>1, <1>2, <1>6, <2>1 DEF QuietInv, Present
  <2> QED BY <2>2, <2>3, <2>4, <2>5, <2>6, <2>7 DEF LoadInv
<1> QED BY <1>5, <1>6, Zenon DEF WalkEnds

(* The next entry is one of the files the walk has seen.  In a directory   *)
(* that nobody changes it has the size and digest of its line.             *)
LEMMA NextEntry ==
    ASSUME InventoryAssumption, LoadInv, point \in {"entry_metadata", "read_entry"}
    PROVE  /\ Len(artifacts) \in Nat /\ Len(artifacts) + 1 \in 1..Len(manifest)
           /\ Entry.path \in Paths
           /\ disk[Entry.path] # Nothing => IsArtifact(disk[Entry.path])
           /\ changes = 0 /\ WellFormed(disk[Manifest].content) =>
                 /\ disk[Entry.path] # Nothing /\ disk[Entry.path].type = "file"
                 /\ disk[Entry.path].content = Bytes(Entry)
<1> DEFINE k == Len(artifacts) + 1
<1>1. /\ DiskInv /\ WalkInv /\ ManifestInv /\ ArtifactInv /\ QuietInv
      /\ HasParsed /\ HasMatched
  BY DEF LoadInv, HasParsed, HasMatched
<1>2. Len(manifest) \in Nat
  <2>1. PICK r \in Releases :
            WellFormed(r[Manifest].content) /\ manifest = r[Manifest].content.lines
    BY <1>1, Zenon DEF ManifestInv
  <2>2. Len(manifest) \in 1..MAX_MANIFEST_ENTRIES
    BY <2>1, ReleaseParses, Zenon
  <2> QED BY <2>2
<1>3. Len(artifacts) \in Nat /\ k \in 1..Len(manifest)
  BY <1>1, <1>2 DEF ArtifactInv
<1>4. Entry = manifest[k]
  BY DEF Entry
<1> HIDE DEF k
<1>5. Entry.path \in Listed
  BY <1>3, <1>4, Zenon DEF Listed
<1>6. Entry.path \in Paths
  BY <1>1, <1>5, Fixed DEF WalkInv
<1>7. ASSUME disk[Entry.path] # Nothing PROVE IsArtifact(disk[Entry.path])
  <2> DEFINE p == Entry.path
  <2>1. p \in Paths /\ p \in Nodes /\ disk[p] # Nothing
    BY <1>6, <1>7, Fixed
  <2> HIDE DEF p
  <2>2. (\E r \in Releases : disk[p] = r[p]) \/ disk[p] \in Strays
    BY <1>1, <2>1, Zenon DEF DiskInv
  <2>3. IsArtifact(disk[p])
    BY <2>1, <2>2 DEF InventoryAssumption
  <2> QED BY <2>3 DEF p
<1>8. ASSUME changes = 0, WellFormed(disk[Manifest].content)
      PROVE  /\ disk[Entry.path] # Nothing /\ disk[Entry.path].type = "file"
             /\ disk[Entry.path].content = Bytes(Entry)
  <2>1. /\ disk \in Releases /\ visited \subseteq Present
        /\ files = {p \in visited : disk[p].type = "file"}
        /\ manifest = disk[Manifest].content.lines
    BY <1>1, <1>8 DEF QuietInv
  <2>2. Described(disk)
    BY <1>8, <2>1 DEF InventoryAssumption, IsRelease
  <2>3. Entry.path \in files
    BY <1>1, <1>5 DEF WalkInv
  <2>4. disk[Entry.path] # Nothing /\ disk[Entry.path].type = "file"
    BY <2>1, <2>3 DEF Present
  <2>5. disk[manifest[k].path].content = Bytes(manifest[k])
    BY <1>3, <2>1, <2>2, Zenon DEF Described, Bytes
  <2> QED BY <1>4, <2>4, <2>5
<1> QED BY <1>3, <1>6, <1>7, <1>8, Zenon DEF k

LEMMA entry_metadata_Keeps ==
    ASSUME InventoryAssumption, LoadInv, entry_metadata
    PROVE  LoadInv'
<1>1. /\ Points /\ DiskInv /\ WalkInv /\ ManifestInv /\ ArtifactInv /\ QuietInv
      /\ point = "entry_metadata" /\ outcome = "none"
  BY DEF LoadInv, Points, entry_metadata
<1> DEFINE node == disk[Entry.path]
<1>2. /\ changes = 0 /\ WellFormed(disk[Manifest].content) =>
            node # Nothing /\ node.type = "file" /\ node.content = Bytes(Entry)
      /\ Bytes(Entry).size = Entry.size
  BY <1>1, NextEntry DEF Bytes
<1>3. /\ "Io" \notin Ends /\ "UnsafeFilesystemEntry" \notin Ends
      /\ "ArtifactSizeMismatch" \notin Ends
  BY DEF Ends
<1>4. ASSUME NEW error \in {"Io", "UnsafeFilesystemEntry", "ArtifactSizeMismatch"}, Stop(error),
             node = Nothing \/ node.type # "file" \/ node.content.size # Entry.size
      PROVE  LoadInv'
  <2>1. changes = 0 => ~WellFormed(disk[Manifest].content)
    BY <1>2, <1>4
  <2>2. error \notin Ends
    BY <1>3, <1>4
  <2> QED BY <1>4, <2>1, <2>2, StopKeeps, Zenon
<1>5. CASE /\ point' = "read_entry"
           /\ UNCHANGED <<disk, changes, stable, meta, manifest, visited, files, artifacts, outcome>>
  <2>1. ~HasVerified' /\ HasParsed /\ HasParsed' /\ HasMatched /\ HasMatched'
    BY <1>1, <1>5 DEF HasVerified, HasParsed, HasMatched, Ends
  <2>2. Points'
    BY <1>1, <1>5 DEF Points
  <2>3. DiskInv'
    BY <1>1, <1>5 DEF DiskInv
  <2>4. WalkInv'
    BY <1>1, <1>5, <2>1 DEF WalkInv, Listed
  <2>5. ManifestInv'
    BY <1>1, <1>5, <2>1 DEF ManifestInv
  <2>6. ArtifactInv'
    <3>1. Len(artifacts') \in 0..Len(manifest') /\ artifacts' = Verified(Len(artifacts))'
      BY <1>1, <1>5 DEF ArtifactInv, Verified
    <3> QED BY <1>1, <1>5, <2>1, <3>1 DEF ArtifactInv
  <2>7. QuietInv'
    BY <1>1, <1>5, <2>1 DEF QuietInv, Present
  <2> QED BY <2>2, <2>3, <2>4, <2>5, <2>6, <2>7 DEF LoadInv
<1> QED
  <2>1. \/ node = Nothing /\ Stop("Io")
        \/ node.type # "file" /\ Stop("UnsafeFilesystemEntry")
        \/ node.content.size # Entry.size /\ Stop("ArtifactSizeMismatch")
        \/ /\ point' = "read_entry"
           /\ UNCHANGED <<disk, changes, stable, meta, manifest, visited, files, artifacts, outcome>>
    BY Zenon DEF entry_metadata
  <2> HIDE DEF node
  <2>2. ~(LoadInv') => \A error \in {"Io", "UnsafeFilesystemEntry", "ArtifactSizeMismatch"} :
           Stop(error) =>
              ~(node = Nothing \/ node.type # "file" \/ node.content.size # Entry.size)
    BY <1>4, Zenon
  <2>3. "Io" \in {"Io", "UnsafeFilesystemEntry", "ArtifactSizeMismatch"}
    OBVIOUS
  <2>4. "UnsafeFilesystemEntry" \in {"Io", "UnsafeFilesystemEntry", "ArtifactSizeMismatch"}
    OBVIOUS
  <2>5. "ArtifactSizeMismatch" \in {"Io", "UnsafeFilesystemEntry", "ArtifactSizeMismatch"}
    OBVIOUS
  <2> QED BY <1>5, <2>1, <2>2, <2>3, <2>4, <2>5, Zenon

LEMMA read_entry_Keeps ==
    ASSUME InventoryAssumption, LoadInv, read_entry
    PROVE  LoadInv'
<1>1. /\ Points /\ DiskInv /\ WalkInv /\ ManifestInv /\ ArtifactInv /\ QuietInv
      /\ point = "read_entry" /\ outcome = "none"
  BY DEF LoadInv, Points, read_entry
<1> DEFINE node == disk[Entry.path]
           k == Len(artifacts)
<1>2. /\ k \in Nat /\ k + 1 \in 1..Len(manifest)
      /\ node # Nothing => IsArtifact(node)
      /\ changes = 0 /\ WellFormed(disk[Manifest].content) =>
            node # Nothing /\ node.content = Bytes(Entry)
      /\ Bytes(Entry).size = Entry.size /\ Bytes(Entry).digest = Entry.digest
  BY <1>1, NextEntry DEF Bytes
<1>n. k + 1 \in Nat /\ k + 1 \in 0..Len(manifest)
  <2>1. k \in Nat /\ k + 1 \in 1..Len(manifest)
    BY <1>2, Zenon
  <2> HIDE DEF k
  <2> QED BY <2>1
<1>3. /\ "Io" \notin Ends /\ "ArtifactDigestMismatch" \notin Ends
      /\ "ArtifactSizeMismatch" \notin Ends
  BY DEF Ends
<1>4. CASE Stop("Io") /\ node = Nothing
  <2>1. changes = 0 => ~WellFormed(disk[Manifest].content)
    BY <1>2, <1>4, Zenon
  <2> QED BY <1>3, <1>4, <2>1, StopKeeps, Zenon
<1>5. CASE Stop("ArtifactSizeMismatch") /\ node.content.size # Entry.size
  <2>1. changes = 0 => ~WellFormed(disk[Manifest].content)
    BY <1>2, <1>5
  <2> QED BY <1>3, <1>5, <2>1, StopKeeps, Zenon
<1>6. CASE Stop("ArtifactDigestMismatch") /\ node.content.digest # Entry.digest
  <2>1. changes = 0 => ~WellFormed(disk[Manifest].content)
    BY <1>2, <1>6
  <2> QED BY <1>3, <1>6, <2>1, StopKeeps, Zenon
<1>7. CASE /\ node # Nothing
           /\ node.content.size = Entry.size /\ node.content.digest = Entry.digest
           /\ artifacts' = Append(artifacts, [entry |-> Entry, content |-> node.content])
           /\ point' = IF Len(artifacts') = Len(manifest) THEN "provider" ELSE "entry_metadata"
           /\ UNCHANGED <<disk, changes, stable, meta, manifest, visited, files, outcome>>
  <2>1. /\ HasParsed /\ HasParsed' /\ HasMatched /\ HasMatched'
        /\ (HasVerified' <=> Len(artifacts') = Len(manifest))
    BY <1>1, <1>7 DEF HasVerified, HasParsed, HasMatched, Ends
  <2>2. Points'
    BY <1>1, <1>7 DEF Points
  <2>3. DiskInv'
    BY <1>1, <1>7 DEF DiskInv
  <2>4. WalkInv'
    BY <1>1, <1>7, <2>1 DEF WalkInv, Listed
  <2>5. ManifestInv'
    BY <1>1, <1>7, <2>1 DEF ManifestInv
  <2>6. ArtifactInv'
    <3>1. node.content = Bytes(Entry)
      BY <1>2, <1>7 DEF IsArtifact, Bytes
    <3>2. Entry = manifest[k + 1] /\ artifacts = Verified(k)
      BY <1>1 DEF Entry, ArtifactInv
    <3>3. artifacts' = Verified(k + 1)
      BY <1>2, <1>7, <3>1, <3>2, VerifiedGrows
    <3>4. Len(artifacts') = k + 1
      <4> HIDE DEF k
      <4> QED BY <1>n, <3>3, VerifiedGrows, Zenon
    <3>5. Verified(Len(artifacts))' = Verified(k + 1)
      BY <1>7, <3>4 DEF Verified
    <3>6. Len(artifacts') \in 0..Len(manifest')
      <4>1. manifest' = manifest
        BY <1>7, Zenon
      <4> QED BY <1>n, <3>4, <4>1, Zenon
    <3>7. point' \in {"entry_metadata", "read_entry"} => Len(artifacts') # Len(manifest')
      BY <1>7
    <3>8. outcome' # "provider" /\ (HasVerified' => Len(artifacts') = Len(manifest'))
      BY <1>1, <1>7, <2>1
    <3> HIDE DEF k, node
    <3> QED BY <3>3, <3>5, <3>6, <3>7, <3>8, Zenon DEF ArtifactInv
  <2>7. QuietInv'
    BY <1>1, <1>7, <2>1 DEF QuietInv, Present
  <2> QED BY <2>2, <2>3, <2>4, <2>5, <2>6, <2>7 DEF LoadInv
<1> QED BY <1>4, <1>5, <1>6, <1>7, Zenon DEF read_entry

LEMMA from_model_root_Keeps ==
    ASSUME LoadInv, from_model_root
    PROVE  LoadInv'
<1>1. point = "provider"
  BY DEF from_model_root
<1>2. PICK error \in Ends :
         Stop(error) /\ (error = "provider" => \A line \in Expected : require_expected_metadata(line))
  <2>1. "provider" \in Ends /\ "Runtime" \in Ends /\ "UnexpectedModelMetadata" \in Ends
    BY DEF Ends
  <2>2. "Runtime" # "provider" /\ "UnexpectedModelMetadata" # "provider"
    OBVIOUS
  <2> QED BY <2>1, <2>2, Zenon DEF from_model_root
<1> QED BY <1>1, <1>2, StopKeeps, Zenon

(* What is put into the directory is an entry of a release, or a stray     *)
(* where there was nothing.                                                *)
LEMMA Change_Keeps ==
    ASSUME InventoryAssumption, LoadInv, Change
    PROVE  LoadInv'
<1>1. /\ Points /\ DiskInv /\ WalkInv /\ ManifestInv /\ ArtifactInv /\ QuietInv
      /\ changes < MaxChanges /\ point # "done" /\ changes' = changes + 1
      /\ stable' = {p \in stable : disk'[p] # Nothing}
      /\ UNCHANGED <<point, meta, manifest, visited, files, artifacts, outcome>>
  BY DEF LoadInv, Change
<1> DEFINE Puts(p, node) ==
               /\ disk' = [disk EXCEPT ![p] = node]
               /\ \/ \E r \in Releases : node = r[p]
                  \/ p # Manifest /\ disk[p] = Nothing /\ node \in Strays
<1>a. PICK p \in Nodes : \E node : Puts(p, node)
  BY Zenon DEF Change
<1>b. PICK node : Puts(p, node)
  BY <1>a
<1>2. /\ p \in Nodes /\ disk' = [disk EXCEPT ![p] = node]
      /\ \/ \E r \in Releases : node = r[p]
         \/ p # Manifest /\ disk[p] = Nothing /\ node \in Strays
  BY <1>a, <1>b
<1> HIDE DEF Puts
<1>3. /\ DOMAIN disk = Nodes /\ DOMAIN disk' = Nodes /\ disk'[p] = node
      /\ \A q \in Nodes : q # p => disk'[q] = disk[q]
  BY <1>1, <1>2 DEF DiskInv
<1>4. \A q \in stable' : q \in stable /\ disk'[q] # Nothing
  BY <1>1
<1>5. \A q \in stable : q \in Nodes /\ \E r \in Releases : disk[q] = r[q] /\ r[q] # Nothing
  BY <1>1 DEF DiskInv
<1>6. (HasParsed' <=> HasParsed) /\ (HasMatched' <=> HasMatched) /\ (HasVerified' <=> HasVerified)
  BY <1>1 DEF HasParsed, HasMatched, HasVerified
<1>7. Points'
  <2>1. changes \in 0..MaxChanges /\ MaxChanges \in Nat
    BY <1>1, Zenon DEF Points, InventoryAssumption
  <2>2. changes' \in 0..MaxChanges
    <3>1. changes < MaxChanges /\ changes' = changes + 1
      BY <1>1, Zenon
    <3> QED BY <2>1, <3>1
  <2> QED BY <1>1, <2>2, Zenon DEF Points
<1>8. DiskInv'
  <2>1. ASSUME NEW q \in Nodes, disk'[q] # Nothing
        PROVE  (\E r \in Releases : disk'[q] = r[q]) \/ (q # Manifest /\ disk'[q] \in Strays)
    <3>1. CASE q = p
      BY <1>2, <1>3, <3>1, Zenon
    <3>2. CASE q # p
      BY <1>1, <1>3, <2>1, <3>2, Zenon DEF DiskInv
    <3> QED BY <3>1, <3>2
  <2>2. \E r \in Releases : disk'[Manifest] = r[Manifest]
    <3>1. CASE p = Manifest
      BY <1>2, <1>3, <3>1, Zenon
    <3>2. CASE p # Manifest
      BY <1>1, <1>3, <3>2, Fixed, Zenon DEF DiskInv
    <3> QED BY <3>1, <3>2
  <2>3. ASSUME NEW q \in stable' PROVE \E r \in Releases : disk'[q] = r[q] /\ r[q] # Nothing
    <3>1. q \in stable /\ disk'[q] # Nothing
      BY <1>4
    <3>2. CASE q = p
      BY <1>2, <1>3, <1>5, <3>1, <3>2, Zenon
    <3>3. CASE q # p
      BY <1>3, <1>5, <3>1, <3>3, Zenon
    <3> QED BY <3>2, <3>3
  <2>4. stable' \subseteq Nodes
    BY <1>4, <1>5
  <2> QED BY <1>3, <2>1, <2>2, <2>3, <2>4, Zenon DEF DiskInv
<1>9. WalkInv'
  <2>1. ASSUME NEW q \in stable' \cap visited' PROVE q \in files' \/ disk'[q].type = "dir"
    <3>1. q \in stable /\ disk'[q] # Nothing /\ q \in visited /\ files' = files /\ q \in Nodes
      BY <1>1, <1>4, <1>5, <2>1
    <3>2. q \in files \/ disk[q].type = "dir"
      BY <1>1, <3>1 DEF WalkInv
    <3>3. CASE q # p
      BY <1>3, <3>1, <3>2, <3>3, Zenon
    <3>4. CASE q = p
      <4>1. PICK s \in Releases : disk[p] = s[p] /\ s[p] # Nothing
        BY <1>5, <3>1, <3>4, Zenon
      <4>2. PICK r \in Releases : node = r[p]
        BY <1>2, <4>1, Zenon
      <4>3. CASE p = Manifest
        <5>1. disk[q].type # "dir"
          BY <3>4, <4>1, <4>3 DEF InventoryAssumption, IsRelease
        <5> QED BY <3>1, <3>2, <5>1, Zenon
      <4>4. CASE p # Manifest
        <5>1. p \in Paths
          BY <1>2, <4>4, Fixed
        <5>2. r[p] # Nothing
          BY <1>3, <3>1, <3>4, <4>2, Zenon
        <5>3. s[p].type = "dir" => r[p].type = "dir"
          BY <4>1, <4>2, <5>1, <5>2, Zenon DEF InventoryAssumption
        <5> QED BY <1>3, <3>1, <3>2, <3>4, <4>1, <4>2, <5>3, Zenon
      <4> QED BY <4>3, <4>4
    <3> QED BY <3>3, <3>4
  <2>2. /\ visited' \subseteq Nodes /\ files' \subseteq visited'
        /\ Cardinality(visited') <= MAX_INVENTORY_ENTRIES
    BY <1>1 DEF WalkInv
  <2>3. HasMatched' => stable' \subseteq visited' /\ files' \ {Manifest} = Listed'
    BY <1>1, <1>6 DEF WalkInv, Listed
  <2> QED BY <2>1, <2>2, <2>3, Zenon DEF WalkInv
<1>10. ManifestInv'
  BY <1>1, <1>6 DEF ManifestInv
<1>11. ArtifactInv'
  <2>1. Len(artifacts') \in 0..Len(manifest') /\ artifacts' = Verified(Len(artifacts))'
    BY <1>1 DEF ArtifactInv, Verified
  <2> QED BY <1>1, <1>6, <2>1 DEF ArtifactInv, require_expected_metadata
<1>12. QuietInv'
  <2>1. changes \in 0..MaxChanges /\ changes' = changes + 1
    BY <1>1, Zenon DEF Points
  <2>2. changes' # 0
    BY <2>1
  <2> QED BY <2>2, Zenon DEF QuietInv
<1> QED BY <1>7, <1>8, <1>9, <1>10, <1>11, <1>12 DEF LoadInv

LEMMA LoadNextKeeps ==
    ASSUME InventoryAssumption, LoadInv, [LoadNext]_modelVars
    PROVE  LoadInv'
<1>1. CASE UNCHANGED modelVars
  <2>1. UNCHANGED <<Listed, Verified(Len(artifacts)), Present, HasParsed, HasMatched, HasVerified>>
    BY <1>1 DEF modelVars, Listed, Verified, Present, HasParsed, HasMatched, HasVerified
  <2>2. Points' /\ DiskInv' /\ WalkInv' /\ ManifestInv' /\ ArtifactInv' /\ QuietInv'
    BY <1>1, <2>1 DEF modelVars, LoadInv, Points, DiskInv, WalkInv, ManifestInv, ArtifactInv,
                      QuietInv, require_expected_metadata
  <2> QED BY <2>2 DEF LoadInv
<1> QED BY <1>1, load_manifest_Keeps, read_manifest_Keeps, regular_files_Keeps, WalkEnds_Keeps,
           entry_metadata_Keeps, read_entry_Keeps, from_model_root_Keeps, Change_Keeps,
           Zenon DEF LoadNext, Load

(* What the invariant says of the properties. *)
LEMMA LoadInvSuffices ==
    ASSUME InventoryAssumption, LoadInv
    PROVE  LoadTypeOK /\ OneReleaseLoads
<1>1. Points /\ DiskInv /\ WalkInv /\ ManifestInv /\ ArtifactInv /\ QuietInv
  BY DEF LoadInv
<1>2. PICK r \in Releases : disk[Manifest].content = r[Manifest].content
  BY ManifestThere
<1>3. ParserDecides
  BY <1>2, ReleaseParses DEF ParserDecides
<1>4. Loaded => HasParsed /\ HasMatched /\ HasVerified
  BY DEF Loaded, HasParsed, HasMatched, HasVerified, Ends
<1>5. \A i \in 1..Len(artifacts) :
         artifacts[i].entry = manifest[i] /\ artifacts[i].content = Bytes(manifest[i])
  BY <1>1 DEF ArtifactInv, Verified
<1>6. OneRelease
  <2> SUFFICES ASSUME Loaded
               PROVE  \E s \in Releases :
                         /\ parse(s[Manifest].content) = manifest
                         /\ \A i \in 1..Len(artifacts) :
                               s[artifacts[i].entry.path].content = artifacts[i].content
    BY DEF OneRelease
  <2>1. PICK s \in Releases :
           WellFormed(s[Manifest].content) /\ manifest = s[Manifest].content.lines
    BY <1>1, <1>4, Zenon DEF ManifestInv
  <2>2. parse(s[Manifest].content) = manifest
    BY <2>1, ReleaseParses
  <2>3. \A i \in 1..Len(manifest) : s[manifest[i].path].content = Bytes(manifest[i])
    <3>1. Described(s)
      BY <2>1, Zenon DEF InventoryAssumption, IsRelease
    <3> QED BY <2>1, <3>1, Zenon DEF Described, Bytes
  <2>4. Len(artifacts) = Len(manifest)
    BY <1>1, <1>4, Zenon DEF ArtifactInv
  <2>5. ASSUME NEW i \in 1..Len(artifacts)
        PROVE  s[artifacts[i].entry.path].content = artifacts[i].content
    <3>1. artifacts[i].entry = manifest[i] /\ artifacts[i].content = Bytes(manifest[i])
      BY <1>5, <2>5, Zenon
    <3>2. s[manifest[i].path].content = Bytes(manifest[i])
      BY <2>3, <2>4, <2>5, Zenon
    <3> QED BY <3>1, <3>2, Zenon
  <2> WITNESS s \in Releases
  <2> QED BY <2>2, <2>5, Zenon
<1>7. Closed
  BY <1>1, <1>4 DEF Closed, WalkInv
<1>8. ReviewedOnly
  <2> SUFFICES ASSUME outcome = "provider", NEW line \in Expected
               PROVE  \E i \in 1..Len(artifacts) :
                         /\ artifacts[i].entry.id = line.id
                         /\ artifacts[i].content = [size |-> line.size, digest |-> line.digest]
    BY DEF ReviewedOnly
  <2>1. PICK i \in 1..Len(manifest) : manifest[i] = line
    BY <1>1, Zenon DEF ArtifactInv, require_expected_metadata
  <2>2. Len(artifacts) = Len(manifest)
    BY <1>1 DEF ArtifactInv, HasVerified, Ends
  <2> QED BY <1>5, <2>1, <2>2, Zenon DEF Bytes
<1>9. QuietLoads
  <2>1. parse(disk[Manifest].content) # Nothing => WellFormed(disk[Manifest].content)
    BY <1>2, ReleaseParses
  <2> QED BY <1>1, <2>1 DEF QuietLoads, QuietInv, Ends
<1>10. LoadTypeOK
  <2>1. Len(manifest) <= MAX_MANIFEST_ENTRIES /\ Len(manifest) \in Nat
    <3>1. CASE manifest = << >>
      BY <3>1 DEF InventoryAssumption
    <3>2. CASE \E s \in Releases :
                  WellFormed(s[Manifest].content) /\ manifest = s[Manifest].content.lines
      <4>1. PICK s \in Releases :
               WellFormed(s[Manifest].content) /\ manifest = s[Manifest].content.lines
        BY <3>2, Zenon
      <4>2. Len(manifest) \in 1..MAX_MANIFEST_ENTRIES
        BY <4>1, ReleaseParses, Zenon
      <4>3. MAX_MANIFEST_ENTRIES \in Nat
        BY Zenon DEF InventoryAssumption
      <4> QED BY <4>2, <4>3
    <3> QED BY <1>1, <3>1, <3>2, Zenon DEF ManifestInv
  <2>2. Len(artifacts) <= Len(manifest)
    <3> DEFINE a == Len(artifacts)
               n == Len(manifest)
    <3>1. a \in 0..n /\ n \in Nat
      BY <1>1, <2>1, Zenon DEF ArtifactInv
    <3> HIDE DEF a, n
    <3>2. a <= n
      BY <3>1
    <3> QED BY <3>2, Zenon DEF a, n
  <2> QED BY <1>1, <2>1, <2>2, Zenon DEF LoadTypeOK, Points, DiskInv, WalkInv
<1> QED BY <1>3, <1>6, <1>7, <1>8, <1>9, <1>10 DEF OneReleaseLoads

(* load_and_verify_model_inventory, while packages replace the files under *)
(* it: for any releases, strays and number of changes, the loader accepts  *)
(* one whole release or nothing, sees every file that was there all the    *)
(* time, builds a provider from the reviewed bytes only, and does not      *)
(* refuse a release that nobody touches.                                   *)
THEOREM ReleaseHolds ==
    ASSUME InventoryAssumption
    PROVE  LoadSpec => [](LoadTypeOK /\ OneReleaseLoads)
<1>1. LoadInit => LoadInv
  BY LoadStarts
<1>2. LoadInv /\ [LoadNext]_modelVars => LoadInv'
  BY LoadNextKeeps
<1>3. LoadInv => LoadTypeOK /\ OneReleaseLoads
  BY LoadInvSuffices
<1> QED BY <1>1, <1>2, <1>3, PTL DEF LoadSpec
====

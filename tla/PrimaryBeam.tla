---------------------------- MODULE PrimaryBeam ----------------------------
(***************************************************************************)
(* The correction of images and source lists for the primary beam:         *)
(* PrimaryBeam (wsclean/primarybeam.cpp), PrimaryBeamImageSet, the matrices *)
(* it computes with (matrix2x2.h, matrix4x4.h, hmatrix4x4.h) and the LOFAR  *)
(* beam (lofar/lbeamimagemaker.cpp).                                       *)
(*                                                                         *)
(* A beam is made once for every channel of a run and written to files;    *)
(* everything that is corrected reads them again.  Most telescopes have a  *)
(* Jones matrix per pixel, in eight files; LOFAR has the average of the    *)
(* products of the responses of all pairs of stations, a 4x4 matrix of     *)
(* which sixteen numbers are kept; IDG leaves the power, in one file.      *)
(*                                                                         *)
(* Complex numbers are pairs of integers.  A quotient is kept as numerator *)
(* and denominator, so that a matrix is inverted exactly.                  *)
(***************************************************************************)
EXTENDS Integers, Sequences, FiniteSets, FiniteSetsExt

CONSTANTS
  Observations,   \* what is observed: see MCImaging
  MaxRuns         \* runs with the same output name

VARIABLES
  observation,   \* the observation of this run and its settings
  beamFiles,     \* the beam files on disk: <<channel, name>> -> [size, value]
  pbImages,      \* corrected images: channel -> pixel -> four quotients
  pbList,        \* the source list: component -> channel -> quotient
  pbRuns, pbStage
pbVars == <<observation, beamFiles, pbImages, pbList, pbRuns, pbStage>>

-----------------------------------------------------------------------------
(* Complex numbers and 2x2 matrices: m[0] m[1] over m[2] m[3] *)

Plus(a, b) == <<a[1] + b[1], a[2] + b[2]>>
Minus(a, b) == <<a[1] - b[1], a[2] - b[2]>>
Times(a, b) == <<a[1] * b[1] - a[2] * b[2], a[1] * b[2] + a[2] * b[1]>>
Conj(a) == <<a[1], -a[2]>>
Neg(a) == <<-a[1], -a[2]>>
CZero == <<0, 0>>
SumOf(f, S) == FoldSet(LAMBDA i, sum : Plus(f[i], sum), CZero, S)

ATimesB(a, b) ==
  [i \in 0 .. 3 |-> Plus(Times(a[2 * (i \div 2)], b[i % 2]), Times(a[2 * (i \div 2) + 1], b[2 + (i % 2)]))]
ATimesHermB(a, b) ==
  [i \in 0 .. 3 |-> Plus(Times(a[2 * (i \div 2)], Conj(b[2 * (i % 2)])),
                         Times(a[2 * (i \div 2) + 1], Conj(b[2 * (i % 2) + 1])))]
HermTranspose(a) == [i \in 0 .. 3 |-> Conj(a[2 * (i % 2) + (i \div 2)])]
Transpose(a) == [i \in 0 .. 3 |-> a[2 * (i % 2) + (i \div 2)]]

Determinant(a) == Minus(Times(a[0], a[3]), Times(a[1], a[2]))
\* Invert gives up when the determinant is zero; otherwise this over the determinant.
InvertedTimesDeterminant(a) ==
  [i \in 0 .. 3 |-> CASE i = 0 -> a[3] [] i = 3 -> a[0] [] OTHER -> Neg(a[i])]

StokesToLinear(s) == [i \in 0 .. 3 |-> CASE i = 0 -> <<s[1] + s[2], 0>> [] i = 1 -> <<s[3], s[4]>>
                                         [] i = 2 -> <<s[3], -s[4]>> [] i = 3 -> <<s[1] - s[2], 0>>]
LinearToStokes(l) == <<(l[0][1] + l[3][1]) \div 2, (l[0][1] - l[3][1]) \div 2,
                       (l[1][1] + l[2][1]) \div 2, (l[1][2] - l[2][2]) \div 2>>

-----------------------------------------------------------------------------
(* 4x4 matrices, and those of which only the lower half is stored *)

Kronecker(a, b) ==
  [i \in 0 .. 15 |-> LET row == i \div 4  col == i % 4
                     IN  Times(a[2 * (row \div 2) + (col \div 2)], b[2 * (row % 2) + (col % 2)])]

\* Invert: by the determinants of what is left without a row and a column.
Without(m, row, col) ==
  [i \in 0 .. 8 |-> LET r == i \div 3  c == i % 3
                    IN  m[4 * (IF r < row THEN r ELSE r + 1) + (IF c < col THEN c ELSE c + 1)]]
Determinant3(m) ==
  LET P(a, b, c) == Times(m[a], Times(m[b], m[c]))
  IN  Minus(Plus(P(0, 4, 8), Plus(P(1, 5, 6), P(2, 3, 7))), Plus(P(2, 4, 6), Plus(P(1, 3, 8), P(0, 5, 7))))
Cofactor(m, row, col) ==
  LET d == Determinant3(Without(m, row, col)) IN IF (row + col) % 2 = 0 THEN d ELSE Neg(d)
Determinant4(m) == SumOf([c \in 0 .. 3 |-> Times(m[c], Cofactor(m, 0, c))], 0 .. 3)
Inverted4TimesDeterminant(m) == [i \in 0 .. 15 |-> Cofactor(m, i % 4, i \div 4)]

\* The place of an element of the lower half among the sixteen numbers: row after row, an
\* element off the diagonal takes two.
Place(row, col) ==
  CASE row = col -> <<0, 3, 8, 15>>[row + 1]
    [] row = 1 /\ col = 0 -> 1 [] row = 2 /\ col < 2 -> 4 + 2 * col [] row = 3 /\ col < 3 -> 9 + 2 * col
Numbers == {<<row, col, part>> \in (0 .. 3) \X (0 .. 3) \X {0, 1} :
              row >= col /\ (row = col => part = 0)}

\* HMatrix4x4(Matrix4x4) and the lookup of an element.
FromMatrix(m) ==
  [n \in 0 .. 15 |->
     LET at == CHOOSE number \in Numbers : Place(number[1], number[2]) + number[3] = n
     IN  m[4 * at[1] + at[2]][at[3] + 1]]
ToMatrix(h) ==
  [i \in 0 .. 15 |->
     LET row == i \div 4  col == i % 4
         Lower(r, c) == <<h[Place(r, c)], h[Place(r, c) + 1]>>
     IN  CASE row = col -> <<h[Place(row, col)], 0>>
           [] row > col -> Lower(row, col)
           [] row < col -> Conj(Lower(col, row))]

Vec(m) == <<m[0], m[2], m[1], m[3]>>
TimesVec(m, v) == [i \in 1 .. 4 |-> SumOf([c \in 0 .. 3 |-> Times(m[4 * (i - 1) + c], v[c + 1])], 0 .. 3)]

-----------------------------------------------------------------------------
(* Quotients *)

Gcd[a \in Nat, b \in Nat] == IF b = 0 THEN a ELSE Gcd[b, a % b]
Size(n) == IF n < 0 THEN -n ELSE n

NotANumber == [num |-> 0, over |-> 0]
\* In lowest terms, over a positive number.
Quotient(num, over) ==
  IF over = 0 THEN NotANumber
  ELSE LET d == Gcd[Size(num), Size(over)] IN [num |-> (IF over < 0 THEN -num ELSE num) \div d, over |-> Size(over) \div d]
Whole(n) == [num |-> n, over |-> 1]
Scaled(a, factor) == Quotient(a.num * factor.num, a.over * factor.over)

-----------------------------------------------------------------------------
(* The beam of LOFAR: LBeamImageMaker *)

TimesOf(o) == {o.rows[n].time : n \in DOMAIN o.rows}
StartTime(o) == IF Cardinality(TimesOf(o)) = 1 THEN Min(TimesOf(o)) - 1 ELSE Min(TimesOf(o))
EndTime(o) == IF Cardinality(TimesOf(o)) = 1 THEN Max(TimesOf(o)) + 1 ELSE Max(TimesOf(o))
IntervalCount(o) ==
  Min({Max({1, (EndTime(o) - StartTime(o) + o.updateTime - 1) \div o.updateTime}), Cardinality(TimesOf(o))})

\* calculateStationWeights reads on until the end of the interval.
\* Mutant: the row at the end of an interval is part of it.
IsLaterInclusive(time, interval, o) ==
  (time - StartTime(o)) * IntervalCount(o) > interval * (EndTime(o) - StartTime(o))
IsLater(time, interval, o) ==
  (time - StartTime(o)) * IntervalCount(o) >= interval * (EndTime(o) - StartTime(o))

\* The rows of each interval, as first and last row.
RowsOfIntervals(o) ==
  LET After[k \in 0 .. IntervalCount(o)] ==
        IF k = 0 THEN 1
        ELSE Min({n \in After[k - 1] .. Len(o.rows) : IsLater(o.rows[n].time, k, o)} \cup {Len(o.rows) + 1})
  IN  [k \in 1 .. IntervalCount(o) |-> After[k - 1] .. After[k] - 1]

\* makeBeamSnapshot, weighted with the rows of the interval: the products of both orders of
\* the stations of a baseline.
BothOrders(g1, g2) ==
  LET a == Kronecker(Transpose(HermTranspose(g2)), g1)
      b == Kronecker(Transpose(HermTranspose(g1)), g2)
  IN  FromMatrix([i \in 0 .. 15 |-> Plus(a[i], b[i])])
SumOfWeights(o, rows) == FoldSet(LAMBDA n, sum : sum + o.rows[n].weight, 0, rows)

LofarBeam(o, gains) ==
  LET rowsOf == RowsOfIntervals(o)
      used == UNION {rowsOf[k] : k \in DOMAIN rowsOf}
      intervalOf(n) == CHOOSE k \in DOMAIN rowsOf : n \in rowsOf[k]
      products == [n \in used |->
                     LET g == gains[intervalOf(n)] IN BothOrders(g[o.rows[n].antenna1], g[o.rows[n].antenna2])]
  IN  [i \in 0 .. 15 |->
         [num |-> FoldSet(LAMBDA n, sum : sum + o.rows[n].weight * products[n][i], 0, used),
          over |-> 2 * SumOfWeights(o, used)]]

-----------------------------------------------------------------------------
(* Beam files: MakeBeamImages and load *)

LinearFiles == <<"XX", "XXi", "XY", "XYi", "YX", "YXi", "YY", "YYi">>
NumberedFiles == <<"0", "1", "2", "3", "4", "5", "6", "7", "8", "9", "10", "11", "12", "13", "14", "15">>
PixelsOf(o) == DOMAIN o.sky

\* What is written for a channel: file -> pixel -> quotient.
BeamImages(o, channel) ==
  CASE o.telescope = "voltage" ->
         [f \in {LinearFiles[n] : n \in 1 .. 8} |-> [px \in PixelsOf(o) |->
            LET n == CHOOSE k \in 1 .. 8 : LinearFiles[k] = f
            IN  Whole(o.response[channel][px][(n - 1) \div 2][1 + ((n - 1) % 2)])]]
    [] o.telescope = "LOFAR" ->
         [f \in {NumberedFiles[n] : n \in 1 .. 16} |-> [px \in PixelsOf(o) |->
            LET n == CHOOSE k \in 1 .. 16 : NumberedFiles[k] = f
            IN  LofarBeam(o, o.response[channel][px])[n - 1]]]
    [] o.telescope = "IDG" ->
         [f \in {"I"} |-> [px \in PixelsOf(o) |-> Whole(o.response[channel][px])]]

\* Only the first of eight files is looked for when a beam is to be used again.
UseExistingBeam(o, channel) ==
  /\ o.reuse /\ o.telescope # "IDG"
  /\ <<channel, "XX">> \in DOMAIN beamFiles /\ beamFiles[<<channel, "XX">>].size = o.size

\* load: the root of the power, eight files, or else sixteen.
Root(n) == CHOOSE r \in 0 .. n : r * r = n
FilesToLoad(o, channel) ==
  CASE o.telescope = "IDG" -> <<"I">>
    [] o.telescope # "IDG" /\ \A n \in 1 .. 8 : <<channel, LinearFiles[n]>> \in DOMAIN beamFiles -> LinearFiles
    [] OTHER -> NumberedFiles

Loaded(o, channel, px) ==
  LET names == FilesToLoad(o, channel)
      value == [n \in DOMAIN names |-> beamFiles[<<channel, names[n]>>].value[px]]
  IN  IF o.telescope = "IDG"
      THEN LET r == Whole(Root(value[1].num))
           IN  [n \in 1 .. 8 |-> IF n \in {1, 7} THEN r ELSE Whole(0)]
      ELSE value

-----------------------------------------------------------------------------
(* Corrections *)

Jones(beam) == [i \in 0 .. 3 |-> <<beam[2 * i + 1].num, beam[2 * i + 2].num>>]

\* GetUnpolarizedCorrectionFactor, and the factor of ApplyStokesI.
CorrectionFactor(beam) ==
  IF Len(beam) = 8
  THEN LET squared == ATimesHermB(Jones(beam), Jones(beam))
           inverse == InvertedTimesDeterminant(squared)
       IN  IF Determinant(squared) = CZero THEN NotANumber
           ELSE Quotient(inverse[0][1] + inverse[3][1], 2 * Determinant(squared)[1])
  ELSE LET m == ToMatrix([i \in 0 .. 15 |-> beam[i + 1].num])
           inverse == Inverted4TimesDeterminant(m)
           v == TimesVec(inverse, <<<<1, 0>>, CZero, CZero, <<1, 0>>>>)
       IN  IF Determinant4(m) = CZero THEN Whole(0)
           ELSE Quotient(beam[1].over * (v[1][1] + v[4][1]), 2 * Determinant4(m)[1])

\* ApplyFullStokes: the inverse from both sides.
ApplyFullStokes(beam, images) ==
  LET jones == Jones(beam)
      inverse == InvertedTimesDeterminant(jones)
      power == Times(Determinant(jones), Conj(Determinant(jones)))[1]
      linear == ATimesHermB(ATimesB(inverse, StokesToLinear([p \in 1 .. 4 |-> images[p].num])), inverse)
  IN  [p \in 1 .. 4 |-> IF power = 0 THEN NotANumber
                       ELSE Quotient(LinearToStokes(linear)[p], images[p].over * power)]

-----------------------------------------------------------------------------
(* What the telescope sees of the sky: not part of the program *)

Seen(jones1, sky, jones2) == ATimesHermB(ATimesB(jones1, StokesToLinear(sky)), jones2)

IntervalAt(o, time) ==
  CHOOSE k \in 1 .. IntervalCount(o) :
    (time - StartTime(o)) * IntervalCount(o) \in
      (k - 1) * (EndTime(o) - StartTime(o)) .. k * (EndTime(o) - StartTime(o)) - (IF k = IntervalCount(o) THEN 0 ELSE 1)

SeenByLofar(o, channel, px) ==
  LET both == [n \in DOMAIN o.rows |->
                LET row == o.rows[n]
                    g == o.response[channel][px][IntervalAt(o, row.time)]
                    a == Seen(g[row.antenna1], o.sky[px], g[row.antenna2])
                    b == Seen(g[row.antenna2], o.sky[px], g[row.antenna1])
                IN  [i \in 0 .. 3 |-> <<row.weight * (a[i][1] + b[i][1]), row.weight * (a[i][2] + b[i][2])>>]]
  IN  [i \in 0 .. 3 |-> SumOf([n \in DOMAIN both |-> both[n][i]], DOMAIN both)]

\* The apparent Stokes images.
Apparent(o, channel, px) ==
  CASE o.telescope = "voltage" ->
         LET s == LinearToStokes(Seen(o.response[channel][px], o.sky[px], o.response[channel][px]))
         IN  [p \in 1 .. 4 |-> Whole(s[p])]
    [] o.telescope = "LOFAR" ->
         LET s == LinearToStokes(SeenByLofar(o, channel, px))
         IN  [p \in 1 .. 4 |-> [num |-> s[p], over |-> 2 * SumOfWeights(o, DOMAIN o.rows)]]
    [] o.telescope = "IDG" -> [p \in 1 .. 4 |-> Whole(o.response[channel][px] * o.sky[px][p])]

-----------------------------------------------------------------------------
(* A run: the beams are made while the first images are, the images and the source list   *)
(* corrected at the end                                                                   *)

Nothing == << >>

PrimaryBeamInit ==
  /\ observation \in Observations
  /\ beamFiles = Nothing /\ pbImages = Nothing /\ pbList = Nothing
  /\ pbRuns = 1 /\ pbStage = "images"

MakeBeamImages ==
  /\ pbStage = "images" /\ pbStage' = "made"
  /\ LET made == {ch \in DOMAIN observation.response : ~UseExistingBeam(observation, ch)}
         new == [ch \in made |-> BeamImages(observation, ch)]
         written == UNION {{<<ch, f>> : f \in DOMAIN new[ch]} : ch \in made}
     IN  beamFiles' = [name \in DOMAIN beamFiles \cup written |->
                         IF name \in written
                         THEN [size |-> observation.size, value |-> new[name[1]][name[2]]]
                         ELSE beamFiles[name]]
  /\ UNCHANGED <<observation, pbImages, pbList, pbRuns>>

\* CorrectImages: all four Stokes images or only the first; sixteen files are not
\* implemented for all four.
IsRefused(o) ==
  /\ o.polarizations # <<"I">>
  /\ o.polarizations # <<"I", "Q", "U", "V">> \/ o.telescope = "LOFAR"

CorrectImages ==
  /\ pbStage = "made"
  /\ IF IsRefused(observation)
     THEN pbStage' = "refused" /\ UNCHANGED pbImages
     ELSE /\ pbStage' = "corrected"
          /\ pbImages' = [ch \in DOMAIN observation.response |-> [px \in PixelsOf(observation) |->
               LET beam == Loaded(observation, ch, px)
                   images == Apparent(observation, ch, px)
               IN  IF Len(observation.polarizations) = 1
                   THEN <<Scaled(images[1], CorrectionFactor(beam))>>
                   ELSE ApplyFullStokes(beam, images)]]
  /\ UNCHANGED <<observation, beamFiles, pbList, pbRuns>>

\* SavePBSourceList: every value of a component with the beam at its position and channel.
\* There is one component in each pixel.
SavePBSourceList ==
  /\ pbStage = "corrected" /\ observation.polarizations = <<"I">>
  /\ pbStage' = "listed"
  /\ pbList' = [px \in PixelsOf(observation) |-> [ch \in DOMAIN observation.response |->
       Scaled(Apparent(observation, ch, px)[1], CorrectionFactor(Loaded(observation, ch, px)))]]
  /\ UNCHANGED <<observation, beamFiles, pbImages, pbRuns>>

\* Another run with the same name, of the same telescope; a beam is used again when it is
\* the same.
NextRun ==
  /\ pbStage \in {"corrected", "listed", "refused"} /\ pbRuns < MaxRuns
  /\ pbRuns' = pbRuns + 1 /\ pbStage' = "images"
  /\ observation' \in {o \in Observations : o.telescope = observation.telescope
                                            /\ (o.reuse => o.response = observation.response)}
  /\ UNCHANGED <<beamFiles, pbImages, pbList>>

PrimaryBeamOver == pbStage \in {"corrected", "listed", "refused"} /\ pbRuns = MaxRuns /\ UNCHANGED pbVars

PrimaryBeamNext == MakeBeamImages \/ CorrectImages \/ SavePBSourceList \/ NextRun \/ PrimaryBeamOver

-----------------------------------------------------------------------------
(* Properties *)

IsScalar(m) == m[1] = CZero /\ m[2] = CZero /\ m[0] = m[3]

\* Where the sky can be recovered from what is imaged.
Recoverable(o, channel, px) ==
  LET r == o.response[channel][px]
  IN  CASE o.telescope = "voltage" /\ Len(o.polarizations) = 4 -> Determinant(r) # CZero
        [] o.telescope = "voltage" /\ Len(o.polarizations) = 1 ->
             IsScalar(ATimesHermB(r, r)) /\ Determinant(r) # CZero
        [] o.telescope = "LOFAR" ->
             /\ \A k \in DOMAIN r : \A a \in DOMAIN r[k] : IsScalar(r[k][a])
             /\ SeenByLofar([o EXCEPT !.sky = [q \in DOMAIN @ |-> <<1, 0, 0, 0>>]], channel, px)[0] # CZero
        [] o.telescope = "IDG" -> r # 0

ImagesAreSky ==
  pbStage = "corrected" =>
    \A ch \in DOMAIN pbImages : \A px \in DOMAIN pbImages[ch] :
      Recoverable(observation, ch, px) =>
        \A p \in DOMAIN pbImages[ch][px] : pbImages[ch][px][p] = Whole(observation.sky[px][p])

ListIsImage ==
  pbStage = "listed" =>
    \A px \in DOMAIN pbList : \A ch \in DOMAIN pbList[px] : pbList[px][ch] = pbImages[ch][px][1]

\* The sixteen numbers hold what the array does to any sky, when no station mixes the
\* polarizations differently in one direction than in the other.
IsHermitian(m) == m = HermTranspose(m)
BeamIsResponse ==
  pbStage = "made" /\ observation.telescope = "LOFAR" =>
    \A ch \in DOMAIN observation.response : \A px \in PixelsOf(observation) :
      LET r == observation.response[ch][px]
          beam == Loaded(observation, ch, px)
          m == ToMatrix([i \in 0 .. 15 |-> beam[i + 1].num])
      IN  (\A k \in DOMAIN r : \A a \in DOMAIN r[k] : IsHermitian(r[k][a])) =>
            TimesVec(m, Vec(StokesToLinear(observation.sky[px]))) = Vec(SeenByLofar(observation, ch, px))

\* Files that are read have the size of the images.
FilesFit ==
  pbStage = "made" =>
    \A ch \in DOMAIN observation.response :
      LET names == FilesToLoad(observation, ch)
      IN  \A n \in DOMAIN names : beamFiles[<<ch, names[n]>>].size = observation.size

\* PrimaryBeam, PrimaryBeamImageSet and LBeamImageMaker: an image that is corrected with the
\* beam files on disk is the sky, a source list is corrected like the image, each channel
\* and pixel with its own beam, and the beam of a run is that of its images.
CorrectedForBeam == ImagesAreSky /\ ListIsImage /\ BeamIsResponse /\ FilesFit
=============================================================================

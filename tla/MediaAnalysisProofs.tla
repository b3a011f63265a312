------------------------- MODULE MediaAnalysisProofs -------------------------
(***************************************************************************)
(* What TLC checks of MediaAnalysis on a few hundred outputs of ffprobe,   *)
(* proved for every set of outputs, every width of the columns and every   *)
(* configuration the assumptions of MediaAnalysis admit.                   *)
(***************************************************************************)
EXTENDS MCPipeline, TLAPS

-----------------------------------------------------------------------------
(* Integer division.                                                       *)

LEMMA DivMonotone ==
    ASSUME NEW a \in Nat, NEW b \in Nat, NEW d \in Nat \ {0}, a <= b
    PROVE  /\ a \div d \in Nat /\ b \div d \in Nat
           /\ a \div d <= b \div d
  OBVIOUS

LEMMA TimesMonotone ==
    ASSUME NEW a \in Nat, NEW b \in Nat, NEW c \in Nat, a <= b
    PROVE  a * c \in Nat /\ b * c \in Nat /\ a * c <= b * c
  OBVIOUS

LEMMA ModSmall ==
    ASSUME NEW a \in Nat, NEW d \in Nat, a < d
    PROVE  a % d = a
  OBVIOUS

LEMMA ModRange ==
    ASSUME NEW a \in Nat, NEW d \in Nat \ {0}
    PROVE  a % d \in 0..(d - 1)
  OBVIOUS

-----------------------------------------------------------------------------
(* The probe.                                                              *)

LEMMA PositiveType ==
    ASSUME NEW text \in Numbers
    PROVE  Positive(text) \in (Nat \ {0}) \cup {None}
  BY OutputAssumption DEF Positive, Numbers

LEMMA OutputFields ==
    ASSUME NEW out \in Outputs
    PROVE  /\ out.bitrate \in Numbers /\ out.formatBitrate \in Numbers
           /\ out.duration \in Numbers
           /\ out.framerate \in (Nat \X Nat) \cup {None, Unparsable}
           /\ out.height \in Nat \cup {None} /\ out.width \in Nat \cup {None}
           /\ out.size \in Nat \cup {None}
  <1>1. out \in OutputType
    BY OutputAssumption
  <1> QED
    BY <1>1 DEF OutputType

LEMMA BitrateType ==
    ASSUME NEW out \in Outputs
    PROVE  /\ BitrateOf(out) \in (Nat \ {0}) \cup {None}
           /\ BitrateOf(out) # None => BitrateOf(out) < LongRange \div 2
  <1> DEFINE text == IF out.bitrate = None THEN out.formatBitrate ELSE out.bitrate
  <1>1. text \in Numbers
    BY OutputFields
  <1>2. BitrateOf(out) = Positive(text)
    BY DEF BitrateOf
  <1>3. Positive(text) \in (Nat \ {0}) \cup {None}
    BY <1>1, PositiveType
  <1>4. ASSUME Positive(text) # None PROVE Positive(text) < LongRange \div 2
    <2>1. Positive(text) = text /\ text \in Nat
      BY <1>1, <1>4 DEF Positive, Numbers
    <2>2. text \in {out.bitrate, out.formatBitrate} \cap Nat
      BY <2>1
    <2> QED
      BY <2>1, <2>2, OutputAssumption
  <1> QED
    BY <1>2, <1>3, <1>4

\* What a probe keeps: numbers that are positive or None, no record that
\* could be mistaken for None.
LEMMA ProbeType ==
    ASSUME NEW out \in Probed
    PROVE  /\ out \in Outputs
           /\ Probe(out) \in PropertiesType
           /\ Probe(out).codec # None
           /\ Probe(out).bitrate = BitrateOf(out)
           /\ Probe(out).colour = ColourOf(out)
  <1>1. out \in Outputs /\ Probe(out) # Error
    BY DEF Probed
  <1> DEFINE codec == IF out.codec = None THEN "missing" ELSE out.codec
  <1>2. /\ Probe(out) = [codec |-> codec, height |-> out.height, width |-> out.width,
                         bitrate |-> BitrateOf(out), framerate |-> FramerateOf(out),
                         size |-> out.size, duration |-> Positive(out.duration),
                         colour |-> ColourOf(out), dolbyVision |-> out.dolbyVision]
        /\ out.height \notin {None, 0} /\ out.width \notin {None, 0}
        /\ Positive(out.size) # None
    BY <1>1 DEF Probe
  <1>3. codec \in {o.codec : o \in Outputs} \cup {"missing", "h264"} /\ codec # None
    BY <1>1, OutputAssumption
  <1>4. out.height \in Nat \ {0} /\ out.width \in Nat \ {0}
    BY <1>1, <1>2, OutputFields
  <1>5. BitrateOf(out) \in (Nat \ {0}) \cup {None}
    BY <1>1, BitrateType
  <1>6. FramerateOf(out) \in (Nat \X Nat) \cup {None}
    BY <1>1, OutputFields DEF FramerateOf
  <1>7. out.size \in Nat \ {0}
    BY <1>1, <1>2, OutputFields DEF Positive
  <1>8. Positive(out.duration) \in (Nat \ {0}) \cup {None}
    BY <1>1, OutputFields, PositiveType
  <1>9. ColourOf(out) \in ColourType \cup {None}
    BY <1>1 DEF ColourOf, ColourType
  <1>10. out.dolbyVision \in {o.dolbyVision : o \in Outputs}
    BY <1>1
  <1> HIDE DEF codec
  <1> QED
    BY <1>1, <1>2, <1>3, <1>4, <1>5, <1>6, <1>7, <1>8, <1>9, <1>10 DEF PropertiesType

-----------------------------------------------------------------------------
(* The row.                                                                *)

\* Both conversions of a bitrate: it survives iff it is in the column's half
\* of the positive numbers.
LEMMA IntRoundTrip ==
    ASSUME NEW b \in Nat \ {0}, b < LongRange \div 2
    PROVE  /\ ToInt(b) \in Int
           /\ FromInt(ToInt(b)) = b <=> b < IntRange \div 2
           /\ b < IntRange \div 2 => ToInt(b) # 0
  <1> DEFINE h == IntRange \div 2
             y == (b + h) % IntRange
  <1>1. /\ IntRange \in Nat /\ LongRange \in Nat /\ h \in Nat
        /\ 0 < IntRange /\ IntRange = 2 * h /\ 4 * h <= LongRange
    BY AnalysisAssumption
  <1>2. 2 * (LongRange \div 2) <= LongRange
    BY <1>1
  <1>3. b < LongRange - h
    BY <1>1, <1>2
  <1>4. ToInt(b) = y - h
    BY DEF ToInt
  <1> HIDE DEF h
  <1>5. CASE b < h
    <2>1. b + h \in Nat /\ b + h < IntRange
      BY <1>1, <1>5
    <2>2. y = b + h
      BY <2>1, <1>1, ModSmall
    <2>3. ToInt(b) = b
      BY <1>1, <1>4, <2>2
    <2> QED
      BY <1>1, <1>5, <2>3 DEF FromInt, h
  <1>6. CASE ~ (b < h)
    <2>1. y \in 0..(IntRange - 1)
      BY <1>1, ModRange
    <2> HIDE DEF y
    <2>2. FromInt(ToInt(b)) # b
      BY <1>1, <1>3, <1>4, <1>6, <2>1 DEF FromInt
    <2> QED
      BY <1>1, <1>4, <1>6, <2>1, <2>2 DEF h
  <1> QED
    BY <1>5, <1>6

\* The row a probe writes is read as what the probe found, its bitrate
\* converted twice and an earlier colour where the probe found none, unless
\* the column of the bitrate has become zero.
LEMMA RowIsRead ==
    ASSUME NEW out \in Probed, NEW old,
           NEW b, b = BitrateOf(out)
    PROVE  Reanalysed(old, out) =
             IF b # None /\ ToInt(b) = 0 THEN Error
             ELSE [Probe(out) EXCEPT
                     !.bitrate = IF b = None THEN None ELSE FromInt(ToInt(b)),
                     !.colour = IF ColourOf(out) = None THEN old ELSE ColourOf(out)]
  <1> DEFINE p == Probe(out)
             row == SaveProbe([NoRow EXCEPT !.colour = old], p)
  <1>1. /\ out \in Outputs /\ p \in PropertiesType /\ p.codec # None
        /\ p.bitrate = b /\ p.colour = ColourOf(out)
    BY ProbeType
  <1>2. row = [p EXCEPT !.bitrate = IF b = None THEN None ELSE ToInt(b),
                        !.colour = IF ColourOf(out) = None THEN old ELSE ColourOf(out)]
    BY <1>1 DEF SaveProbe, NoRow
  <1>3. Reanalysed(old, out) = ReadRow(row)
    BY DEF Reanalysed
  <1> HIDE DEF p, row
  <1>4. /\ p.size \in Nat \ {0} /\ p.height \in Nat /\ p.width \in Nat
        /\ p = [codec |-> p.codec, height |-> p.height, width |-> p.width,
                bitrate |-> p.bitrate, framerate |-> p.framerate, size |-> p.size,
                duration |-> p.duration, colour |-> p.colour,
                dolbyVision |-> p.dolbyVision]
    BY <1>1 DEF PropertiesType
  <1>5. /\ row.size # 0 /\ None \notin {row.codec, row.height, row.width, row.size}
        /\ row.bitrate = IF b = None THEN None ELSE ToInt(b)
    BY <1>1, <1>2, <1>4, OutputAssumption
  <1>6. ReadRow(row) = IF row.bitrate = 0 THEN Error
                       ELSE [row EXCEPT !.bitrate = IF row.bitrate = None THEN None
                                                    ELSE FromInt(row.bitrate)]
    BY <1>5 DEF ReadRow
  <1>7. b \in (Nat \ {0}) \cup {None} /\ (b # None => b < LongRange \div 2)
    BY <1>1, BitrateType
  <1>8. b # None => ToInt(b) \in Int /\ ToInt(b) # None
    BY <1>7, IntRoundTrip, OutputAssumption
  <1>9. CASE row.bitrate = 0
    <2>1. b # None /\ ToInt(b) = 0
      BY <1>5, <1>9, OutputAssumption
    <2> QED
      BY <1>3, <1>6, <1>9, <2>1
  <1>10. CASE row.bitrate # 0
    <2>1. ~ (b # None /\ ToInt(b) = 0)
      BY <1>5, <1>10
    <2>2. (IF row.bitrate = None THEN None ELSE FromInt(row.bitrate)) =
             IF b = None THEN None ELSE FromInt(ToInt(b))
      BY <1>5, <1>8
    <2>3. [row EXCEPT !.bitrate = IF b = None THEN None ELSE FromInt(ToInt(b))] =
             [p EXCEPT !.bitrate = IF b = None THEN None ELSE FromInt(ToInt(b)),
                       !.colour = IF ColourOf(out) = None THEN old ELSE ColourOf(out)]
      BY <1>2, <1>4
    <2> QED
      BY <1>3, <1>6, <1>10, <2>1, <2>2, <2>3 DEF p
  <1> QED
    BY <1>9, <1>10

LEMMA TwoColumns ==
    ASSUME NEW p \in PropertiesType, NEW x, NEW y
    PROVE  [p EXCEPT !.bitrate = x, !.colour = y] = p <=> x = p.bitrate /\ y = p.colour
  <1> DEFINE q == [p EXCEPT !.bitrate = x, !.colour = y]
  <1>1. q.bitrate = x /\ q.colour = y
    BY DEF PropertiesType
  <1>2. ASSUME x = p.bitrate, y = p.colour PROVE q = p
    BY <1>2 DEF PropertiesType
  <1> QED
    BY <1>1, <1>2

\* The analysis reads what the probe measured, of every output of ffprobe a
\* probe accepts, but for a bitrate its column is too narrow for and for an
\* earlier colour where this probe finds none (insert_probe_data).
THEOREM ProbeIsKept ==
    \A out \in Probed : KeepsProbe(out)
  <1> SUFFICES ASSUME NEW out \in Probed, NEW old \in Colours \cup {None}
               PROVE  Reanalysed(old, out) = Probe(out) <=>
                          Fits(out) /\ (old # None => ColourOf(out) # None)
    BY DEF KeepsProbe
  <1> DEFINE p == Probe(out)
             b == BitrateOf(out)
             readBitrate == IF b = None THEN None ELSE FromInt(ToInt(b))
             readColour == IF ColourOf(out) = None THEN old ELSE ColourOf(out)
  <1>1. /\ out \in Outputs /\ p \in PropertiesType /\ p # Error
        /\ p.bitrate = b /\ p.colour = ColourOf(out)
    BY ProbeType DEF Probed
  <1>2. b \in (Nat \ {0}) \cup {None} /\ (b # None => b < LongRange \div 2)
    BY <1>1, BitrateType
  <1>3. b # None => /\ ToInt(b) \in Int
                    /\ FromInt(ToInt(b)) = b <=> b < IntRange \div 2
                    /\ b < IntRange \div 2 => ToInt(b) # 0
    BY <1>2, IntRoundTrip
  <1>4. Reanalysed(old, out) =
           IF b # None /\ ToInt(b) = 0 THEN Error
           ELSE [p EXCEPT !.bitrate = readBitrate, !.colour = readColour]
    BY RowIsRead
  <1>5. readBitrate = b <=> Fits(out)
    BY <1>3 DEF Fits
  <1>6. readColour = ColourOf(out) <=> (old # None => ColourOf(out) # None)
    OBVIOUS
  <1> HIDE DEF p, readBitrate, readColour
  <1>7. [p EXCEPT !.bitrate = readBitrate, !.colour = readColour] = p <=>
            readBitrate = b /\ readColour = ColourOf(out)
    BY <1>1, TwoColumns
  <1>8. CASE b # None /\ ToInt(b) = 0
    <2>1. ~Fits(out)
      BY <1>3, <1>8 DEF Fits
    <2> QED
      BY <1>1, <1>4, <1>8, <2>1 DEF p
  <1>9. CASE ~(b # None /\ ToInt(b) = 0)
    BY <1>4, <1>5, <1>6, <1>7, <1>9 DEF p
  <1> QED
    BY <1>8, <1>9

\* Of a file whose bitrate fits its column the analysis reads the probe's
\* properties.
LEMMA AnalysedIsProbe ==
    ASSUME NEW out \in Probed, Fits(out)
    PROVE  Analysed(out) = Probe(out)
  <1>1. KeepsProbe(out)
    BY ProbeIsKept
  <1> QED
    BY <1>1 DEF KeepsProbe, Analysed

-----------------------------------------------------------------------------
(* The decision.                                                           *)

\* What a decision to encode says of the properties.
LEMMA EncodesMeans ==
    ASSUME NEW v \in PropertiesType
    PROVE  Encodes(Decide(v, None)) <=>
             /\ v.dolbyVision = None /\ NeedsTranscoding(v) /\ v.duration # None
             /\ ~(v.size * 3600 < MinSizePerHour * v.duration)
             /\ Bpp(v) # None /\ ~(Bpp(v) < Baseline(v))
             /\ ~(Potential(v) <= MinPotential)
  <1>1. v # None
    BY OutputAssumption
  <1>2. \A reason : ~Encodes(Skip(reason))
    BY DEF Encodes, Skip
  <1>3. \A crf : Encodes([crf |-> crf])
    BY DEF Encodes
  <1> QED
    BY <1>1, <1>2, <1>3 DEF Decide

LEMMA FactorsType ==
    ASSUME NEW v \in PropertiesType
    PROVE  /\ KiloPixels(v) \in Nat \ {0}
           /\ Scale(v) \in Nat \ {0}
           /\ Baseline(v) \in Nat
  <1>1. v.height \in Nat /\ v.width \in Nat
    BY DEF PropertiesType
  <1> DEFINE pixels == v.height * v.width
  <1>2. pixels \in Nat
    BY <1>1, TimesMonotone
  <1>3. KiloPixels(v) = IF pixels \div 1000 = 0 THEN 1 ELSE pixels \div 1000
    BY DEF KiloPixels
  <1>4. Scale(v) = CASE pixels >= 3840 * 2160 -> 30
                     [] pixels >= 1920 * 1080 /\ pixels < 3840 * 2160 -> 15
                     [] pixels >= 1280 * 720 /\ pixels < 1920 * 1080 -> 10
                     [] pixels < 1280 * 720 -> 6
    BY DEF Scale
  <1> HIDE DEF pixels
  <1>5. Baseline(v) \in Nat
    BY AnalysisAssumption DEF Baseline
  <1> QED
    BY <1>2, <1>3, <1>4, <1>5

LEMMA BppType ==
    ASSUME NEW v \in PropertiesType, Bpp(v) # None
    PROVE  v.bitrate \in Nat \ {0} /\ Bpp(v) \in Nat
  <1>1. /\ v.bitrate \in Nat \ {0}
        /\ v.framerate # None /\ v.framerate[1] \in Nat /\ v.framerate[2] \in Nat
    BY OutputAssumption DEF Bpp, PropertiesType
  <1>2. KiloPixels(v) \in Nat \ {0}
    BY FactorsType
  <1> DEFINE bits == v.bitrate * 1000 * v.framerate[2]
             d == KiloPixels(v) * v.framerate[1]
  <1>3. bits \in Nat
    BY <1>1
  <1>4. CASE v.framerate[1] = 0
    BY <1>1, <1>4 DEF Bpp, Infinite
  <1>5. CASE v.framerate[1] # 0
    <2>1. d \in Nat \ {0}
      BY <1>1, <1>2, <1>5
    <2>2. Bpp(v) = bits \div d
      BY <1>1, <1>5, OutputAssumption DEF Bpp
    <2> HIDE DEF bits, d
    <2> QED
      BY <1>1, <1>3, <2>1, <2>2, DivMonotone
  <1> QED
    BY <1>4, <1>5

\* The bits per pixel grow with the bitrate, all else equal.
LEMMA BppMonotone ==
    ASSUME NEW v \in PropertiesType, Bpp(v) # None, v.bitrate # None,
           NEW b \in Nat \ {0}, v.bitrate <= b
    PROVE  LET w == [v EXCEPT !.bitrate = b]
           IN /\ Bpp(v) \in Nat /\ Bpp(w) \in Nat
              /\ Bpp(v) <= Bpp(w)
  <1> DEFINE w == [v EXCEPT !.bitrate = b]
             f == v.framerate
             d == KiloPixels(v) * f[1]
  <1>1. /\ w.bitrate = b /\ w.framerate = f /\ w.height = v.height
        /\ w.width = v.width /\ v.bitrate \in Nat \ {0}
        /\ f \in (Nat \X Nat) \cup {None} /\ b # None
    BY OutputAssumption DEF PropertiesType
  <1>2. f # None /\ f[1] \in Nat /\ f[2] \in Nat
    BY <1>1 DEF Bpp
  <1>3. KiloPixels(w) = KiloPixels(v) /\ KiloPixels(v) \in Nat \ {0}
    BY <1>1, FactorsType DEF KiloPixels
  <1>4. CASE f[1] = 0
    <2>1. Bpp(v) = Infinite /\ Bpp(w) = Infinite
      BY <1>1, <1>2, <1>4 DEF Bpp
    <2> QED
      BY <2>1 DEF Infinite
  <1>5. CASE f[1] # 0
    <2>1. /\ Bpp(v) = (v.bitrate * 1000 * f[2]) \div d
          /\ Bpp(w) = (b * 1000 * f[2]) \div d
      BY <1>1, <1>2, <1>3, <1>5 DEF Bpp
    <2>2. d \in Nat \ {0}
      BY <1>2, <1>3, <1>5
    <2>3. /\ v.bitrate * 1000 * f[2] \in Nat /\ b * 1000 * f[2] \in Nat
          /\ v.bitrate * 1000 * f[2] <= b * 1000 * f[2]
      <3>1. v.bitrate * 1000 \in Nat /\ b * 1000 \in Nat /\ v.bitrate * 1000 <= b * 1000
        BY <1>1
      <3> QED
        BY <3>1, <1>2, TimesMonotone
    <2> HIDE DEF d
    <2> QED
      BY <2>1, <2>2, <2>3, DivMonotone
  <1> QED
    BY <1>4, <1>5

\* Of two files that differ in nothing but their bitrate the one with more of
\* it is encoded if the other is; and what is encoded as HEVC, whose baseline
\* is the higher one, is encoded as anything else
\* (TakeTranscodeDecisionService::execute).
LEMMA MoreBitsAreEncoded ==
    ASSUME MinBpp <= MinBppHevc, NEW v \in PropertiesType
    PROVE  SparesNoMoreBits(v)
  <1> SUFFICES ASSUME Encodes(Decide(v, None))
               PROVE  /\ \A b \in Bitrates :
                           b >= v.bitrate => Encodes(Decide([v EXCEPT !.bitrate = b], None))
                      /\ v.codec = "hevc" =>
                           Encodes(Decide([v EXCEPT !.codec = "h264"], None))
    BY DEF SparesNoMoreBits
  <1>1. /\ v.dolbyVision = None /\ NeedsTranscoding(v) /\ v.duration # None
        /\ ~(v.size * 3600 < MinSizePerHour * v.duration)
        /\ Bpp(v) # None /\ ~(Bpp(v) < Baseline(v))
        /\ ~(Potential(v) <= MinPotential)
    BY EncodesMeans
  <1>2. v.bitrate \in Nat \ {0}
    BY <1>1, BppType
  <1>3. Scale(v) \in Nat \ {0} /\ Baseline(v) \in Nat /\ MinPotential \in Nat
    BY FactorsType, AnalysisAssumption
  <1>4. ASSUME NEW b \in Bitrates, b >= v.bitrate
        PROVE  Encodes(Decide([v EXCEPT !.bitrate = b], None))
    <2> DEFINE w == [v EXCEPT !.bitrate = b]
    <2>1. b \in Nat \ {0}
      BY BitrateType DEF Bitrates
    <2>2. /\ w \in PropertiesType
          /\ w.dolbyVision = v.dolbyVision /\ w.codec = v.codec
          /\ w.duration = v.duration /\ w.size = v.size
          /\ w.height = v.height /\ w.width = v.width
      BY <2>1 DEF PropertiesType
    <2>3. Bpp(v) \in Nat /\ Bpp(w) \in Nat /\ Bpp(v) <= Bpp(w)
      BY <1>1, <1>2, <1>4, <2>1, BppMonotone, OutputAssumption
    <2> HIDE DEF w
    <2>4. Baseline(w) = Baseline(v) /\ Scale(w) = Scale(v)
      BY <2>2 DEF Baseline, Scale
    <2>5. NeedsTranscoding(w)
      BY <1>1, <2>2 DEF NeedsTranscoding
    <2>6. ~(Potential(w) <= MinPotential)
      <3>1. /\ Bpp(v) - Baseline(v) \in Nat /\ Bpp(w) - Baseline(v) \in Nat
            /\ Bpp(v) - Baseline(v) <= Bpp(w) - Baseline(v)
        BY <1>1, <1>3, <2>3
      <3>2. /\ (Bpp(v) - Baseline(v)) * Scale(v) <= (Bpp(w) - Baseline(v)) * Scale(v)
            /\ (Bpp(v) - Baseline(v)) * Scale(v) \in Nat
            /\ (Bpp(w) - Baseline(v)) * Scale(v) \in Nat
        BY <1>3, <3>1, TimesMonotone
      <3> QED
        BY <1>1, <1>3, <2>4, <3>2 DEF Potential
    <2>7. Bpp(w) # None /\ ~(Bpp(w) < Baseline(w))
      BY <1>1, <1>3, <2>3, <2>4, OutputAssumption
    <2>8. Encodes(Decide(w, None))
      BY <1>1, <2>2, <2>5, <2>6, <2>7, EncodesMeans
    <2> QED
      BY <2>8 DEF w
  <1>5. ASSUME v.codec = "hevc"
        PROVE  Encodes(Decide([v EXCEPT !.codec = "h264"], None))
    <2> DEFINE w == [v EXCEPT !.codec = "h264"]
    <2>1. /\ w \in PropertiesType /\ w.codec = "h264"
          /\ w.dolbyVision = v.dolbyVision
          /\ w.duration = v.duration /\ w.size = v.size
          /\ w.height = v.height /\ w.width = v.width
          /\ w.bitrate = v.bitrate /\ w.framerate = v.framerate
      BY DEF PropertiesType
    <2> HIDE DEF w
    <2>2. Bpp(w) = Bpp(v) /\ Scale(w) = Scale(v)
      BY <2>1 DEF Bpp, KiloPixels, Scale
    <2>3. Baseline(w) \in Nat /\ Baseline(w) <= Baseline(v)
      BY <1>5, <2>1, AnalysisAssumption DEF Baseline
    <2>4. NeedsTranscoding(w)
      BY <2>1 DEF NeedsTranscoding
    <2>5. Bpp(v) \in Nat
      BY <1>1, BppType
    <2>6. ~(Potential(w) <= MinPotential)
      <3>1. /\ Bpp(v) - Baseline(v) \in Nat /\ Bpp(v) - Baseline(w) \in Nat
            /\ Bpp(v) - Baseline(v) <= Bpp(v) - Baseline(w)
        BY <1>1, <1>3, <2>3, <2>5
      <3>2. /\ (Bpp(v) - Baseline(v)) * Scale(v) <= (Bpp(v) - Baseline(w)) * Scale(v)
            /\ (Bpp(v) - Baseline(v)) * Scale(v) \in Nat
            /\ (Bpp(v) - Baseline(w)) * Scale(v) \in Nat
        BY <1>3, <3>1, TimesMonotone
      <3> QED
        BY <1>1, <1>3, <2>2, <3>2 DEF Potential
    <2>7. Bpp(w) # None /\ ~(Bpp(w) < Baseline(w))
      BY <1>1, <1>3, <2>2, <2>3, <2>5
    <2>8. Encodes(Decide(w, None))
      BY <1>1, <2>1, <2>4, <2>6, <2>7, EncodesMeans
    <2> QED
      BY <2>8 DEF w
  <1> QED
    BY <1>4, <1>5

-----------------------------------------------------------------------------
(* The colour.                                                             *)

\* A colour a probe accepts whole goes through the row and the arguments of
\* any encoder a process may start with (extract_color_metadata, build_args).
LEMMA ColourIsPassed ==
    ASSUME NEW out \in Probed, Fits(out)
    PROVE  PassesColour(out)
  <1> SUFFICES ASSUME out.names # None, out.light # Unparsable, NEW encoder \in Chosen
               PROVE  LET args == BuildArgs(encoder, 24, Analysed(out).colour)
                      IN /\ args.names = out.names
                         /\ encoder = "libx265" =>
                              /\ args.light = out.light
                              /\ out.mastering # Unparsable =>
                                     args.mastering = out.mastering
    BY DEF PassesColour
  <1> DEFINE colour == [names |-> out.names,
                        mastering |-> IF out.mastering = Unparsable THEN None
                                      ELSE out.mastering,
                        light |-> out.light]
  <1>1. out \in Outputs
    BY ProbeType
  <1>2. Analysed(out).colour = ColourOf(out)
    BY AnalysedIsProbe, ProbeType
  <1>3. ColourOf(out) = colour
    BY DEF ColourOf
  <1>4. colour # None
    BY <1>1, OutputAssumption DEF ColourType
  <1> QED
    BY <1>2, <1>3, <1>4 DEF BuildArgs

-----------------------------------------------------------------------------
(* The invariants of the run.                                              *)

\* Whatever ffprobe says of a file, what is stored of a probe is what the
\* analysis reads.
THEOREM StoredProbeIsRead ==
    MCSpec => []RowKeepsProbe
  <1>1. RowKeepsProbe
    BY ProbeIsKept DEF RowKeepsProbe
  <1> QED
    BY <1>1, PTL

\* Whatever ffprobe says of a file and whatever the thresholds are, as long as
\* that of HEVC is not the lower one, more bits are never a reason to spare it.
THEOREM BitsAreMonotone ==
    MinBpp <= MinBppHevc => (MCSpec => []MoreBitsNeverSpared)
  <1> SUFFICES ASSUME MinBpp <= MinBppHevc PROVE MCSpec => []MoreBitsNeverSpared
    OBVIOUS
  <1>1. ASSUME output \in Probed, Fits(output)
        PROVE  SparesNoMoreBits(Analysed(output))
    BY <1>1, AnalysedIsProbe, ProbeType, MoreBitsAreEncoded
  <1>2. MoreBitsNeverSpared
    BY <1>1 DEF MoreBitsNeverSpared
  <1> QED
    BY <1>2, PTL

\* Whatever ffprobe says of a file and whichever encoder the process detected,
\* the file's colour reaches it.
THEOREM ColourSurvives ==
    MCSpec => []ColourReachesEncoder
  <1>1. ColourReachesEncoder
    BY ColourIsPassed DEF ColourReachesEncoder
  <1> QED
    BY <1>1, PTL
=============================================================================

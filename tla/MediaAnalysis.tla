---------------------------- MODULE MediaAnalysis ----------------------------
(***************************************************************************)
(* What becomes of what ffprobe says about a file: the properties the      *)
(* probe keeps of it, the columns they are stored in, the properties the   *)
(* analysis reads back, its decision, and the arguments of the encoder.    *)
(*                                                                         *)
(* Units: bitrates in kbit/s, sizes in MiB, durations in seconds, bits per *)
(* pixel and compression potentials in thousandths, rounded down.          *)
(***************************************************************************)
EXTENDS Integers

CONSTANTS
    None,
    Error,        \* what a conversion that fails returns
    Unparsable,   \* a number ffprobe prints as something else ("N/A")
    Outputs,      \* what ffprobe may say of a file
    Ratings,      \* ratings of the provider, in tenths
    Encoders,
    IntRange,     \* 2^32 bit/s: the column of the bitrate is an INTEGER
    LongRange,    \* 2^64 bit/s: it is read back as a u64
    MinSizePerHour, MinBpp, MinBppHevc, MinPotential \* the configuration

ASSUME AnalysisAssumption ==
    /\ {IntRange, LongRange, MinSizePerHour, MinBpp, MinBppHevc, MinPotential}
           \subseteq Nat
    /\ IntRange % 2 = 0 /\ 0 < IntRange /\ 2 * IntRange <= LongRange
    /\ Encoders \subseteq {"nvenc", "videotoolbox", "libx265"}

\* A number of ffprobe's output: there, missing, or not parsable as one.
Numbers == Nat \cup {None, Unparsable}

\* What ffprobe's JSON may hold (probe/output.rs).  It prints a bitrate from a
\* signed 64-bit integer.
OutputType ==
    [video : BOOLEAN, codec : {out.codec : out \in Outputs},
     height : Nat \cup {None}, width : Nat \cup {None},
     bitrate : Numbers, formatBitrate : Numbers,
     framerate : (Nat \X Nat) \cup {None, Unparsable},
     size : Nat \cup {None}, duration : Numbers,
     names : {out.names : out \in Outputs}, mastering : {out.mastering : out \in Outputs},
     light : {out.light : out \in Outputs},
     dolbyVision : {out.dolbyVision : out \in Outputs}]

ColourType ==
    [names : {out.names : out \in Outputs},
     mastering : {out.mastering : out \in Outputs} \cup {None},
     light : {out.light : out \in Outputs}]

\* VideoProperties; ::new rejects zeros (models/video.rs).
PropertiesType ==
    [codec : {out.codec : out \in Outputs} \cup {"missing", "h264"},
     height : Nat \ {0}, width : Nat \ {0},
     bitrate : (Nat \ {0}) \cup {None}, framerate : (Nat \X Nat) \cup {None},
     size : Nat \ {0}, duration : (Nat \ {0}) \cup {None},
     colour : ColourType \cup {None},
     dolbyVision : {out.dolbyVision : out \in Outputs}]

\* None, Error and Unparsable stand for what is no value.
ASSUME OutputAssumption ==
    /\ {None, Unparsable, Error} \cap Int = {}
    /\ None \notin {"missing", "h264"}
    /\ None \notin ColourType \cup PropertiesType
    /\ Outputs \subseteq OutputType
    /\ \A out \in Outputs : \A b \in {out.bitrate, out.formatBitrate} \cap Nat :
          b < LongRange \div 2

-----------------------------------------------------------------------------
(* The probe: what is kept of ffprobe's output.                            *)

\* The number a text stands for, if it is one that ::new accepts.
Positive(text) == IF text \in {None, Unparsable, 0} THEN None ELSE text

\* The format's bitrate stands in for a missing one, not for one that does
\* not parse.
BitrateOf(out) ==
    Positive(IF out.bitrate = None THEN out.formatBitrate ELSE out.bitrate)

\* <<numerator, denominator>>; only the denominator may not be zero.
FramerateOf(out) ==
    IF out.framerate \in {None, Unparsable} THEN None
    ELSE IF out.framerate[2] = 0 THEN None ELSE out.framerate

\* All of it or nothing: the three names must be there, and a content light
\* level that lacks a number takes everything with it; a mastering display
\* that does not parse is left out.
ColourOf(out) ==
    IF out.names = None \/ out.light = Unparsable THEN None
    ELSE [names |-> out.names,
          mastering |-> IF out.mastering = Unparsable THEN None ELSE out.mastering,
          light |-> out.light]

\* TryFrom<FfprobeOutput> for VideoProperties.
Probe(out) ==
    IF \/ ~out.video
       \/ {out.height, out.width} \cap {None, 0} # {}
       \/ Positive(out.size) = None
    THEN Error
    ELSE [codec |-> IF out.codec = None THEN "missing" ELSE out.codec,
          height |-> out.height, width |-> out.width,
          bitrate |-> BitrateOf(out), framerate |-> FramerateOf(out),
          size |-> out.size, duration |-> Positive(out.duration),
          colour |-> ColourOf(out), dolbyVision |-> out.dolbyVision]

-----------------------------------------------------------------------------
(* The row: insert_probe_data and TryFrom<MediaFileRow> for MediaFile.     *)

\* `as i32` keeps the low 32 bits, as a signed number.
ToInt(b) == ((b + IntRange \div 2) % IntRange) - IntRange \div 2

\* `as u64` of an i32.
FromInt(i) == IF i < 0 THEN LongRange + i ELSE i

NoRow == [codec |-> None, height |-> None, width |-> None, bitrate |-> None,
          framerate |-> None, size |-> None, duration |-> None,
          colour |-> None, dolbyVision |-> None]

\* Mutant: the bitrate is not among the columns the probe writes.
SaveProbe_NoBitrate(row, v) ==
    [v EXCEPT !.bitrate = row.bitrate,
              !.colour = IF v.colour = None THEN row.colour ELSE v.colour]

\* Every column is written, those of the colour only if there is some.
SaveProbe(row, v) ==
    [v EXCEPT !.bitrate = IF v.bitrate = None THEN None ELSE ToInt(v.bitrate),
              !.colour = IF v.colour = None THEN row.colour ELSE v.colour]

\* None: no properties; Error: the row cannot be read any more.
ReadRow(row) ==
    IF row.bitrate = 0 \/ row.size = 0 THEN Error
    ELSE IF None \in {row.codec, row.height, row.width, row.size} THEN None
    ELSE [row EXCEPT !.bitrate = IF row.bitrate = None THEN None
                                 ELSE FromInt(row.bitrate)]

-----------------------------------------------------------------------------
(* The decision.                                                           *)

NeedsTranscoding(v) == v.codec # "av1"

\* At least one: the unit rounds down, the program's f64 does not.
KiloPixels(v) ==
    LET kilo == (v.height * v.width) \div 1000 IN IF kilo = 0 THEN 1 ELSE kilo

\* A frame rate of zero divides: no threshold is above the result.
Infinite == 1000000

Bpp(v) ==
    IF None \in {v.bitrate, v.framerate} THEN None
    ELSE IF v.framerate[1] = 0 THEN Infinite
    ELSE (v.bitrate * 1000 * v.framerate[2]) \div (KiloPixels(v) * v.framerate[1])

\* Mutant: the thresholds are passed in the wrong order.
Baseline_Swapped(v) == IF v.codec = "hevc" THEN MinBpp ELSE MinBppHevc

Baseline(v) == IF v.codec = "hevc" THEN MinBppHevc ELSE MinBpp

\* Ten times the factor of the resolution, as the scale of a potential.
Scale(v) ==
    LET pixels == v.height * v.width
    IN CASE pixels >= 3840 * 2160 -> 30
         [] pixels >= 1920 * 1080 /\ pixels < 3840 * 2160 -> 15
         [] pixels >= 1280 * 720 /\ pixels < 1920 * 1080 -> 10
         [] pixels < 1280 * 720 -> 6

Potential(v) == (Bpp(v) - Baseline(v)) * Scale(v)

Crf(bpp, rating) ==
    LET base == CASE rating = None -> 24
                  [] rating # None /\ rating >= 75 -> 22
                  [] rating # None /\ rating >= 60 /\ rating < 75 -> 24
                  [] rating # None /\ rating >= 40 /\ rating < 60 -> 26
                  [] rating # None /\ rating < 40 -> 28
        adjustment == CASE bpp >= 150 -> -1
                        [] bpp >= 80 /\ bpp < 150 -> 0
                        [] bpp >= 50 /\ bpp < 80 -> 1
                        [] bpp < 50 -> 2
        crf == base + adjustment
    IN IF crf < 20 THEN 20 ELSE IF crf > 30 THEN 30 ELSE crf

Skip(reason) == [skip |-> reason]

\* TakeTranscodeDecisionService::execute, on what ReadRow returned.
Decide(v, rating) ==
    IF v = None THEN Skip("missing_probe_data")
    ELSE IF v.dolbyVision # None THEN Skip("dolby_vision")
    ELSE IF ~NeedsTranscoding(v) THEN Skip("excluded_codec")
    ELSE IF v.duration = None THEN Skip("missing_probe_data")
    ELSE IF v.size * 3600 < MinSizePerHour * v.duration THEN Skip("file_too_small")
    ELSE IF Bpp(v) = None THEN Skip("missing_probe_data")
    ELSE IF Bpp(v) < Baseline(v) THEN Skip("already_compressed")
    ELSE IF Potential(v) <= MinPotential THEN Skip("insufficient_compression_potential")
    ELSE [crf |-> Crf(Bpp(v), rating)]

Encodes(decision) == DOMAIN decision = {"crf"}

-----------------------------------------------------------------------------
(* The encoder.                                                            *)

Quality(encoder, crf) ==
    IF encoder # "videotoolbox" THEN crf
    ELSE IF 2 * crf > 100 THEN 0 ELSE 100 - 2 * crf

\* Mutant: the two x265 parameters take each other's value.
BuildArgs_Swapped(encoder, crf, colour) ==
    [quality |-> Quality(encoder, crf),
     names |-> IF colour = None THEN None ELSE colour.names,
     mastering |-> IF colour = None \/ encoder # "libx265" THEN None ELSE colour.light,
     light |-> IF colour = None \/ encoder # "libx265" THEN None ELSE colour.mastering]

\* build_args: the names are options of ffmpeg, the rest goes through
\* -x265-params, which only libx265 has.
BuildArgs(encoder, crf, colour) ==
    [quality |-> Quality(encoder, crf),
     names |-> IF colour = None THEN None ELSE colour.names,
     mastering |-> IF colour = None \/ encoder # "libx265" THEN None
                   ELSE colour.mastering,
     light |-> IF colour = None \/ encoder # "libx265" THEN None ELSE colour.light]

\* detect_encoder: the override, or the first whose test encode succeeds.
Detect(override, works) ==
    IF override # None THEN override
    ELSE CASE "nvenc" \in works -> "nvenc"
           [] "nvenc" \notin works /\ "videotoolbox" \in works -> "videotoolbox"
           [] works = {"libx265"} -> "libx265"
           [] works = {} -> Error

\* What a process may start with; a failed detection ends it.
Chosen == {Detect(o, w) : o \in Encoders \cup {None}, w \in SUBSET Encoders} \ {Error}

-----------------------------------------------------------------------------
(* Where a probe and an analysis may take a file (WorkflowOrchestrator).   *)

ProbeLeadsTo == {IF Probe(out) = Error THEN "failed" ELSE "probed" : out \in Outputs}

Probed == {out \in Outputs : Probe(out) # Error}

\* The properties an analysis reads after a probe of a file an earlier probe
\* may have found a colour of.
Reanalysed(colour, out) ==
    ReadRow(SaveProbe([NoRow EXCEPT !.colour = colour], Probe(out)))

Analysed(out) == Reanalysed(None, out)

Fits(out) == BitrateOf(out) = None \/ BitrateOf(out) < IntRange \div 2

AnalysisLeadsTo ==
    {IF Encodes(Decide(Analysed(out), r)) THEN "analyzed" ELSE "skipped" :
        out \in {o \in Probed : Fits(o)}, r \in Ratings \cup {None}}

-----------------------------------------------------------------------------
(* Properties, of one output of ffprobe.                                   *)

Colours == {ColourOf(out) : out \in Probed}

\* The analysis reads what the probe measured, whatever is missing in it and
\* whatever an earlier probe of the file found.  The two exceptions are a
\* bitrate its column is too narrow for, and the colour of an earlier probe,
\* which stays when this one finds none (insert_probe_data, store/mod.rs:278).
KeepsProbe(out) ==
    \A old \in Colours \cup {None} :
        Reanalysed(old, out) = Probe(out) <=>
            Fits(out) /\ (old # None => ColourOf(out) # None)

Bitrates == {b \in {BitrateOf(out) : out \in Outputs} \ {None} : b < IntRange \div 2}

\* Of two files that differ in nothing but their bitrate, the analysis never
\* encodes the one with less of it only; and, with the thresholds in the order
\* of their defaults, what it would encode as HEVC it encodes as anything else
\* it encodes
\* (TakeTranscodeDecisionService::execute, decision.rs:40).
SparesNoMoreBits(v) ==
    Encodes(Decide(v, None)) =>
        /\ \A b \in Bitrates :
             b >= v.bitrate => Encodes(Decide([v EXCEPT !.bitrate = b], None))
        /\ v.codec = "hevc" => Encodes(Decide([v EXCEPT !.codec = "h264"], None))

\* The colour of a source reaches the encoder through the probe, the row and
\* the arguments: its names always, the mastering display and light level
\* when the encoder has options for them; unless the light level is
\* incomplete, which loses them all (extract_color_metadata, mapping.rs:94).
PassesColour(out) ==
    out.names # None /\ out.light # Unparsable =>
        \A encoder \in Chosen :
            LET args == BuildArgs(encoder, 24, Analysed(out).colour)
            IN /\ args.names = out.names
               /\ encoder = "libx265" =>
                    /\ args.light = out.light
                    /\ out.mastering # Unparsable => args.mastering = out.mastering
=============================================================================

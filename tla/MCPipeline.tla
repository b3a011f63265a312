----------------------------- MODULE MCPipeline -----------------------------
EXTENDS Pipeline

\* Files that differ in what the decision looks at...
Plain == [video |-> TRUE, codec |-> "h264", height |-> 1080, width |-> 1920,
          bitrate |-> 8000, formatBitrate |-> None, framerate |-> <<24, 1>>,
          size |-> 5000, duration |-> 3600, names |-> None, mastering |-> None,
          light |-> None, dolbyVision |-> None]

Sized == {[Plain EXCEPT !.codec = c, !.height = r[1], !.width = r[2], !.bitrate = b,
                        !.framerate = f, !.size = s, !.dolbyVision = d] :
             c \in {"h264", "hevc", "av1", None},
             r \in {<<480, 720>>, <<720, 1280>>, <<1080, 1920>>, <<2160, 3840>>},
             b \in {500, 2000, 5000, 8000, 15000, 40000, 90000},
             f \in {<<24, 1>>, <<60, 1>>, <<0, 1>>, None},
             s \in {1000, 5000},
             d \in {None, 5}}

\* ... files that lack something or have it in a form that does not parse...
Odd == {[Plain EXCEPT !.video = v, !.codec = c, !.height = h, !.bitrate = b,
                      !.formatBitrate = g, !.framerate = f, !.size = s, !.duration = d] :
           v \in BOOLEAN, c \in {None, "hevc"}, h \in {None, 0, 1080},
           b \in {None, Unparsable, 0, 8000, 2147484, 3000000},
           g \in {None, 0, 6000},
           f \in {None, Unparsable, <<0, 0>>, <<24, 1>>},
           s \in {None, 0, 5000}, d \in {None, Unparsable, 3600}}

\* ... and files with colour metadata.
Coloured == {[Plain EXCEPT !.names = n, !.mastering = m, !.light = l] :
                n \in {None, "bt2020"}, m \in {None, Unparsable, "display"},
                l \in {None, Unparsable, "level"}}

\* ffmpeg fails; it fails and says that a permission was denied.
MCErrors == {{"ffmpeg failed"}, {"ffmpeg failed", "Permission denied"}}

MCOutputs == Sized \cup Odd \cup Coloured

\* An output of ffprobe the operators of MediaAnalysis are checked on; with
\* one of them the pipeline runs, too.
VARIABLE output

MCInit == Init /\ output \in Outputs

MCNext == output = Plain /\ Next /\ UNCHANGED output

MCSpec == MCInit /\ [][MCNext]_<<vars, output>> /\ Fairness

\* What is stored of a probe is what the analysis reads (KeepsProbe).
RowKeepsProbe == output \in Probed => KeepsProbe(output)

\* More bits are never a reason to spare a file (SparesNoMoreBits).
MoreBitsNeverSpared ==
    output \in Probed /\ Fits(output) => SparesNoMoreBits(Analysed(output))

\* A file's colour reaches the encoder (PassesColour).
ColourReachesEncoder == output \in Probed /\ Fits(output) => PassesColour(output)
=============================================================================

------------------------------ MODULE MCPages ------------------------------
(* Values of the constants of Pages that a configuration cannot write. *)
EXTENDS Pages, Filtering

\* Filter is SelectSeq: on every list of up to four of three elements.
ASSUME FilterAssumption ==
    \A n \in 0 .. 4, T \in SUBSET (1 .. 3) :
        \A s \in [1 .. n -> 1 .. 3] : Filter(s, LAMBDA x : x \in T) = SelectSeq(s, LAMBDA x : x \in T)

\* Container 1 runs on system 11, container 2 on system 12.
MCSystemOf == [c \in Containers |-> IF c = 1 THEN 11 ELSE 12]

\* Seconds around the limits at which formatDuration rounds up.
MCSpans == {0, 1, 57, 58, 59, 60, 61, 117, 118, 119, 3537, 3538, 3540, 3590, 3597, 3598, 3599, 3600,
            3601, 3658, 7140, 7190, 7198, 7199, 7200}

\* Records with and without GPUs, file systems and disk metrics; the GPU with
\* name "B" comes back with another id.
Gpu(i, n, p, pp, e) == [id |-> i, name |-> n, p |-> p, pp |-> pp, vram |-> p, e |-> e]
Point(g, sw, io, x, c) == [gpus |-> g, swap |-> sw, io |-> io, extra |-> x, cores |-> c, net |-> c > 0]
MCPoints ==
    {Point({}, FALSE, {}, {}, 0),
     Point({Gpu(1, "A", TRUE, FALSE, {"3d"})}, TRUE, {"time", "util"}, {"data"}, 2),
     Point({Gpu(1, "A", TRUE, TRUE, {"3d", "video"}), Gpu(2, "B", TRUE, FALSE, {})}, FALSE, {"time", "await"}, {}, 1),
     Point({Gpu(3, "B", FALSE, FALSE, {"3d"})}, TRUE, {"queue"}, {"data"}, 1)}

\* Agents 0.15.3 and 0.12.0.
MCVersions == <<1503, 1200>>

\* The labels of list 2 are longer, and it has another set of series.
MCLabel == [d \in Data |-> 2 * d]
MCSeries == [d \in Data \cup {0} |-> IF d = 2 THEN 2 ELSE 1]
=============================================================================

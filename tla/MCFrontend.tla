------------------------------ MODULE MCFrontend ------------------------------
(* An instance of the frontend for TLC: a frame of six cycles, runs of five *)
(* steps of two to four cycles that make up to six samples, an output queue *)
(* of three and a drain buffer of two; the embedding host runs to MaxTime.  *)
EXTENDS Frontend

SomeRuns == {Frame - 2, Frame, 2 * Frame + 1}

File(f) == [kind |-> "FILE", name |-> f]
Track(m) == [kind |-> "TRACK", mode |-> m]
Index(n, frames) == [kind |-> "INDEX", number |-> n, frames |-> frames]
CueLines ==
    {File("a"), File("b")} \cup
    {Track(m) : m \in {"AUDIO", "data", "unsupported"}} \cup
    {Index("00", 0), Index("malformed", 0), Index("01", 1), Index("01", 2)}
SomeCues ==
    UNION {[1..n -> CueLines] : n \in 1..3} \cup
    {<<File("a"), Track("AUDIO")>> \o s : s \in [1..3 -> CueLines]}

Arguments(first, second, isDisc, isTest, pass, trace, audio) ==
    [paths |-> [p \in {0, 1} |-> IF p = 0 THEN first ELSE second],
     disc |-> isDisc, test |-> isTest, pass |-> pass, trace |-> trace,
     audio |-> audio]
SomeArgs ==
    {Arguments("none", "none", TRUE, FALSE, FALSE, FALSE, FALSE),
     Arguments("x", "y", FALSE, FALSE, FALSE, TRUE, FALSE),
     Arguments("none", "x", FALSE, FALSE, FALSE, TRUE, TRUE),
     Arguments("x", "x", FALSE, FALSE, FALSE, FALSE, TRUE),
     Arguments("x", "none", FALSE, TRUE, FALSE, FALSE, TRUE),
     Arguments("y", "x", FALSE, TRUE, TRUE, FALSE, FALSE)}
=============================================================================
